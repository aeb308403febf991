\* Three Processers, two callers of Start and two of Stop; two queues and two
\* lists with three elements; a mutex of four coroutines on two threads.
SPECIFICATION MCSpec
CONSTANTS
    N = 3
    Starter = {a1, a2}
    Stopper = {s1, s2}
    Queue = {q1, q2}
    List = {l1, l2}
    Elem = {e1, e2, e3}
    Null = Null
    Task = {t1, t2, t3, t4}
    Proc = {p1, p2}
    NoTask = NoTask
INVARIANTS
    StopQuiet
    MutualExclusion
    NoStrandedWaiter
    WaitersSuspended
PROPERTIES
    StopReturns
    SequencesSpec
    NoBarging
    LockReturns
