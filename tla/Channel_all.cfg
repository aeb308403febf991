\* Three coroutines on two threads; hand-over and a buffer of one; every kind
\* of timeout.
SPECIFICATION MCSpec
CONSTANTS
    Task = {t1, t2, t3}
    Proc = {p1, p2}
    NoTask = NoTask
    Value = {v1, v2}
    Capacities = {0, 1}
    Timeouts = {"never", "zero", "timed"}
    MaxEntries = 2
    RingCapacity = 3
    OddCapacity = 2
    WIDTH = 4
    Entry = {e1, e2, e3, e4}
    Dummy = Dummy
    Null = Null
    Producer = p
    Consumer = c
    PairCapacity = 2
    Producers = {p, q}
    ProducersCapacity = 3
SYMMETRY Symmetry
INVARIANTS
    EntriesWait
    AnsweredIsReady
    RingFifo
    SlotsExclusive
PROPERTIES
    ImplementsChannel
    QueueFifo
CHECK_DEADLOCK FALSE
