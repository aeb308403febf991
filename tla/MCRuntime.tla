------------------------------ MODULE MCRuntime ------------------------------
(* What the scheduler stands on and what its coroutines lock, for TLC: how *)
(* the threads are started and stopped, the queues they share, and the     *)
(* mutex.  A behaviour is about one of them, the others are at rest.       *)
EXTENDS CoMutex

CONSTANTS
    N, Starter, Stopper,      \* of Lifecycle
    Queue, List, Elem, Null   \* of the queues

ASSUME LifecycleAssumption == N \in Nat \ {0} /\ "free" \notin Stopper

ASSUME QueueAssumption ==
    /\ IsFiniteSet(Queue) /\ IsFiniteSet(Elem)
    /\ Queue \intersect List = {} /\ (Queue \union List) \intersect Elem = {}
    /\ Null \notin Queue \union Elem

VARIABLES
    part,                                   \* what this behaviour is about
    started, starter, procs, active, thread, dispatcher, joinable,
    stop, stopMtx, stopper, size, turn,     \* Lifecycle
    prev, next, check, head, tail, count    \* TSQueue

lifeVars == <<started, starter, procs, active, thread, dispatcher, joinable,
              stop, stopMtx, stopper, size, turn>>
queueVars == <<prev, next, check, head, tail, count>>
mcVars == <<vars, part, lifeVars, queueVars>>

Life == INSTANCE Lifecycle
Q == INSTANCE TSQueue

MCInit ==
    /\ part \in {"life", "queue", "mutex"}
    /\ Life!Init /\ Q!Init /\ Init

Running == part = "life" /\ Life!Next /\ UNCHANGED <<vars, queueVars>>

Queues == part = "queue" /\ Q!Next /\ UNCHANGED <<vars, lifeVars>>

Locking == part = "mutex" /\ Next /\ UNCHANGED <<lifeVars, queueVars>>

MCNext == (Running \/ Queues \/ Locking) /\ UNCHANGED part

\* Threads run; nobody is bound to call Start or Stop.  Leave is fair since
\* WaitLoop has a timeout and the coroutines yield.
LifeFairness ==
    /\ \A a \in Starter : WF_lifeVars(part = "life" /\ Life!Starting(a))
    /\ \A s \in Stopper : WF_lifeVars(part = "life" /\ Life!Stopping(s))
    /\ WF_lifeVars(part = "life" /\ Life!DispatcherThread)
    /\ \A i \in Life!Processers : WF_lifeVars(part = "life" /\ (Life!Leave(i) \/ Life!End(i)))

\* Ready tasks are resumed (what Processer guarantees), steps inside the mutex
\* are not held up, and a critical section ends.
MutexFairness ==
    /\ \A t \in Task :
         /\ SF_vars(part = "mutex" /\ \E p \in Proc : Resume(p, t))
         /\ WF_vars(part = "mutex" /\ InMutex(t))
         /\ SF_vars(part = "mutex" /\ Unlock(t))
    /\ \A p \in Proc :
         /\ WF_vars(part = "mutex" /\ (LockYield(p) \/ SwitchOut(p)))
         /\ WF_vars(part = "mutex" /\ (UserYield(p) \/ UserFinish(p)))

Fairness == LifeFairness /\ MutexFairness

MCSpec == MCInit /\ [][MCNext]_mcVars /\ Fairness

\* Seen as sequences the queues and lists only do what SeqQueue allows: no
\* operation of ts_queue.h loses, doubles or reorders an element.  Their links
\* lead forward and back along the same elements, tail_ and count_ agree with
\* them, and what has left them has clear hooks, which the next push asserts.
SequencesSpec ==
    /\ Q!SequencesSpec
    /\ [](Q!TypeOK /\ Q!LinkedWell)

\* Lifecycle: a call of Stop that has returned leaves nothing running
\* (scheduler.cpp, Stop) ...
StopQuiet == Life!StopQuiet

\* ... and every call of Stop comes back.
StopReturns == Life!StopReturns
==============================================================================
