----------------------------- MODULE Suspension -----------------------------
(***************************************************************************)
(* How a coroutine blocks inside a library call and how it is woken.  It   *)
(* calls SuspendBySelfIO, enters itself in some waiting queue, releases    *)
(* the lock of that queue and swaps out with StaticCoYield.  Whoever takes *)
(* it out of the queue sets state_ and calls WakeupBySelfIO, which may     *)
(* happen before it has swapped out.  Modules of blocking calls extend     *)
(* this one; the coroutines run on the scheduler TaskSched promises and    *)
(* never finish.                                                           *)
(***************************************************************************)
CONSTANTS
    Task,   \* the coroutines
    Proc,   \* the threads of the scheduler
    NoTask  \* nullptr

ASSUME SuspensionAssumption == NoTask \notin Task

VARIABLES
    alive, parked, on,  \* the scheduler's, see TaskSched
    state               \* Task::state_

Sched == INSTANCE TaskSched

suspensionVars == <<alive, parked, on, state>>

SuspensionInit ==
    /\ Sched!Init
    /\ alive = Task
    /\ state = [t \in Task |-> "runnable"]

SuspensionTypeOK ==
    /\ alive = Task
    /\ parked \in SUBSET Task
    /\ on \in [Proc -> Task \union {NoTask}]
    /\ state \in [Task -> {"runnable", "block"}]

\* SuspendBySelfIO: t is in no run queue from here on, but still executes.
SuspendBySelfIO(t) ==
    /\ state' = [state EXCEPT ![t] = "block"]
    /\ UNCHANGED <<alive, parked, on>>

\* Pushing a task that is not suspended overwrites the links it has in the
\* run queue it is already in.
MayWake(S) == \A t \in S : state[t] = "block"

\* state_ = runnable and WakeupBySelfIO for every task of S.
WakeupBySelfIO(S) ==
    /\ state' = [t \in Task |-> IF t \in S THEN "runnable" ELSE state[t]]
    /\ parked' = parked \ S
    /\ UNCHANGED <<alive, on>>

SwapOutAlways(p) == Sched!Park(p) /\ UNCHANGED state  \* fault: state_ ignored

\* StaticCoYield() of the task on p after it suspended itself: Processer parks
\* it, but keeps it ready if somebody has woken it meanwhile.
SwapOut(p) ==
    /\ IF state[on[p]] = "block" THEN Sched!Park(p) ELSE Sched!Yield(p)
    /\ UNCHANGED state

Resume(p, t) == Sched!Resume(p, t) /\ UNCHANGED state
Yield(p)     == Sched!Yield(p) /\ UNCHANGED state
=============================================================================
