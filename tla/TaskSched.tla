----------------------------- MODULE TaskSched -----------------------------
(***************************************************************************)
(* What the scheduler promises to the coroutines ("task"s) it runs,        *)
(* whatever queues it keeps them in and however it moves them between      *)
(* threads: a task is created, is resumed on at most one thread at a time, *)
(* never while it is parked and never after it finished, and every wakeup  *)
(* makes a parked task ready again.  Processer.tla implements this module. *)
(***************************************************************************)
CONSTANTS
    Task,    \* the coroutines, each identified by its Task object
    Proc,    \* the threads that execute coroutines, one per Processer
    NoTask   \* "nullptr": a thread that executes no coroutine

VARIABLES
    alive,   \* created and not finished
    parked,  \* swapped out until somebody wakes them (TaskState::block)
    on       \* on[p]: the coroutine whose stack thread p is executing on

vars == <<alive, parked, on>>

Executing == {on[p] : p \in Proc} \ {NoTask}
Ready     == alive \ (parked \union Executing)

Init ==
    /\ alive \in SUBSET Task
    /\ parked = {}
    /\ on = [p \in Proc |-> NoTask]

Create(t) ==
    /\ t \in Task \ (alive \union Executing)
    /\ alive' = alive \union {t}
    /\ UNCHANGED <<parked, on>>

Resume(p, t) ==
    /\ on[p] = NoTask
    /\ t \in Ready
    /\ on' = [on EXCEPT ![p] = t]
    /\ UNCHANGED <<alive, parked>>

\* A task leaves its thread in one of three ways: it stays ready, it is
\* parked, or it has finished.
Leave(p) ==
    /\ on[p] # NoTask
    /\ on' = [on EXCEPT ![p] = NoTask]

Yield(p)  == Leave(p) /\ UNCHANGED <<alive, parked>>
Park(p)   == Leave(p) /\ parked' = parked \union {on[p]} /\ UNCHANGED alive
Finish(p) == Leave(p) /\ alive' = alive \ {on[p]} /\ UNCHANGED parked

Wake(t) ==
    /\ t \in parked
    /\ parked' = parked \ {t}
    /\ UNCHANGED <<alive, on>>

Next ==
    \/ \E t \in Task : Create(t) \/ Wake(t)
    \/ \E p \in Proc : Yield(p) \/ Park(p) \/ Finish(p)
    \/ \E p \in Proc, t \in Task : Resume(p, t)

Spec == Init /\ [][Next]_vars
=============================================================================
