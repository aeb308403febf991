----------------------------- MODULE MCCondition -----------------------------
(* The condition variable for TLC, used in three ways: by coroutines that  *)
(* do as they like without timeouts, by two that do with timeouts, and by  *)
(* the program of ProducerConsumer.                                        *)
EXTENDS ProducerConsumer

CONSTANTS
    TimedUsers  \* the coroutines that run when timeouts are used

VARIABLE use  \* which of the three, for the whole behaviour

mcVars == <<allPcVars, use>>

MCInit == PcInit /\ use \in {"free", "timed", "program"}

AnyUse == CvNext /\ UNCHANGED <<pcVars, use>>

MCNext ==
    \/ use = "free" /\ AnyUse /\ timer' = timer
    \/ use = "timed" /\ AnyUse /\ Sched!Executing' \subseteq TimedUsers
    \/ use = "program" /\ PcNext /\ UNCHANGED use

MCSpec == MCInit /\ [][MCNext]_mcVars /\ (use = "program" => PcFairness)

\* Where no Wait has a timeout, it returns with the mutex held although others
\* lock, unlock and notify meanwhile (the assert at co_mutex.cpp:125).
HoldsMutexUntimed == use = "timed" \/ HoldsMutex

\* No notification is lost between emplace and StaticCoYield: a suspended
\* coroutine is in the queue of the condition or of the mutex, or its waker is on
\* the way (co_condition_variable.cpp:32-47).  Where no Wait has a timeout a
\* notification wakes exactly one Wait: the waiters are suspended, each queued
\* once, none also waiting for the mutex.
WaitersQueued ==
    /\ CvTypeOK
    /\ ParkedIsQueued
    /\ use = "timed" \/ ConditionWaitersSuspended

\* The test's consumers go on consuming until exitFlag is set: the program
\* never comes to a stop with everybody in Wait or in lock().
ProgramConsumes == use = "program" => ValuesAreConsumed
==============================================================================
