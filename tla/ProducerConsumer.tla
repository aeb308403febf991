-------------------------- MODULE ProducerConsumer --------------------------
(***************************************************************************)
(* The program of test_condition_variable, base_test.cpp: producers and    *)
(* consumers of a deque guarded by a mutex and one condition variable, all *)
(* of them coroutines.  Each repeats its round until exitFlag is set.      *)
(***************************************************************************)
EXTENDS CoConditionVariable

CONSTANTS
    Producer,  \* the tasks that run producer_thread; the others consume
    MaxNum     \* MAX_NUM

ASSUME ProducerConsumerAssumption == Producer \subseteq Task /\ MaxNum \in Nat

VARIABLES
    items,     \* g_data_deque.size()
    exitFlag,
    worked     \* the tasks that have changed the deque in this round

pcVars == <<items, exitFlag, worked>>
allPcVars == <<allVars, pcVars>>

PcInit == CvInit /\ items = 0 /\ exitFlag = FALSE /\ worked = {}

\* The predicate that the loop around Wait tests again each time.
MustWait(t) == IF t \in Producer THEN items > MaxNum ELSE items = 0

\* The test of while (!exitFlag), between two rounds.
RoundBegin(t) ==
    /\ ~exitFlag /\ cvpc[t] = "none" /\ pc[t] = "idle"
    /\ LockStep(t)
    /\ UNCHANGED <<cvVars, pcVars>>

RoundRelock(t) ==
    /\ cvpc[t] = "relock" /\ LockStep(t)
    /\ UNCHANGED <<cvVars, pcVars>>

MutexProgress == MutexStep /\ UNCHANGED pcVars
WaitProgress  ==
    /\ \/ \E t \in Task : WaitReturn(t)
       \/ \E p \in Proc : WaitSwitch(p)
    /\ UNCHANGED pcVars
Dispatched    == Dispatch /\ UNCHANGED pcVars

WaitForChange(t) ==
    /\ t \notin worked /\ MustWait(t)
    /\ WaitBegin(t, FALSE)
    /\ UNCHANGED pcVars

Changed(t) ==
    /\ Notifies(t) /\ t \notin worked /\ ~MustWait(t)
    /\ items' = IF t \in Producer THEN items + 1 ELSE items - 1
    /\ worked' = worked \union {t}
    /\ UNCHANGED exitFlag

ChangeNotifyOne(t) ==  \* fault: it may wake the wrong side
    Changed(t) /\ IF cvQueue = <<>> THEN NotifyAll(t) ELSE NotifyOne(t)

ChangeUnchecked(t) ==  \* fault: "if" instead of "while" around Wait
    /\ Notifies(t) /\ t \notin worked
    /\ items' = IF t \in Producer THEN items + 1 ELSE items - 1
    /\ worked' = worked \union {t}
    /\ NotifyAll(t)
    /\ UNCHANGED exitFlag

\* push_back or pop_front, then NotifyAll.
Change(t) == Changed(t) /\ NotifyAll(t)

\* The unique_lock leaves its scope.
RoundEnd(t) ==
    /\ t \in worked /\ UnlockStep(t) /\ cvpc[t] = "none"
    /\ worked' = worked \ {t}
    /\ UNCHANGED <<cvVars, items, exitFlag>>

WaitUnlocks(t) ==
    /\ cvpc[t] = "unlock" /\ UnlockStep(t)
    /\ UNCHANGED <<cvVars, pcVars>>

Leave(p) ==
    /\ exitFlag /\ on[p] # NoTask /\ cvpc[on[p]] = "none"
    /\ UserFinish(p)
    /\ UNCHANGED <<cvVars, pcVars>>

SetExitFlag ==
    /\ ~exitFlag /\ exitFlag' = TRUE
    /\ UNCHANGED <<allVars, items, worked>>

\* A coroutine inside a library call or its round goes on by itself.
TaskStep(t) ==
    \/ RoundBegin(t) \/ RoundRelock(t) \/ WaitForChange(t) \/ Change(t)
    \/ RoundEnd(t) \/ WaitUnlocks(t)

\* Everybody has returned: the process may end.
Ended == alive = {} /\ UNCHANGED allPcVars

PcNext ==
    \/ MutexProgress \/ WaitProgress \/ Dispatched \/ SetExitFlag \/ Ended
    \/ \E t \in Task : TaskStep(t)
    \/ \E p \in Proc : Leave(p)

PcSpec == PcInit /\ [][PcNext]_allPcVars

-----------------------------------------------------------------------------
\* The deque is never popped when empty and holds MAX_NUM + 1 values at most,
\* although a notified coroutine gets the mutex after others have run: the
\* predicate is tested under the mutex each time (base_test.cpp:572 and 589).
DequeInBounds == items \in 0 .. MaxNum + 1

\* Fairness: the scheduler resumes ready coroutines and the program goes on.
PcFairness ==
    /\ \A t \in Task :
         /\ SF_allPcVars(Dispatched /\ t \in Sched!Executing')
         /\ SF_allPcVars(TaskStep(t))
    /\ WF_allPcVars(MutexProgress) /\ WF_allPcVars(WaitProgress)
    /\ \A p \in Proc : WF_allPcVars(Leave(p))

PcFairSpec == PcSpec /\ PcFairness

\* Until exitFlag is set, values are consumed again and again: the program
\* never comes to a stop with everybody in Wait or in the queue of the mutex.
ValuesAreConsumed == []<>(exitFlag \/ \E t \in worked : t \notin Producer)
=============================================================================
