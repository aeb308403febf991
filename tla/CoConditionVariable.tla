------------------------ MODULE CoConditionVariable ------------------------
(***************************************************************************)
(* The coroutine condition variable, sync/co_condition_variable.cpp,       *)
(* together with the mutex it works with: Wait enters waite_queue_,        *)
(* releases the mutex, swaps out and takes the mutex again.  The mutex'    *)
(* steps are those of CoMutex.  With a timeout, Wait's timer stays armed   *)
(* until lock() has returned.                                              *)
(***************************************************************************)
EXTENDS CoMutex

CONSTANTS
    Timed,    \* the kinds of Wait used: {FALSE}, or {TRUE} with a timeout
    MaxQueue  \* bound on waite_queue_, where a Wait that timed out stays

ASSUME CoConditionVariableAssumption ==
    Timed \subseteq BOOLEAN /\ MaxQueue \in Nat

VARIABLES
    cvQueue,    \* CoConditionVariable::waite_queue_
    cvpc,       \* where each coroutine is in Wait: "unlock" until it has
                \* swapped out, "relock" until lock() has returned
    timer,      \* the Processer that holds the timer of t's Wait, or NoTask
    isTimeOut,  \* the coroutines whose timer has fired in this Wait
    wild        \* a task was pushed that is in a run queue already

cvVars == <<cvQueue, cvpc, timer, isTimeOut, wild>>
allVars == <<vars, cvVars>>

CvInit ==
    /\ Init
    /\ cvQueue = <<>>
    /\ cvpc = [t \in Task |-> "none"]
    /\ timer = [t \in Task |-> NoTask]
    /\ isTimeOut = {}
    /\ wild = FALSE

CvStep(t, from, to) ==
    /\ t \in Sched!Executing
    /\ cvpc[t] = from
    /\ cvpc' = [cvpc EXCEPT ![t] = to]

\* WakeupBySelfIO of every task of S.
Wakeup(S) ==
    /\ state' = [t \in Task |-> IF t \in S THEN "runnable" ELSE state[t]]
    /\ parked' = parked \ S
    /\ wild' = (wild \/ \E t \in S : state[t] # "block")
    /\ UNCHANGED <<alive, on>>

-----------------------------------------------------------------------------
\* Wait up to mutex.unlock(): the timer, SuspendBySelfIO, the queue.
WaitBegin(t, timed) ==
    /\ pc[t] = "cs" /\ Len(cvQueue) < MaxQueue
    /\ CvStep(t, "none", "unlock")
    /\ IF timed
       THEN \E p \in Proc : on[p] = t /\ timer' = [timer EXCEPT ![t] = p]
       ELSE UNCHANGED timer
    /\ state' = [state EXCEPT ![t] = "block"]
    /\ cvQueue' = Append(cvQueue, t)
    /\ UNCHANGED <<schedVars, owner, waiteQueue, pc, wakee, isTimeOut, wild>>

WaitParks(p) ==  \* fault: parked although it has been notified
    /\ on[p] # NoTask /\ pc[on[p]] = "idle"
    /\ CvStep(on[p], "unlock", "relock")
    /\ Sched!Park(p)
    /\ UNCHANGED <<mutexVars, cvQueue, timer, isTimeOut, wild>>

\* StaticCoYield after mutex.unlock() has returned.
WaitSwitch(p) ==
    /\ on[p] # NoTask /\ pc[on[p]] = "idle"
    /\ CvStep(on[p], "unlock", "relock")
    /\ IF state[on[p]] = "block" THEN Sched!Park(p) ELSE Sched!Yield(p)
    /\ UNCHANGED <<mutexVars, cvQueue, timer, isTimeOut, wild>>

WaitRelocks(t) ==  \* fault: Wait returns without mutex.lock()
    /\ pc[t] = "idle"
    /\ CvStep(t, "relock", "none")
    /\ pc' = [pc EXCEPT ![t] = "cs"]
    /\ UNCHANGED <<schedVars, state, owner, waiteQueue, wakee, timer, cvQueue,
                   isTimeOut, wild>>

\* Back from mutex.lock(): StopTimer, or the answer that it was a timeout.
WaitReturn(t) ==
    /\ pc[t] = "cs"
    /\ CvStep(t, "relock", "none")
    /\ timer' = [timer EXCEPT ![t] = NoTask]
    /\ isTimeOut' = isTimeOut \ {t}
    /\ UNCHANGED <<vars, cvQueue, wild>>

\* The callback of the timer, run by its Processer between two coroutines.
TimerFires(t) ==
    /\ timer[t] # NoTask /\ on[timer[t]] = NoTask
    /\ timer' = [timer EXCEPT ![t] = NoTask]
    /\ isTimeOut' = isTimeOut \union {t}
    /\ Wakeup({t})
    /\ UNCHANGED <<owner, waiteQueue, pc, wakee, cvQueue, cvpc>>

Notifies(t) == t \in Sched!Executing /\ pc[t] = "cs" /\ cvpc[t] = "none"

\* Called with the mutex held, as the comment at line 65 demands.
NotifyOne(t) ==
    /\ Notifies(t) /\ cvQueue # <<>>
    /\ cvQueue' = Tail(cvQueue)
    /\ Wakeup({Head(cvQueue)})
    /\ UNCHANGED <<owner, waiteQueue, pc, wakee, cvpc, timer, isTimeOut>>

NotifyAll(t) ==
    /\ Notifies(t)
    /\ cvQueue' = <<>>
    /\ Wakeup(Range(cvQueue))
    /\ UNCHANGED <<owner, waiteQueue, pc, wakee, cvpc, timer, isTimeOut>>

-----------------------------------------------------------------------------
\* The steps inside lock() and unlock(), called by the user or by Wait.
LockStep(t) == (LockFree(t) \/ LockContended(t)) /\ cvpc[t] # "unlock"
UnlockStep(t) == Unlock(t) /\ cvpc[t] # "relock"

MutexStep ==
    /\ \/ \E t \in Task : InMutex(t)
       \/ \E p \in Proc : LockYield(p) \/ SwitchOut(p)
    /\ UNCHANGED cvVars

WaitStep ==
    \/ \E t \in Task : WaitReturn(t) \/ TimerFires(t)
    \/ \E p \in Proc : WaitSwitch(p)

Dispatch == UNCHANGED cvVars /\ \E p \in Proc, t \in Task : Resume(p, t)

UserStep ==
    \/ \E t \in Task :
         \/ \E timed \in Timed : WaitBegin(t, timed)
         \/ NotifyOne(t) \/ NotifyAll(t)
         \/ (LockStep(t) \/ UnlockStep(t)) /\ UNCHANGED cvVars
    \/ \E p \in Proc :
         on[p] # NoTask /\ cvpc[on[p]] = "none" /\ UserYield(p)
           /\ UNCHANGED cvVars

CvNext == ~wild /\ (MutexStep \/ WaitStep \/ Dispatch \/ UserStep)

CvSpec == CvInit /\ [][CvNext]_allVars

-----------------------------------------------------------------------------
\* Every variable of the condition variable and of its mutex has its type.
CvTypeOK ==
    /\ TypeOK
    /\ cvQueue \in Seq(Task)
    /\ cvpc \in [Task -> {"none", "unlock", "relock"}]
    /\ timer \in [Task -> Proc \union {NoTask}]
    /\ isTimeOut \in SUBSET Task
    /\ wild \in BOOLEAN

\* Wait returns with the mutex held although others lock, unlock and notify
\* meanwhile (the assert at co_mutex.cpp:125: only the owner releases it).
HoldsMutex ==
    \A t \in Sched!Executing :
        pc[t] = "cs" /\ cvpc[t] # "unlock" => owner = t

\* Waiters of the condition are suspended, each once, none of them also in the
\* queue of the mutex: a notification wakes exactly one Wait.
ConditionWaitersSuspended ==
    /\ IsInjective(cvQueue)
    /\ \A t \in Range(cvQueue) :
         state[t] = "block" /\ cvpc[t] # "none" /\ t \notin Range(waiteQueue)

\* No notification is lost between emplace and StaticCoYield: a suspended
\* coroutine is in one of the two queues, or is the next owner about to be
\* woken by unlock().
ParkedIsQueued ==
    \A t \in parked :
        \/ t \in Range(cvQueue) \union Range(waiteQueue)
        \/ \E u \in Task : pc[u] = "wake" /\ wakee[u] = t
=============================================================================
