---------------------------- MODULE MutexProofs ----------------------------
(***************************************************************************)
(* The coroutine mutex and the condition variable that works with it, for  *)
(* every set of coroutines and threads.  First the mutex alone (CoMutex),  *)
(* then the three uses of MCCondition: a suspended coroutine is always     *)
(* queued or about to be woken, and where no Wait has a timeout, Wait      *)
(* returns with the mutex held.                                            *)
(***************************************************************************)
EXTENDS MCCondition, SeqLemmas

-----------------------------------------------------------------------------
(* The mutex.                                                              *)

\* The scheduler's part: one thread per executing task, never a parked one.
SchedInv ==
    /\ \A p, q \in Proc : on[p] = on[q] /\ on[p] # NoTask => p = q
    /\ Sched!Executing \intersect parked = {}

\* Who owns the mutex, told from where each task is: a task that has returned
\* from lock() owns it, and so does one that was woken before it switched out;
\* the others do not.
OwnerInv ==
    \A t \in Task :
      /\ pc[t] = "cs" /\ t \notin parked => owner = t
      /\ pc[t] = "switch" /\ state[t] = "runnable" => owner = t
      /\ owner = t => pc[t] \in {"cs", "switch"}

\* Where the tasks are that state_ = block holds for.
BlockInv ==
    \A t \in Task :
      /\ t \in parked => pc[t] = "cs" /\ state[t] = "block"
      /\ pc[t] = "recheck" => state[t] = "block"
      /\ state[t] = "block" => pc[t] \in {"recheck", "switch"} \/ t \in parked

QueueInv ==
    /\ \A i, j \in 1 .. Len(waiteQueue) :
         waiteQueue[i] = waiteQueue[j] => i = j
    /\ \A i \in 1 .. Len(waiteQueue) :
         /\ state[waiteQueue[i]] = "block"
         /\ pc[waiteQueue[i]] # "recheck"
         /\ waiteQueue[i] # owner

\* A hand-over in progress: there is one at most, its task owns the mutex
\* already and still waits for its wakeup.
WakeInv ==
    \A u \in Task : pc[u] = "wake" =>
      /\ wakee[u] = owner
      /\ owner \in Task
      /\ state[owner] = "block"
      /\ \A v \in Task : pc[v] = "wake" => v = u

IInv ==
    /\ TypeOK
    /\ SchedInv
    /\ OwnerInv
    /\ BlockInv
    /\ QueueInv
    /\ WakeInv
    /\ NoStrandedWaiter

-----------------------------------------------------------------------------
\* The initial states satisfy the invariant.
LEMMA InitIInv == Init => IInv
  BY CoMutexAssumption
     DEF Init, IInv, TypeOK, SchedInv, OwnerInv, BlockInv, QueueInv, WakeInv,
         NoStrandedWaiter, Label, Sched!Init, Sched!Executing
-----------------------------------------------------------------------------
\* Every step keeps the invariant.  Handing over the mutex is the step that
\* disturbs most of it: the holder is the only one in "cs", nobody else is in
\* "wake", and the first waiter is still suspended and in no other place.
LEMMA StepIInv == IInv /\ [Next]_vars => IInv'
<1> SUFFICES ASSUME IInv, [Next]_vars PROVE IInv'
  OBVIOUS
<1> USE CoMutexAssumption
    DEF IInv, TypeOK, SchedInv, OwnerInv, BlockInv, QueueInv, WakeInv,
        NoStrandedWaiter, Sched!Executing, schedVars, mutexVars, Step, Label
<1>1. ASSUME NEW t \in Task, LockFree(t) PROVE IInv'
  BY <1>1 DEF LockFree, Take
<1>2. ASSUME NEW t \in Task, LockContended(t) PROVE IInv'
  BY <1>2 DEF LockContended
<1>3. ASSUME NEW t \in Task, SpinTake(t) PROVE IInv'
  BY <1>3 DEF SpinTake, Take
<1>4. ASSUME NEW t \in Task, SpinFail(t) PROVE IInv'
  BY <1>4 DEF SpinFail
<1>5. ASSUME NEW t \in Task, Suspend(t) PROVE IInv'
  BY <1>5 DEF Suspend
<1>6. ASSUME NEW t \in Task, RecheckTake(t) PROVE IInv'
  BY <1>6 DEF RecheckTake, Take
<1>7. ASSUME NEW t \in Task, RecheckEnqueue(t) PROVE IInv'
  BY <1>7 DEF RecheckEnqueue
<1>8. ASSUME NEW t \in Task, TryLockFail(t) PROVE IInv'
  BY <1>8 DEF TryLockFail
<1>9. ASSUME NEW t \in Task, UnlockFree(t) PROVE IInv'
  BY <1>9 DEF UnlockFree
<1>10. ASSUME NEW t \in Task, UnlockHandOver(t) PROVE IInv'
  <2>1. PICK w \in Task : w = Head(waiteQueue) /\ w = waiteQueue[1]
    BY <1>10 DEF UnlockHandOver
  <2>2. /\ t \in Sched!Executing /\ pc[t] = "cs" /\ waiteQueue # <<>>
        /\ pc' = [pc EXCEPT ![t] = "wake"]
        /\ owner' = w
        /\ wakee' = [wakee EXCEPT ![t] = w]
        /\ waiteQueue' = Tail(waiteQueue)
        /\ UNCHANGED <<alive, parked, on, state>>
    BY <1>10, <2>1 DEF UnlockHandOver
  <2> HIDE DEF Sched!Executing
  <2>3. /\ owner = t
        /\ state[w] = "block" /\ w # t
        /\ pc[w] = "switch" \/ w \in parked
        /\ \A u \in Task : pc[u] # "wake"
    BY <2>1, <2>2
  <2>4. /\ waiteQueue' \in Seq(Task)
        /\ Len(waiteQueue') = Len(waiteQueue) - 1
        /\ \A i \in 1 .. Len(waiteQueue') : waiteQueue'[i] = waiteQueue[i + 1]
    BY <2>2, HeadTailProperties
  <2>5. TypeOK'
    BY <2>2, <2>4
  <2>6. QueueInv'
    BY <2>1, <2>2, <2>3, <2>4
  <2>7. OwnerInv' /\ BlockInv'
    BY <2>2, <2>3
  <2>8. WakeInv' /\ NoStrandedWaiter'
    BY <2>2, <2>3, CoMutexAssumption
  <2> QED
    BY <2>2, <2>5, <2>6, <2>7, <2>8 DEF Sched!Executing
<1>11. ASSUME NEW t \in Task, UnlockWake(t) PROVE IInv'
  BY <1>11 DEF UnlockWake, Sched!Wake
<1>12. ASSUME NEW t \in Task, UserCreate(t) PROVE IInv'
  BY <1>12 DEF UserCreate, Sched!Create
<1>13. ASSUME NEW p \in Proc, LockYield(p) PROVE IInv'
  BY <1>13 DEF LockYield, Sched!Yield, Sched!Leave
<1>14. ASSUME NEW p \in Proc, SwitchOut(p) PROVE IInv'
  <2>1. on[p] \in Task /\ pc[on[p]] = "switch"
    BY <1>14 DEF SwitchOut
  <2>2. pc' = [pc EXCEPT ![on[p]] = "cs"]
    BY <1>14 DEF SwitchOut
  <2>3. PICK t \in Task : /\ on[p] = t /\ pc[t] = "switch"
                         /\ pc' = [pc EXCEPT ![t] = "cs"]
    BY <2>1, <2>2
  <2>4. /\ on' = [on EXCEPT ![p] = NoTask]
        /\ UNCHANGED <<alive, state, owner, waiteQueue, wakee>>
        /\ \/ state[t] = "block" /\ parked' = parked \union {t}
           \/ state[t] # "block" /\ parked' = parked
    BY <1>14, <2>3 DEF SwitchOut, Sched!Park, Sched!Yield, Sched!Leave
  <2>5. TypeOK' /\ SchedInv' /\ BlockInv'
    BY <2>3, <2>4
  <2>6. OwnerInv' /\ QueueInv' /\ WakeInv' /\ NoStrandedWaiter'
    BY <2>3, <2>4
  <2> QED
    BY <2>5, <2>6
<1>15. ASSUME NEW p \in Proc, UserYield(p) PROVE IInv'
  BY <1>15 DEF UserYield, Sched!Yield, Sched!Leave
<1>16. ASSUME NEW p \in Proc, UserFinish(p) PROVE IInv'
  BY <1>16 DEF UserFinish, Sched!Finish, Sched!Leave
<1>17. ASSUME NEW p \in Proc, NEW t \in Task, Resume(p, t) PROVE IInv'
  BY <1>17 DEF Resume, Sched!Resume, Sched!Ready
<1>18. ASSUME UNCHANGED vars PROVE IInv'
  BY <1>18 DEF vars
<1> QED
  BY <1>1, <1>2, <1>3, <1>4, <1>5, <1>6, <1>7, <1>8, <1>9, <1>10, <1>11,
     <1>12, <1>13, <1>14, <1>15, <1>16, <1>17, <1>18
     DEF Next, InMutex, Unlock

\* The invariant holds in every behaviour.
THEOREM Invariance == Spec => []IInv
  BY InitIInv, StepIInv, PTL DEF Spec

-----------------------------------------------------------------------------
\* lock(), try_lock() and unlock() keep every variable in its type.
THEOREM TypeCorrect == Spec => []TypeOK
<1>1. IInv => TypeOK
  BY DEF IInv
<1> QED
  BY <1>1, Invariance, PTL

\* However many coroutines use the mutex on however many threads, those that
\* are in their critical section own it: there is one at most.
THEOREM MutexSafe == Spec => []MutualExclusion
<1>1. IInv => MutualExclusion
  BY DEF IInv, TypeOK, SchedInv, OwnerInv, MutualExclusion, Sched!Executing
<1> QED
  BY <1>1, Invariance, PTL

\* Every task in waite_queue_ has an owner in front of it, and an owner that is
\* still suspended has its waker on the way.
THEOREM NoneStranded == Spec => []NoStrandedWaiter
<1>1. IInv => NoStrandedWaiter
  BY DEF IInv
<1> QED
  BY <1>1, Invariance, PTL

\* A wakeup never pushes a task that is in a run queue already.
THEOREM WaitersAreSuspended == Spec => []WaitersSuspended
<1>1. IInv => WaitersSuspended
  <2> SUFFICES ASSUME IInv PROVE WaitersSuspended
    OBVIOUS
  <2>1. DOMAIN waiteQueue = 1 .. Len(waiteQueue)
    BY LenProperties DEF IInv, TypeOK
  <2> QED
    BY <2>1 DEF IInv, QueueInv, WaitersSuspended, IsInjective
<1> QED
  BY <1>1, Invariance, PTL

\* While tasks wait, only the one that has waited longest gets the mutex.
THEOREM NoneBarges == Spec => NoBarging
<1> DEFINE HandOver == waiteQueue # <<>> /\ owner' # owner
                         => owner' = Head(waiteQueue)
<1>1. NoStrandedWaiter /\ [Next]_vars => [HandOver]_vars
  <2> SUFFICES ASSUME NoStrandedWaiter, Next, waiteQueue # <<>>,
                      owner' # owner
               PROVE  owner' = Head(waiteQueue)
    OBVIOUS
  <2>1. owner # NoTask
    BY DEF NoStrandedWaiter
  <2>2. \E t \in Task : UnlockHandOver(t)
    BY <2>1 DEF Next, InMutex, Unlock, LockFree, LockContended, SpinTake,
        SpinFail, Suspend, RecheckTake, RecheckEnqueue, TryLockFail,
        UnlockFree, UnlockWake, UserCreate, LockYield, SwitchOut, UserYield,
        UserFinish, Resume, Take, mutexVars
  <2> QED
    BY <2>2 DEF UnlockHandOver
<1> QED
  BY <1>1, NoneStranded, PTL DEF Spec, NoBarging
-----------------------------------------------------------------------------
(* The condition variable.                                                 *)

\* A task that has called unlock() and is about to push t.
WakerOf(t) == \E u \in Task : pc[u] = "wake" /\ wakee[u] = t

\* With or without timeouts: who is suspended, in lock() after its second look
\* at owner_task_ or in Wait, is in a queue or has its waker on the way.
Queued ==
    /\ \A t \in Task : pc[t] = "wake" => wakee[t] \in Task
    /\ \A t \in parked : state[t] = "block" /\ pc[t] \in {"idle", "cs"}
    /\ \A t \in Task : state[t] = "block" /\ pc[t] # "recheck" =>
          t \in ToSet(cvQueue) \union ToSet(waiteQueue) \/ WakerOf(t)

QInv == CvTypeOK /\ SchedInv /\ Queued

\* Without timeouts.  Who owns the mutex: a task that is past lock(), or was
\* woken in it before it switched out; also while it is in Wait and has not
\* called unlock().
Owner ==
    \A t \in Task :
      /\ pc[t] = "cs" /\ t \notin parked => owner = t
      /\ pc[t] = "switch" /\ state[t] = "runnable" => owner = t
      /\ owner = t => pc[t] \in {"cs", "switch"}

\* Where state_ = block is possible, in lock() and in Wait, and where in either
\* a task is parked.
Blocked ==
    \A t \in Task :
      /\ cvpc[t] = "unlock" => pc[t] \in {"cs", "wake", "idle"}
      /\ pc[t] = "recheck" => state[t] = "block"
      /\ t \in parked => \/ pc[t] = "cs" /\ cvpc[t] # "unlock"
                         \/ pc[t] = "idle" /\ cvpc[t] = "relock"
      /\ state[t] = "block" =>
           \/ pc[t] \in {"recheck", "switch"} \/ cvpc[t] = "unlock"
           \/ t \in parked

\* Each queue holds a task once; who is in the mutex' is suspended in lock(),
\* who is in the condition's is suspended in Wait.
Waiters ==
    /\ IsInjective(waiteQueue) /\ IsInjective(cvQueue)
    /\ \A t \in ToSet(waiteQueue) :
         /\ state[t] = "block" /\ pc[t] \in {"switch", "cs"}
         /\ cvpc[t] # "unlock" /\ t # owner
    /\ \A t \in ToSet(cvQueue) :
         /\ state[t] = "block"
         /\ \/ cvpc[t] = "unlock"
            \/ cvpc[t] = "relock" /\ pc[t] = "idle"

\* One hand-over is in progress at most, and its task is suspended in lock().
HandOver ==
    \A u \in Task : pc[u] = "wake" =>
      /\ wakee[u] = owner /\ owner \in Task /\ state[owner] = "block"
      /\ owner \in parked \/ pc[owner] = "switch"
      /\ \A v \in Task : pc[v] = "wake" => v = u

NoTimers == \A t \in Task : timer[t] = NoTask

UInv == NoTimers /\ Owner /\ Blocked /\ Waiters /\ HandOver
-----------------------------------------------------------------------------
(* The steps of the three uses.                                            *)

\* What any of them can do to the mutex, the condition and the scheduler.
AnyStep ==
    \/ \E t \in Task :
         \/ InMutex(t) /\ UNCHANGED cvVars
         \/ (LockStep(t) \/ UnlockStep(t)) /\ UNCHANGED cvVars
         \/ \E timed \in BOOLEAN : WaitBegin(t, timed)
         \/ WaitReturn(t) \/ TimerFires(t) \/ NotifyOne(t) \/ NotifyAll(t)
    \/ \E p \in Proc :
         \/ (LockYield(p) \/ SwitchOut(p)) /\ UNCHANGED cvVars
         \/ (UserYield(p) \/ UserFinish(p)) /\ UNCHANGED cvVars
              /\ cvpc[on[p]] = "none"
         \/ WaitSwitch(p)
         \/ \E t \in Task : Resume(p, t) /\ UNCHANGED cvVars
    \/ UNCHANGED allVars

LEMMA EveryStep ==
  ASSUME [MCNext]_mcVars
  PROVE  AnyStep /\ use' = use
<1>1. ASSUME CvNext PROVE AnyStep
  BY <1>1, CoConditionVariableAssumption
     DEF CvNext, MutexStep, WaitStep, Dispatch, UserStep, AnyStep
<1>2. ASSUME PcNext PROVE AnyStep
  BY <1>2 DEF PcNext, TaskStep, RoundBegin, RoundRelock, WaitForChange, Change,
     Changed, RoundEnd, WaitUnlocks, MutexProgress, MutexStep, WaitProgress,
     Dispatched, Dispatch, SetExitFlag, Ended, Leave, allPcVars, AnyStep
<1> QED
  BY <1>1, <1>2 DEF MCNext, AnyUse, mcVars, allPcVars, AnyStep

\* Where no Wait has a timeout there is no timer.
LEMMA StaysUntimed ==
  ASSUME CvTypeOK, NoTimers, use # "timed", [MCNext]_mcVars
  PROVE  NoTimers'
<1> USE DEF NoTimers
<1>1. ASSUME use = "free", AnyUse, timer' = timer PROVE NoTimers'
  BY <1>1
<1>2. ASSUME PcNext PROVE NoTimers'
  <2>1. ASSUME NEW t \in Task, WaitReturn(t) PROVE NoTimers'
    BY <2>1 DEF WaitReturn, CvTypeOK
  <2>2. CASE timer' = timer
    BY <2>2
  <2>3. timer' = timer \/ \E t \in Task : WaitReturn(t)
    BY <1>2 DEF PcNext, TaskStep, RoundBegin, RoundRelock, WaitForChange,
       WaitBegin, Change, NotifyAll, RoundEnd, WaitUnlocks, MutexProgress,
       MutexStep, WaitProgress, WaitSwitch, Dispatched, Dispatch, SetExitFlag,
       Ended, Leave, allPcVars, allVars, cvVars
  <2> QED
    BY <2>1, <2>2, <2>3
<1> QED
  BY <1>1, <1>2 DEF MCNext, mcVars, allPcVars, allVars, cvVars
-----------------------------------------------------------------------------
(* The queued and the suspended, with and without timeouts.                *)

LEMMA InitQInv == CvInit => QInv
<1> SUFFICES ASSUME CvInit PROVE QInv
  OBVIOUS
<1> USE DEF CvInit, Init, Sched!Init
<1>1. waiteQueue \in Seq(Task) /\ cvQueue \in Seq(Task)
  OBVIOUS
<1>2. CvTypeOK
  BY <1>1 DEF CvTypeOK, TypeOK, Label
<1>3. SchedInv
  BY DEF SchedInv
<1>4. Queued
  BY DEF Queued
<1> QED
  BY <1>2, <1>3, <1>4 DEF QInv

LEMMA StepQInv == QInv /\ AnyStep => QInv'
<1> SUFFICES ASSUME QInv, AnyStep PROVE QInv'
  OBVIOUS
<1> USE CoMutexAssumption
    DEF QInv, CvTypeOK, TypeOK, SchedInv, Queued, WakerOf, Sched!Executing,
        schedVars, mutexVars, cvVars, Step, CvStep, Label, Wakeup
<1>1. ASSUME NEW t \in Task, LockFree(t), UNCHANGED cvVars PROVE QInv'
  BY <1>1 DEF LockFree, Take
<1>2. ASSUME NEW t \in Task, LockContended(t), UNCHANGED cvVars PROVE QInv'
  BY <1>2 DEF LockContended
<1>3. ASSUME NEW t \in Task, SpinTake(t), UNCHANGED cvVars PROVE QInv'
  BY <1>3 DEF SpinTake, Take
<1>4. ASSUME NEW t \in Task, SpinFail(t), UNCHANGED cvVars PROVE QInv'
  BY <1>4 DEF SpinFail
<1>5. ASSUME NEW t \in Task, Suspend(t), UNCHANGED cvVars PROVE QInv'
  BY <1>5 DEF Suspend
<1>6. ASSUME NEW t \in Task, RecheckTake(t), UNCHANGED cvVars PROVE QInv'
  BY <1>6 DEF RecheckTake, Take
<1>7. ASSUME NEW t \in Task, RecheckEnqueue(t), UNCHANGED cvVars PROVE QInv'
  <2>1. /\ Append(waiteQueue, t) \in Seq(Task)
        /\ ToSet(Append(waiteQueue, t)) = ToSet(waiteQueue) \union {t}
    BY AppendToSet
  <2> QED
    BY <1>7, <2>1 DEF RecheckEnqueue
<1>8. ASSUME NEW t \in Task, UnlockFree(t), UNCHANGED cvVars PROVE QInv'
  BY <1>8 DEF UnlockFree
<1>9. ASSUME NEW t \in Task, UnlockHandOver(t), UNCHANGED cvVars PROVE QInv'
  <2>1. /\ Head(waiteQueue) \in Task /\ Tail(waiteQueue) \in Seq(Task)
        /\ ToSet(waiteQueue) = {Head(waiteQueue)} \union ToSet(Tail(waiteQueue))
    BY <1>9, TailToSet DEF UnlockHandOver
  <2> QED
    BY <1>9, <2>1 DEF UnlockHandOver
<1>10. ASSUME NEW t \in Task, UnlockWake(t), UNCHANGED cvVars PROVE QInv'
  BY <1>10 DEF UnlockWake, Sched!Wake
<1>11. ASSUME NEW t \in Task, NEW timed \in BOOLEAN, WaitBegin(t, timed)
       PROVE  QInv'
  <2>1. /\ Append(cvQueue, t) \in Seq(Task)
        /\ ToSet(Append(cvQueue, t)) = ToSet(cvQueue) \union {t}
    BY AppendToSet
  <2>2. timer' \in [Task -> Proc \union {NoTask}]
    BY <1>11 DEF WaitBegin
  <2>3. /\ t \in Sched!Executing /\ pc[t] = "cs"
        /\ state' = [state EXCEPT ![t] = "block"]
        /\ cvQueue' = Append(cvQueue, t)
        /\ cvpc' = [cvpc EXCEPT ![t] = "unlock"]
        /\ UNCHANGED <<schedVars, owner, waiteQueue, pc, wakee, isTimeOut, wild>>
    BY <1>11 DEF WaitBegin
  <2> QED
    BY <2>1, <2>2, <2>3
<1>12. ASSUME NEW t \in Task, WaitReturn(t) PROVE QInv'
  BY <1>12 DEF WaitReturn, vars
<1>13. ASSUME NEW t \in Task, TimerFires(t) PROVE QInv'
  BY <1>13 DEF TimerFires
<1>14. ASSUME NEW t \in Task, NotifyOne(t) PROVE QInv'
  <2>1. /\ Head(cvQueue) \in Task /\ Tail(cvQueue) \in Seq(Task)
        /\ ToSet(cvQueue) = {Head(cvQueue)} \union ToSet(Tail(cvQueue))
    BY <1>14, TailToSet DEF NotifyOne
  <2> QED
    BY <1>14, <2>1 DEF NotifyOne
<1>15. ASSUME NEW t \in Task, NotifyAll(t) PROVE QInv'
  <2>1. Range(cvQueue) = ToSet(cvQueue)
    BY DEF Range, ToSet
  <2>2. cvQueue' \in Seq(Task)
    BY <1>15 DEF NotifyAll
  <2> QED
    BY <1>15, <2>1, <2>2 DEF NotifyAll
<1>16. ASSUME NEW p \in Proc, LockYield(p), UNCHANGED cvVars PROVE QInv'
  BY <1>16 DEF LockYield, Sched!Yield, Sched!Leave
<1>17. ASSUME NEW p \in Proc, SwitchOut(p), UNCHANGED cvVars PROVE QInv'
  BY SMTT(30), <1>17 DEF SwitchOut, Sched!Yield, Sched!Park, Sched!Leave
<1>18. ASSUME NEW p \in Proc, UserYield(p), UNCHANGED cvVars PROVE QInv'
  BY <1>18 DEF UserYield, Sched!Yield, Sched!Leave
<1>19. ASSUME NEW p \in Proc, UserFinish(p), UNCHANGED cvVars PROVE QInv'
  BY <1>19 DEF UserFinish, Sched!Finish, Sched!Leave
<1>20. ASSUME NEW p \in Proc, WaitSwitch(p) PROVE QInv'
  <2>1. on[p] \in Task /\ pc[on[p]] = "idle"
    BY <1>20 DEF WaitSwitch
  <2>2. cvpc' = [cvpc EXCEPT ![on[p]] = "relock"]
    BY <1>20 DEF WaitSwitch
  <2>3. PICK t \in Task : /\ on[p] = t /\ pc[t] = "idle"
                         /\ cvpc' = [cvpc EXCEPT ![t] = "relock"]
    BY <2>1, <2>2
  <2>4. /\ on' = [on EXCEPT ![p] = NoTask]
        /\ UNCHANGED <<mutexVars, alive, cvQueue, timer, isTimeOut, wild>>
        /\ \/ state[t] = "block" /\ parked' = parked \union {t}
           \/ state[t] # "block" /\ parked' = parked
    BY <1>20, <2>3 DEF WaitSwitch, Sched!Park, Sched!Yield, Sched!Leave
  <2>5. CvTypeOK' /\ SchedInv'
    BY <2>3, <2>4
  <2>6. Queued'
    BY <2>3, <2>4
  <2> QED
    BY <2>5, <2>6
<1>21. ASSUME NEW p \in Proc, NEW t \in Task, Resume(p, t), UNCHANGED cvVars
       PROVE  QInv'
  BY <1>21 DEF Resume, Sched!Resume, Sched!Ready
<1>22. ASSUME UNCHANGED allVars PROVE QInv'
  BY <1>22 DEF allVars, vars
<1>23. CASE \E t \in Task :
              \/ InMutex(t) /\ UNCHANGED cvVars
              \/ (LockStep(t) \/ UnlockStep(t)) /\ UNCHANGED cvVars
  BY <1>1, <1>2, <1>3, <1>4, <1>5, <1>6, <1>7, <1>8, <1>9, <1>10, <1>23
     DEF InMutex, LockStep, UnlockStep, Unlock
<1>24. CASE \E t \in Task :
              \/ \E timed \in BOOLEAN : WaitBegin(t, timed)
              \/ WaitReturn(t) \/ TimerFires(t) \/ NotifyOne(t) \/ NotifyAll(t)
  BY <1>11, <1>12, <1>13, <1>14, <1>15, <1>24
<1> HIDE DEF cvVars
<1> QED
  BY <1>16, <1>17, <1>18, <1>19, <1>20, <1>21, <1>22, <1>23, <1>24
     DEF AnyStep
-----------------------------------------------------------------------------
(* The mutex and the condition without timeouts.                           *)

LEMMA InitUInv == CvInit => UInv
<1> SUFFICES ASSUME CvInit PROVE UInv
  OBVIOUS
<1> USE DEF CvInit, Init, Sched!Init
<1>1. NoTimers /\ Owner /\ Blocked /\ HandOver
  BY CoMutexAssumption DEF NoTimers, Owner, Blocked, HandOver
<1>2. Waiters
  BY EmptyToSet DEF Waiters
<1> QED
  BY <1>1, <1>2 DEF UInv

LEMMA StepUInv == QInv /\ UInv /\ AnyStep /\ NoTimers' => UInv'
<1> SUFFICES ASSUME QInv, UInv, AnyStep, NoTimers' PROVE  UInv'
  OBVIOUS
<1> USE CoMutexAssumption
    DEF QInv, CvTypeOK, TypeOK, SchedInv, Queued, Sched!Executing, UInv,
        NoTimers, Owner, Blocked, Waiters, HandOver,
        schedVars, mutexVars, cvVars, Step, CvStep, Label, Wakeup
<1>1. ASSUME NEW t \in Task, LockFree(t), cvpc[t] # "unlock", UNCHANGED cvVars
      PROVE  UInv'
  BY <1>1 DEF LockFree, Take
<1>2. ASSUME NEW t \in Task, LockContended(t), cvpc[t] # "unlock", UNCHANGED cvVars
      PROVE  UInv'
  BY <1>2 DEF LockContended
<1>3. ASSUME NEW t \in Task, SpinTake(t), UNCHANGED cvVars PROVE UInv'
  BY <1>3 DEF SpinTake, Take
<1>4. ASSUME NEW t \in Task, SpinFail(t), UNCHANGED cvVars PROVE UInv'
  BY <1>4 DEF SpinFail
<1>5. ASSUME NEW t \in Task, Suspend(t), UNCHANGED cvVars PROVE UInv'
  BY <1>5 DEF Suspend
<1>6. ASSUME NEW t \in Task, RecheckTake(t), UNCHANGED cvVars PROVE UInv'
  BY <1>6 DEF RecheckTake, Take
<1>7. ASSUME NEW t \in Task, RecheckEnqueue(t), UNCHANGED cvVars PROVE UInv'
  <2>1. /\ Append(waiteQueue, t) \in Seq(Task)
        /\ ToSet(Append(waiteQueue, t)) = ToSet(waiteQueue) \union {t}
        /\ IsInjective(waiteQueue) /\ t \notin ToSet(waiteQueue)
           => IsInjective(Append(waiteQueue, t))
    BY AppendToSet
  <2> QED
    BY <1>7, <2>1 DEF RecheckEnqueue
<1>8. ASSUME NEW t \in Task, UnlockFree(t), cvpc[t] # "relock", UNCHANGED cvVars
      PROVE  UInv'
  <2>1. /\ t \in Sched!Executing /\ pc[t] = "cs" /\ pc' = [pc EXCEPT ![t] = "idle"]
        /\ waiteQueue = <<>> /\ owner' = NoTask
        /\ UNCHANGED <<schedVars, state, waiteQueue, wakee, cvVars>>
    BY <1>8 DEF UnlockFree
  <2>2. owner = t /\ t \notin parked /\ cvpc[t] # "relock"
    BY <1>8, <2>1
  <2>3. Owner' /\ Blocked' /\ HandOver'
    BY <2>1, <2>2
  <2>4. Waiters'
    BY <2>1, <2>2, EmptyToSet
  <2> QED
    BY <2>1, <2>3, <2>4
<1>9. ASSUME NEW t \in Task, UnlockHandOver(t), cvpc[t] # "relock", UNCHANGED cvVars
      PROVE  UInv'
  <2>1. /\ Head(waiteQueue) \in Task /\ Tail(waiteQueue) \in Seq(Task)
        /\ ToSet(waiteQueue) = {Head(waiteQueue)} \union ToSet(Tail(waiteQueue))
        /\ IsInjective(Tail(waiteQueue)) /\ Head(waiteQueue) \notin ToSet(Tail(waiteQueue))
    BY <1>9, TailToSet DEF UnlockHandOver
  <2> QED
    BY <1>9, <2>1 DEF UnlockHandOver
<1>10. ASSUME NEW t \in Task, UnlockWake(t), UNCHANGED cvVars PROVE UInv'
  BY <1>10 DEF UnlockWake, Sched!Wake
<1>11. ASSUME NEW t \in Task, NEW timed \in BOOLEAN, WaitBegin(t, timed)
       PROVE  UInv'
  <2>1. /\ Append(cvQueue, t) \in Seq(Task)
        /\ ToSet(Append(cvQueue, t)) = ToSet(cvQueue) \union {t}
        /\ IsInjective(cvQueue) /\ t \notin ToSet(cvQueue)
           => IsInjective(Append(cvQueue, t))
    BY AppendToSet
  <2>2. timer' \in [Task -> Proc \union {NoTask}]
    BY <1>11 DEF WaitBegin
  <2>3. /\ t \in Sched!Executing /\ pc[t] = "cs" /\ cvpc[t] = "none"
        /\ state' = [state EXCEPT ![t] = "block"]
        /\ cvQueue' = Append(cvQueue, t)
        /\ cvpc' = [cvpc EXCEPT ![t] = "unlock"]
        /\ UNCHANGED <<schedVars, owner, waiteQueue, pc, wakee, isTimeOut, wild>>
    BY <1>11 DEF WaitBegin
  <2>4. owner = t /\ t \notin parked /\ t \notin ToSet(cvQueue)
    BY <2>3
  <2>5. Owner' /\ Blocked' /\ HandOver'
    BY <2>3
  <2>6. Waiters'
    BY <2>1, <2>3, <2>4
  <2> QED
    BY <2>5, <2>6
<1>12. ASSUME NEW t \in Task, WaitReturn(t) PROVE UInv'
  BY <1>12 DEF WaitReturn, vars
<1>13. ASSUME NEW t \in Task, TimerFires(t) PROVE UInv'
  BY <1>13 DEF TimerFires
<1>14. ASSUME NEW t \in Task, NotifyOne(t) PROVE UInv'
  <2>1. /\ Head(cvQueue) \in Task /\ Tail(cvQueue) \in Seq(Task)
        /\ ToSet(cvQueue) = {Head(cvQueue)} \union ToSet(Tail(cvQueue))
        /\ IsInjective(Tail(cvQueue)) /\ Head(cvQueue) \notin ToSet(Tail(cvQueue))
    BY <1>14, TailToSet DEF NotifyOne
  <2>2. /\ Notifies(t)
        /\ cvQueue' = Tail(cvQueue)
        /\ state' = [state EXCEPT ![Head(cvQueue)] = "runnable"]
        /\ parked' = parked \ {Head(cvQueue)}
        /\ UNCHANGED <<alive, on, owner, waiteQueue, pc, wakee, cvpc>>
    BY <1>14, <2>1 DEF NotifyOne
  <2>3. t \in Sched!Executing /\ owner = t /\ \A u \in Task : pc[u] # "wake"
    BY <2>2 DEF Notifies
  <2>4. Owner' /\ Blocked' /\ HandOver'
    BY <2>1, <2>2, <2>3
  <2>5. Waiters'
    BY <2>1, <2>2, <2>3
  <2> QED
    BY <2>4, <2>5
<1>15. ASSUME NEW t \in Task, NotifyAll(t) PROVE UInv'
  <2>1. Range(cvQueue) = ToSet(cvQueue)
    BY DEF Range, ToSet
  <2>2. cvQueue' \in Seq(Task)
    BY <1>15 DEF NotifyAll
  <2>3. /\ Notifies(t) /\ cvQueue' = <<>>
        /\ state' = [u \in Task |-> IF u \in ToSet(cvQueue) THEN "runnable"
                                                          ELSE state[u]]
        /\ parked' = parked \ ToSet(cvQueue)
        /\ UNCHANGED <<alive, on, owner, waiteQueue, pc, wakee, cvpc>>
    BY <1>15, <2>1 DEF NotifyAll
  <2>4. t \in Sched!Executing /\ owner = t /\ \A u \in Task : pc[u] # "wake"
    BY <2>3 DEF Notifies
  <2>5. Owner' /\ Blocked' /\ HandOver'
    BY <2>3, <2>4
  <2>6. ToSet(waiteQueue) \intersect ToSet(cvQueue) = {}
    OBVIOUS
  <2>7. \A w \in ToSet(waiteQueue) : w \in Task /\ state'[w] = state[w]
    BY <2>3, <2>6, InToSet
  <2>8. Waiters'
    BY <2>3, <2>7, EmptyToSet
  <2> QED
    BY <2>5, <2>8
<1>16. ASSUME NEW p \in Proc, LockYield(p), UNCHANGED cvVars PROVE UInv'
  BY <1>16 DEF LockYield, Sched!Yield, Sched!Leave
<1>17. ASSUME NEW p \in Proc, SwitchOut(p), UNCHANGED cvVars PROVE UInv'
  BY <1>17 DEF SwitchOut, Sched!Yield, Sched!Park, Sched!Leave
<1>18. ASSUME NEW p \in Proc, UserYield(p), UNCHANGED cvVars PROVE UInv'
  BY <1>18 DEF UserYield, Sched!Yield, Sched!Leave
<1>19. ASSUME NEW p \in Proc, UserFinish(p), UNCHANGED cvVars PROVE UInv'
  BY <1>19 DEF UserFinish, Sched!Finish, Sched!Leave
<1>20. ASSUME NEW p \in Proc, WaitSwitch(p) PROVE UInv'
  <2>1. on[p] \in Task /\ pc[on[p]] = "idle"
    BY <1>20 DEF WaitSwitch
  <2>2. cvpc' = [cvpc EXCEPT ![on[p]] = "relock"]
    BY <1>20 DEF WaitSwitch
  <2>3. PICK t \in Task : /\ on[p] = t /\ pc[t] = "idle"
                         /\ cvpc' = [cvpc EXCEPT ![t] = "relock"]
    BY <2>1, <2>2
  <2>4. /\ on' = [on EXCEPT ![p] = NoTask]
        /\ UNCHANGED <<mutexVars, alive, cvQueue, timer, isTimeOut, wild>>
        /\ \/ state[t] = "block" /\ parked' = parked \union {t}
           \/ state[t] # "block" /\ parked' = parked
    BY <1>20, <2>3 DEF WaitSwitch, Sched!Park, Sched!Yield, Sched!Leave
  <2>5. Owner' /\ Blocked'
    BY <2>3, <2>4
  <2>6. Waiters' /\ HandOver'
    BY <2>3, <2>4
  <2> QED
    BY <2>5, <2>6
<1>21. ASSUME NEW p \in Proc, NEW t \in Task, Resume(p, t), UNCHANGED cvVars
       PROVE  UInv'
  BY <1>21 DEF Resume, Sched!Resume, Sched!Ready
<1>22. ASSUME UNCHANGED allVars PROVE UInv'
  BY <1>22 DEF allVars, vars
<1>23. CASE \E t \in Task :
              \/ InMutex(t) /\ UNCHANGED cvVars
              \/ (LockStep(t) \/ UnlockStep(t)) /\ UNCHANGED cvVars
  BY <1>1, <1>2, <1>3, <1>4, <1>5, <1>6, <1>7, <1>8, <1>9, <1>10, <1>23
     DEF InMutex, LockStep, UnlockStep, Unlock
<1>24. CASE \E t \in Task :
              \/ \E timed \in BOOLEAN : WaitBegin(t, timed)
              \/ WaitReturn(t) \/ TimerFires(t) \/ NotifyOne(t) \/ NotifyAll(t)
  BY <1>11, <1>12, <1>13, <1>14, <1>15, <1>24
<1> HIDE DEF cvVars
<1> QED
  BY <1>16, <1>17, <1>18, <1>19, <1>20, <1>21, <1>22, <1>23, <1>24
     DEF AnyStep
-----------------------------------------------------------------------------
(* The theorems.                                                           *)

LEMMA QInvParkedIsQueued == QInv => ParkedIsQueued
  BY DEF QInv, Queued, CvTypeOK, TypeOK, WakerOf, ParkedIsQueued, Range, ToSet

LEMMA UInvHoldsMutex == QInv /\ UInv => HoldsMutex
  BY DEF QInv, SchedInv, CvTypeOK, TypeOK, Sched!Executing, UInv, Owner,
     HoldsMutex

LEMMA UInvWaiters == UInv => ConditionWaitersSuspended
<1> SUFFICES ASSUME UInv PROVE ConditionWaitersSuspended
  OBVIOUS
<1>1. Range(cvQueue) = ToSet(cvQueue) /\ Range(waiteQueue) = ToSet(waiteQueue)
  BY DEF Range, ToSet
<1> QED
  BY <1>1 DEF UInv, Waiters, ConditionWaitersSuspended

\* What holds where no Wait has a timeout, in the three uses.
Untimed == use # "timed" => UInv

LEMMA MCInvariance == MCSpec => [](QInv /\ Untimed)
<1>1. MCInit => QInv /\ Untimed
  BY InitQInv, InitUInv DEF MCInit, PcInit, Untimed
<1>2. QInv /\ Untimed /\ [MCNext]_mcVars => (QInv /\ Untimed)'
  <2> SUFFICES ASSUME QInv, Untimed, [MCNext]_mcVars
               PROVE  QInv' /\ Untimed'
    OBVIOUS
  <2>1. AnyStep /\ use' = use
    BY EveryStep
  <2>2. QInv'
    BY <2>1, StepQInv
  <2>3. ASSUME use # "timed" PROVE UInv'
    <3>1. UInv /\ NoTimers /\ CvTypeOK
      BY <2>3 DEF Untimed, UInv, QInv
    <3>2. NoTimers'
      BY <2>3, <3>1, StaysUntimed
    <3> QED
      BY <2>1, <3>1, <3>2, StepUInv
  <2> QED
    BY <2>1, <2>2, <2>3 DEF Untimed
<1> QED
  BY <1>1, <1>2, PTL DEF MCSpec

\* No notification is lost between emplace and StaticCoYield: who is suspended
\* is queued or about to be woken, with and without timeouts; without, the
\* waiters of the condition are suspended, each queued once.
THEOREM NoneUnqueued == MCSpec => []WaitersQueued
<1>1. QInv /\ Untimed => WaitersQueued
  BY QInvParkedIsQueued, UInvWaiters DEF Untimed, WaitersQueued, QInv
<1> QED
  BY <1>1, MCInvariance, PTL

\* Whoever returns from Wait or lock() holds the mutex, whatever the others do,
\* if no Wait has a timeout.
THEOREM MutexHeld == MCSpec => []HoldsMutexUntimed
<1>1. QInv /\ Untimed => HoldsMutexUntimed
  BY UInvHoldsMutex DEF Untimed, HoldsMutexUntimed
<1> QED
  BY <1>1, MCInvariance, PTL

\* The same of the condition variable and the mutex on their own, used in any
\* way.
THEOREM WaitHoldsMutex ==
  ASSUME Timed = {FALSE}
  PROVE  CvSpec => [](HoldsMutex /\ ConditionWaitersSuspended)
<1>1. CvInit => QInv /\ UInv
  BY InitQInv, InitUInv
<1>2. QInv /\ UInv /\ [CvNext]_allVars => (QInv /\ UInv)'
  <2> SUFFICES ASSUME QInv, UInv, [CvNext]_allVars
               PROVE  QInv' /\ UInv'
    OBVIOUS
  <2>1. AnyStep
    BY CoConditionVariableAssumption
       DEF CvNext, MutexStep, WaitStep, Dispatch, UserStep, AnyStep
  <2>2. NoTimers'
    BY DEF CvNext, MutexStep, WaitStep, Dispatch, UserStep, WaitBegin,
       WaitReturn, TimerFires, WaitSwitch, NotifyOne, NotifyAll, allVars,
       cvVars, UInv, QInv, CvTypeOK, NoTimers
  <2> QED
    BY <2>1, <2>2, StepQInv, StepUInv
<1>3. QInv /\ UInv => HoldsMutex /\ ConditionWaitersSuspended
  BY UInvHoldsMutex, UInvWaiters
<1> QED
  BY <1>1, <1>2, <1>3, PTL DEF CvSpec

\* The producers and consumers of the test keep their deque in its bounds.
THEOREM DequeBounded == MCSpec => []DequeInBounds
<1>1. MCInit => DequeInBounds
  BY ProducerConsumerAssumption DEF MCInit, PcInit, DequeInBounds
<1>2. DequeInBounds /\ [MCNext]_mcVars => DequeInBounds'
  <2> SUFFICES ASSUME DequeInBounds, [MCNext]_mcVars PROVE DequeInBounds'
    OBVIOUS
  <2>1. ASSUME NEW t \in Task, Changed(t) PROVE DequeInBounds'
    BY <2>1, ProducerConsumerAssumption DEF Changed, MustWait, DequeInBounds
  <2>2. items' = items \/ \E t \in Task : Changed(t)
    BY DEF MCNext, AnyUse, PcNext, TaskStep, RoundBegin, RoundRelock,
       WaitForChange, Change, RoundEnd, WaitUnlocks, MutexProgress,
       WaitProgress, Dispatched, SetExitFlag, Ended, Leave, pcVars,
       allPcVars, mcVars
  <2> QED
    BY <2>1, <2>2 DEF DequeInBounds
<1> QED
  BY <1>1, <1>2, PTL DEF MCSpec
=============================================================================
