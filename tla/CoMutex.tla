------------------------------ MODULE CoMutex ------------------------------
(***************************************************************************)
(* The coroutine mutex, sync/co_mutex.cpp: a lock whose waiters are        *)
(* suspended coroutines and whose ownership is handed by unlock() to the   *)
(* longest waiting one.  The coroutines run on the scheduler TaskSched     *)
(* promises; each takes the mutex, by lock() or try_lock(), and releases   *)
(* it any number of times, and may be switched out at any yield in         *)
(* between.  A section under the spin lock lock_ is one step.              *)
(***************************************************************************)
EXTENDS Integers, SequencesExt

CONSTANTS
    Task,   \* the coroutines that use the mutex
    Proc,   \* the threads of the scheduler
    NoTask  \* nullptr

ASSUME CoMutexAssumption == NoTask \notin Task

VARIABLES
    alive, parked, on,  \* the scheduler's, see TaskSched
    state,              \* Task::state_
    owner,              \* CoMutex::owner_task_
    waiteQueue,         \* CoMutex::waite_queue_
    pc,                 \* where each coroutine is in lock() or unlock()
    wakee               \* unlock()'s local "wakeup"

Sched == INSTANCE TaskSched

schedVars == <<alive, parked, on>>
mutexVars == <<state, owner, waiteQueue, pc, wakee>>
vars == <<schedVars, mutexVars>>

\* "idle": outside; "contended", "spin", "suspend", "recheck", "switch": the
\* points of lock() between two sections; "cs": holds the mutex; "wake": in
\* unlock() after it handed the mutex over.
Label == {"idle", "contended", "spin", "suspend", "recheck", "switch", "cs",
          "wake"}

Init ==
    /\ Sched!Init
    /\ alive = Task
    /\ state = [t \in Task |-> "runnable"]
    /\ owner = NoTask
    /\ waiteQueue = <<>>
    /\ pc = [t \in Task |-> "idle"]
    /\ wakee = [t \in Task |-> NoTask]

\* Coroutine t executes the step from one label to another.
Step(t, from, to) ==
    /\ t \in Sched!Executing
    /\ pc[t] = from
    /\ pc' = [pc EXCEPT ![t] = to]

\* It takes the mutex if it is free.
TakeAnyway(t) == owner' = t  \* fault: without looking at owner_task_

Take(t) == owner = NoTask /\ owner' = t

-----------------------------------------------------------------------------
\* lock() or try_lock() finds the mutex free at once.
LockFree(t) ==
    /\ Step(t, "idle", "cs")
    /\ Take(t)
    /\ UNCHANGED <<schedVars, state, waiteQueue, wakee>>

LockContended(t) ==
    /\ Step(t, "idle", "contended")
    /\ owner # NoTask
    /\ UNCHANGED <<schedVars, state, owner, waiteQueue, wakee>>

\* StaticCoYield() before the second attempt.
LockYield(p) ==
    /\ on[p] # NoTask
    /\ Step(on[p], "contended", "spin")
    /\ Sched!Yield(p)
    /\ UNCHANGED <<state, owner, waiteQueue, wakee>>

SpinTake(t) ==
    /\ Step(t, "spin", "cs")
    /\ Take(t)
    /\ UNCHANGED <<schedVars, state, waiteQueue, wakee>>

\* Also when lk.try_lock() fails because another thread is inside a section
\* of this mutex, whoever owns the mutex.
SpinFail(t) ==
    /\ Step(t, "spin", "suspend")
    /\ UNCHANGED <<schedVars, state, owner, waiteQueue, wakee>>

\* SuspendBySelfIO: t is in no run queue from here on, but still executes.
Suspend(t) ==
    /\ Step(t, "suspend", "recheck")
    /\ state' = [state EXCEPT ![t] = "block"]
    /\ UNCHANGED <<schedVars, owner, waiteQueue, wakee>>

\* The mutex has been released meanwhile: WakeupBySelfIO on itself.
RecheckTake(t) ==
    /\ Step(t, "recheck", "cs")
    /\ Take(t)
    /\ state' = [state EXCEPT ![t] = "runnable"]
    /\ UNCHANGED <<schedVars, waiteQueue, wakee>>

EnqueueUnchecked(t) ==  \* fault: no second look at owner_task_
    /\ Step(t, "recheck", "switch")
    /\ waiteQueue' = Append(waiteQueue, t)
    /\ UNCHANGED <<schedVars, state, owner, wakee>>

RecheckEnqueue(t) ==
    /\ Step(t, "recheck", "switch")
    /\ owner # NoTask
    /\ waiteQueue' = Append(waiteQueue, t)
    /\ UNCHANGED <<schedVars, state, owner, wakee>>

\* StaticCoYield(): the Processer parks the task if state_ is still block and
\* keeps it ready if unlock() has woken it meanwhile.  It will return from
\* lock() when it is resumed.
SwitchOut(p) ==
    /\ on[p] # NoTask
    /\ Step(on[p], "switch", "cs")
    /\ IF state[on[p]] = "block" THEN Sched!Park(p) ELSE Sched!Yield(p)
    /\ UNCHANGED <<state, owner, waiteQueue, wakee>>

TryLockFail(t) ==
    /\ Step(t, "idle", "idle")
    /\ owner # NoTask
    /\ UNCHANGED <<schedVars, state, owner, waiteQueue, wakee>>

UnlockFree(t) ==
    /\ Step(t, "cs", "idle")
    /\ waiteQueue = <<>>
    /\ owner' = NoTask
    /\ UNCHANGED <<schedVars, state, waiteQueue, wakee>>

UnlockNoPop(t) ==  \* fault: the new owner stays in waite_queue_
    /\ Step(t, "cs", "wake")
    /\ waiteQueue # <<>>
    /\ owner' = Head(waiteQueue)
    /\ wakee' = [wakee EXCEPT ![t] = Head(waiteQueue)]
    /\ UNCHANGED <<schedVars, state, waiteQueue>>

UnlockReleases(t) ==  \* fault: the woken task would have to compete
    /\ Step(t, "cs", "wake")
    /\ waiteQueue # <<>>
    /\ owner' = NoTask
    /\ wakee' = [wakee EXCEPT ![t] = Head(waiteQueue)]
    /\ waiteQueue' = Tail(waiteQueue)
    /\ UNCHANGED <<schedVars, state>>

UnlockHandOver(t) ==
    /\ Step(t, "cs", "wake")
    /\ waiteQueue # <<>>
    /\ owner' = Head(waiteQueue)
    /\ wakee' = [wakee EXCEPT ![t] = Head(waiteQueue)]
    /\ waiteQueue' = Tail(waiteQueue)
    /\ UNCHANGED <<schedVars, state>>

UnlockForgets(t) ==  \* fault: the parked owner is not pushed
    /\ Step(t, "wake", "idle")
    /\ state' = [state EXCEPT ![wakee[t]] = "runnable"]
    /\ wakee' = [wakee EXCEPT ![t] = NoTask]
    /\ UNCHANGED <<schedVars, owner, waiteQueue>>

\* WakeupBySelfIO(wakeup): if wakeup has not swapped out yet it will find
\* itself runnable when it does.
UnlockWake(t) ==
    /\ Step(t, "wake", "idle")
    /\ state' = [state EXCEPT ![wakee[t]] = "runnable"]
    /\ IF wakee[t] \in parked THEN Sched!Wake(wakee[t])
                              ELSE UNCHANGED schedVars
    /\ wakee' = [wakee EXCEPT ![t] = NoTask]
    /\ UNCHANGED <<owner, waiteQueue>>

-----------------------------------------------------------------------------
\* The coroutine's own code, inside or outside its critical section.
UserYield(p) ==
    /\ on[p] # NoTask
    /\ pc[on[p]] \in {"idle", "cs"}
    /\ Sched!Yield(p)
    /\ UNCHANGED mutexVars

UserFinish(p) ==
    /\ on[p] # NoTask
    /\ pc[on[p]] = "idle"
    /\ Sched!Finish(p)
    /\ UNCHANGED mutexVars

\* CreateTask, which may reuse the Task of a coroutine that has finished.
UserCreate(t) == Sched!Create(t) /\ UNCHANGED mutexVars

Resume(p, t) == Sched!Resume(p, t) /\ UNCHANGED mutexVars

\* The steps inside the mutex' functions, which always go on.
InMutex(t) ==
    \/ SpinTake(t) \/ SpinFail(t) \/ Suspend(t)
    \/ RecheckTake(t) \/ RecheckEnqueue(t)
    \/ UnlockWake(t)

Unlock(t) == UnlockFree(t) \/ UnlockHandOver(t)

Next ==
    \/ \E t \in Task :
         \/ LockFree(t) \/ LockContended(t) \/ TryLockFail(t)
         \/ InMutex(t) \/ Unlock(t) \/ UserCreate(t)
    \/ \E p \in Proc :
         \/ LockYield(p) \/ SwitchOut(p) \/ UserYield(p) \/ UserFinish(p)
         \/ \E t \in Task : Resume(p, t)

Spec == Init /\ [][Next]_vars

-----------------------------------------------------------------------------
\* Every variable of the mutex has its type; waite_queue_ holds tasks only.
TypeOK ==
    /\ alive \in SUBSET Task
    /\ parked \in SUBSET Task
    /\ on \in [Proc -> Task \union {NoTask}]
    /\ state \in [Task -> {"runnable", "block"}]
    /\ owner \in Task \union {NoTask}
    /\ waiteQueue \in Seq(Task)
    /\ pc \in [Task -> Label]
    /\ wakee \in [Task -> Task \union {NoTask}]

\* Two coroutines never hold the mutex: whoever has returned from lock() and
\* executes its critical section is owner_task_ (the assert of unlock(),
\* co_mutex.cpp:125).
MutualExclusion ==
    \A t \in Sched!Executing : pc[t] = "cs" => owner = t

\* The comment at co_mutex.cpp:64-67: no task stays in waite_queue_ with
\* nobody left to wake it: a queue with waiters has an owner, and an owner that
\* was suspended in lock() has its waker on the way or is woken already.
NoStrandedWaiter ==
    /\ waiteQueue # <<>> => owner # NoTask
    /\ \A t \in Task : owner = t /\ state[t] = "block" =>
         \E u \in Task : pc[u] = "wake" /\ wakee[u] = t

\* waite_queue_ holds each waiter once, and only tasks that are suspended in
\* lock(), so that a wakeup never pushes a task that is already in a run
\* queue.
WaitersSuspended ==
    /\ IsInjective(waiteQueue)
    /\ \A i \in 1 .. Len(waiteQueue) :
         /\ state[waiteQueue[i]] = "block"
         /\ waiteQueue[i] # owner

\* No barging: while tasks wait, the mutex passes to the one that has waited
\* longest, although newcomers try to take it in lock(), its spin and its
\* recheck.
NoBarging ==
    [][waiteQueue # <<>> /\ owner' # owner => owner' = Head(waiteQueue)]_vars

\* A coroutine that finds the mutex taken in lock() eventually holds it.
LockReturns ==
    \A t \in Task : pc[t] = "contended" ~> pc[t] = "cs" /\ t \in Sched!Executing
=============================================================================
