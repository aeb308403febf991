----------------------------- MODULE Processer -----------------------------
(***************************************************************************)
(* The M:N scheduler of cpp_go: every Processer is a thread that executes  *)
(* the coroutines of its runnableQueue_ in turn (scheduler/processer.cpp), *)
(* the Scheduler hands new coroutines to the Processers and a dispatcher   *)
(* thread moves coroutines between them (scheduler/scheduler.cpp).         *)
(*                                                                         *)
(* Every section the code runs under one queue lock (ts_queue.h) is one    *)
(* action, so the actions of different threads interleave exactly at the   *)
(* points where the locks are free.  The code a coroutine executes is      *)
(* arbitrary: between two switches it may create coroutines, wake waiting  *)
(* ones, suspend itself, yield or return (UserOps selects which).          *)
(***************************************************************************)
EXTENDS Integers, FiniteSets, SequencesExt

CONSTANTS
    Task,         \* the Task objects a run can use (cached and new ones)
    NProc,        \* the number of Processers started by Scheduler::Start
    NoTask,       \* nullptr, for a Task*
    NoProc,       \* nullptr, for a Processer*
    InitialTasks, \* the coroutines created before Scheduler::Start, in order
    MaxBalance,   \* bound: how many times AvgTotalTasks runs
    UserOps       \* which operations the coroutines use

Proc == 0 .. NProc - 1

AllUserOps == {"go", "yield", "finish", "sync", "self", "own"}

ASSUME ProcesserAssumption ==
    /\ NProc \in Nat \ {0}
    /\ MaxBalance \in Nat \ {0}
    /\ NoTask \notin Task
    /\ NoProc \notin Proc
    /\ InitialTasks \in Seq(Task)
    /\ IsInjective(InitialTasks)
    /\ UserOps \subseteq AllUserOps
    /\ IsFiniteSet(Task)

VARIABLES
    runnableQueue, \* Processer::runnableQueue_
    newQueue,      \* Processer::newQueue_
    runningTask,   \* Processer::runningTask_
    nextTask,      \* Processer::nextTask_
    pc,            \* where the thread of a Processer is
    moved,         \* the SList AddNewTasks carries from newQueue_ to runnableQueue_
    wakee,         \* the task a wakeup in progress on this thread is about
    caller,        \* where the thread continues after that wakeup
    state,         \* Task::state_
    proc,          \* Task::proc_
    live,          \* created tasks that are not in free_task_map_
    taskCount,     \* Scheduler::taskCount_
    syncWait,      \* suspended tasks some mutex, condition or channel can wake
    ownWait,       \* suspended tasks the timers or fds of their Processer wake
    signal,        \* a byte is in the socket of Processer p's Interrupter
    dpc,           \* where AvgTotalTasks is
    di,            \* its loop index i
    cnt,           \* its cacheTaskCounts
    total,         \* its total
    part,          \* slist in Processer::Steal
    stolen,        \* its tasks
    balances       \* how many times it has been called

procVars  == <<runnableQueue, newQueue, runningTask, nextTask, pc, moved>>
wakeVars  == <<wakee, caller, syncWait, ownWait, signal>>
taskVars  == <<state, proc, live, taskCount>>
avgVars   == <<dpc, di, cnt, total, part, stolen, balances>>
vars      == <<procVars, wakeVars, taskVars, avgVars>>

-----------------------------------------------------------------------------
(* The operations of TSQueue on the sequence of linked tasks.              *)

\* The element after t, nullptr at the end or when t is not linked.
Succ(q, t) ==
    IF \E i \in 1 .. Len(q) - 1 : q[i] = t
    THEN q[1 + CHOOSE i \in 1 .. Len(q) - 1 : q[i] = t]
    ELSE NoTask

\* eraseWithoutLock: an unlinked element is left alone.
Erase(q, t) ==
    IF Contains(q, t)
    THEN RemoveAt(q, CHOOSE i \in 1 .. Len(q) : q[i] = t)
    ELSE q

First(q) == IF q = <<>> THEN NoTask ELSE Head(q)

\* pop_back(n) returns the last n elements, in order; the rest stays.
BackSize(q, n) == IF n < Len(q) THEN n ELSE Len(q)
PopBack(q, n)  == SubSeq(q, Len(q) - BackSize(q, n) + 1, Len(q))
DropBack(q, n) == SubSeq(q, 1, Len(q) - BackSize(q, n))

\* The locked part of Steal: n tasks from the tail of q, which holds neither
\* runningTask_ (r) nor nextTask_ (x) meanwhile; what was erased of them goes
\* back to the tail.
IfIn(q, t) == IF Contains(q, t) THEN <<t>> ELSE <<>>

\* Faults of Steal: the running task, or the next one, is not protected; a
\* suspended running task is linked again.
StealFromRunning(q, r, x, n) ==
    LET q1 == Erase(q, x)
    IN  [taken |-> PopBack(q1, n), left |-> DropBack(q1, n) \o IfIn(q, x)]

StealFromNext(q, r, x, n) ==
    LET q1 == Erase(q, r)
    IN  [taken |-> PopBack(q1, n), left |-> DropBack(q1, n) \o IfIn(q, r)]

StealFromRelinks(q, r, x, n) ==
    LET q1 == Erase(q, r)
        q2 == Erase(q1, x)
    IN  [taken |-> PopBack(q2, n),
         left  |-> DropBack(q2, n) \o (IF r = NoTask THEN <<>> ELSE <<r>>)
                     \o IfIn(q1, x)]

StealFrom(q, r, x, n) ==
    LET q1 == Erase(q, r)
        q2 == Erase(q1, x)
    IN  [taken |-> PopBack(q2, n),
         left  |-> DropBack(q2, n) \o IfIn(q, r) \o IfIn(q1, x)]

-----------------------------------------------------------------------------
(* Scheduler::Start has created the threads, the tasks created before it   *)
(* are all in Processer 0, and the main thread is in its AvgTotalTasks     *)
(* before it becomes Processer 0; the other threads already run.  With one *)
(* Processer AvgTotalTasks returns at once and there is no dispatcher.     *)
Init ==
    /\ runnableQueue = [p \in Proc |-> <<>>]
    /\ newQueue = [p \in Proc |-> IF p = 0 THEN InitialTasks ELSE <<>>]
    /\ runningTask = [p \in Proc |-> NoTask]
    /\ nextTask = [p \in Proc |-> NoTask]
    /\ pc = [p \in Proc |-> IF p = 0 /\ NProc > 1 THEN "start" ELSE "front"]
    /\ moved = [p \in Proc |-> <<>>]
    /\ wakee = [p \in Proc |-> NoTask]
    /\ caller = [p \in Proc |-> "run"]
    /\ state = [t \in Task |-> "runnable"]
    /\ proc = [t \in Task |-> NoProc]
    /\ live = ToSet(InitialTasks)
    /\ taskCount = Len(InitialTasks)
    /\ syncWait = {}
    /\ ownWait = {}
    /\ signal = [p \in Proc |-> FALSE]
    /\ dpc = IF NProc > 1 THEN "count" ELSE "sleep"
    /\ di = 0
    /\ cnt = [p \in Proc |-> 0]
    /\ total = 0
    /\ part = <<>>
    /\ stolen = <<>>
    /\ balances = 1

Goto(p, l) == pc' = [pc EXCEPT ![p] = l]

-----------------------------------------------------------------------------
(* Processer::Process                                                      *)

\* SwapIn of t, after state_ and proc_ are set.  The waker of t may read
\* proc_ without a lock; these writes touch nothing else anyone can see, so
\* they are one step with the locked section that selected t.
SwapIn(p, t) ==
    /\ runningTask' = [runningTask EXCEPT ![p] = t]
    /\ state' = [state EXCEPT ![t] = "runnable"]
    /\ proc' = [proc EXCEPT ![t] = p]
    /\ Goto(p, "run")

\* runnableQueue_.front(runningTask_) at the top of the loop, and again
\* after AddNewTasks moved something: nothing to run leads to AddNewTasks
\* the first time, to WaitLoop the second.
PickFront(p) ==
    /\ pc[p] \in {"front", "again"}
    /\ LET t == First(runnableQueue[p]) IN
       IF t # NoTask
       THEN SwapIn(p, t)
       ELSE /\ Goto(p, IF pc[p] = "front" THEN "idle" ELSE "wait")
            /\ UNCHANGED <<runningTask, state, proc>>
    /\ UNCHANGED <<runnableQueue, newQueue, nextTask, moved, wakeVars,
                   live, taskCount, avgVars>>

\* AddNewTasks, called with an idle Processer ("idle") and after each pass
\* over runnableQueue_ ("endpass"): newQueue_.empty(), newQueue_.pop_all()
\* and runnableQueue_.push() take a lock each.
AddNewTasksEmptyIdle(p) ==  \* fault: only an idle Processer takes new tasks
    /\ pc[p] \in {"idle", "endpass"}
    /\ Goto(p, CASE pc[p] = "endpass" -> "front"
                 [] newQueue[p] # <<>> -> "idleTake"
                 [] OTHER -> "wait")
    /\ UNCHANGED <<runnableQueue, newQueue, runningTask, nextTask, moved,
                   wakeVars, taskVars, avgVars>>

AddNewTasksEmpty(p) ==
    /\ pc[p] \in {"idle", "endpass"}
    /\ Goto(p, CASE newQueue[p] # <<>> -> IF pc[p] = "idle" THEN "idleTake"
                                                           ELSE "passTake"
                 [] OTHER -> IF pc[p] = "idle" THEN "wait" ELSE "front")
    /\ UNCHANGED <<runnableQueue, newQueue, runningTask, nextTask, moved,
                   wakeVars, taskVars, avgVars>>

AddNewTasksTake(p) ==
    /\ pc[p] \in {"idleTake", "passTake"}
    /\ moved' = [moved EXCEPT ![p] = newQueue[p]]
    /\ newQueue' = [newQueue EXCEPT ![p] = <<>>]
    /\ Goto(p, IF pc[p] = "idleTake" THEN "idlePush" ELSE "passPush")
    /\ UNCHANGED <<runnableQueue, runningTask, nextTask, wakeVars, taskVars,
                   avgVars>>

AddNewTasksPush(p) ==
    /\ pc[p] \in {"idlePush", "passPush"}
    /\ runnableQueue' = [runnableQueue EXCEPT ![p] = @ \o moved[p]]
    /\ moved' = [moved EXCEPT ![p] = <<>>]
    /\ Goto(p, IF pc[p] = "idlePush" THEN "again" ELSE "front")
    /\ UNCHANGED <<newQueue, runningTask, nextTask, wakeVars, taskVars,
                   avgVars>>

\* epoll_wait returns for the interrupter's byte, for an fd, or at its
\* timeout, which is never infinite.  The byte is read afterwards.
WaitLoopReturn(p) ==
    /\ pc[p] = "wait"
    /\ Goto(p, IF signal[p] THEN "drain" ELSE "serve")
    /\ UNCHANGED <<runnableQueue, newQueue, runningTask, nextTask, moved,
                   wakeVars, taskVars, avgVars>>

InterrupterReset(p) ==
    /\ pc[p] = "drain"
    /\ signal' = [signal EXCEPT ![p] = FALSE]
    /\ Goto(p, "serve")
    /\ UNCHANGED <<runnableQueue, newQueue, runningTask, nextTask, moved,
                   wakee, caller, syncWait, ownWait, taskVars, avgVars>>

\* WaitLoop or WakeupTimers wakes a task whose fd is ready or whose sleep is
\* over: always the Processer the task suspended on.
WakeupOwn(p, t) ==
    /\ pc[p] = "serve"
    /\ t \in ownWait
    /\ proc[t] = p
    /\ ownWait' = ownWait \ {t}
    /\ state' = [state EXCEPT ![t] = "runnable"]
    /\ runnableQueue' = [runnableQueue EXCEPT ![p] = Append(@, t)]
    /\ UNCHANGED <<newQueue, runningTask, nextTask, pc, moved, wakee, caller,
                   syncWait, signal, proc, live, taskCount, avgVars>>

WakeupTimersReturn(p) ==
    /\ pc[p] = "serve"
    /\ Goto(p, "front")
    /\ UNCHANGED <<runnableQueue, newQueue, runningTask, nextTask, moved,
                   wakeVars, taskVars, avgVars>>

\* runningTask_ = t: the inner loop goes on with t or the pass is over.
RunNext(p, t) ==
    IF t # NoTask
    THEN SwapIn(p, t)
    ELSE /\ runningTask' = [runningTask EXCEPT ![p] = NoTask]
         /\ Goto(p, "endpass")
         /\ UNCHANGED <<state, proc>>

\* The task that swapped out is suspended: SuspendBySelfIO saved its
\* successor.
AfterBlock(p) ==
    /\ pc[p] = "out"
    /\ state[runningTask[p]] = "block"
    /\ RunNext(p, nextTask[p])
    /\ nextTask' = [nextTask EXCEPT ![p] = NoTask]
    /\ UNCHANGED <<runnableQueue, newQueue, moved, wakeVars, live, taskCount,
                   avgVars>>

\* It is runnable: it yielded, or it suspended and was woken before it
\* swapped out.  nextTask_ is not touched on this path.
AfterYield(p) ==
    /\ pc[p] = "out"
    /\ state[runningTask[p]] = "runnable"
    /\ RunNext(p, Succ(runnableQueue[p], runningTask[p]))
    /\ UNCHANGED <<runnableQueue, newQueue, nextTask, moved, wakeVars, live,
                   taskCount, avgVars>>

\* It has returned: next(), erase() and the final section take the lock
\* three times.
AfterDone(p) ==
    /\ pc[p] = "out"
    /\ state[runningTask[p]] = "done"
    /\ nextTask' = [nextTask EXCEPT
                      ![p] = Succ(runnableQueue[p], runningTask[p])]
    /\ Goto(p, "unlink")
    /\ UNCHANGED <<runnableQueue, newQueue, runningTask, moved, wakeVars,
                   taskVars, avgVars>>

UnlinkDoneLinked(p) ==  \* fault: the finished task stays linked
    /\ pc[p] = "unlink"
    /\ taskCount' = taskCount - 1
    /\ Goto(p, "recycle")
    /\ UNCHANGED <<runnableQueue, newQueue, runningTask, nextTask, moved,
                   wakeVars, state, proc, live, avgVars>>

UnlinkDone(p) ==
    /\ pc[p] = "unlink"
    /\ runnableQueue' = [runnableQueue EXCEPT ![p] = Erase(@, runningTask[p])]
    /\ taskCount' = taskCount - 1
    /\ Goto(p, "recycle")
    /\ UNCHANGED <<newQueue, runningTask, nextTask, moved, wakeVars, state,
                   proc, live, avgVars>>

\* Add2FreeTaskList resets the task and makes it available to CreateTask.
RecycleDone(p) ==
    /\ pc[p] = "recycle"
    /\ LET d == runningTask[p]
           n == nextTask[p]
       IN  /\ live' = live \ {d}
           /\ runningTask' = [runningTask EXCEPT ![p] = n]
           /\ state' = [t \in Task |-> IF t \in {d, n} THEN "runnable"
                                                      ELSE state[t]]
           /\ proc' = [t \in Task |-> CASE t = d -> NoProc
                                        [] t = n -> p
                                        [] OTHER -> proc[t]]
           /\ Goto(p, IF n # NoTask THEN "run" ELSE "endpass")
    /\ nextTask' = [nextTask EXCEPT ![p] = NoTask]
    /\ UNCHANGED <<runnableQueue, newQueue, moved, wakeVars, taskCount,
                   avgVars>>

-----------------------------------------------------------------------------
(* What a coroutine does while it executes on p.                           *)

SwapOut(p) ==
    /\ Goto(p, "out")
    /\ UNCHANGED <<runnableQueue, newQueue, runningTask, nextTask, moved,
                   wakeVars, proc, live, taskCount, avgVars>>

CoYield(p) ==
    /\ "yield" \in UserOps
    /\ pc[p] = "run"
    /\ SwapOut(p)
    /\ UNCHANGED state

\* The end of Task::Run.
Done(p) ==
    /\ "finish" \in UserOps
    /\ pc[p] = "run"
    /\ state' = [state EXCEPT ![runningTask[p]] = "done"]
    /\ SwapOut(p)

SuspendLinked(p) ==  \* fault: the suspended task stays in runnableQueue_
    /\ UserOps \intersect {"sync", "own", "self"} # {}
    /\ pc[p] = "run"
    /\ state' = [state EXCEPT ![runningTask[p]] = "block"]
    /\ nextTask' = [nextTask EXCEPT
                      ![p] = Succ(runnableQueue[p], runningTask[p])]
    /\ Goto(p, "erased")
    /\ UNCHANGED <<runnableQueue, newQueue, runningTask, moved, wakeVars, proc,
                   live, taskCount, avgVars>>

\* Processer::SuspendBySelfIO.  Nobody knows the task is suspending before it
\* registers, so state_ = block is one step with the locked section.
SuspendBySelfIO(p) ==
    /\ UserOps \intersect {"sync", "own", "self"} # {}
    /\ pc[p] = "run"
    /\ LET t == runningTask[p] IN
       /\ state' = [state EXCEPT ![t] = "block"]
       /\ nextTask' = [nextTask EXCEPT ![p] = Succ(runnableQueue[p], t)]
       /\ runnableQueue' = [runnableQueue EXCEPT ![p] = Erase(@, t)]
    /\ Goto(p, "erased")
    /\ UNCHANGED <<newQueue, runningTask, moved, wakeVars, proc, live,
                   taskCount, avgVars>>

\* The suspended task enters the wait queue of a CoMutex, a
\* CoConditionVariable or a channel: from now on any thread may wake it,
\* even before it has swapped out.
RegisterSync(p) ==
    /\ "sync" \in UserOps
    /\ pc[p] = "erased"
    /\ syncWait' = syncWait \union {runningTask[p]}
    /\ Goto(p, "registered")
    /\ UNCHANGED <<runnableQueue, newQueue, runningTask, nextTask, moved,
                   wakee, caller, ownWait, signal, taskVars, avgVars>>

\* sleep() and the polls: its own Processer's timer_map_ or fd_map.
RegisterOwn(p) ==
    /\ "own" \in UserOps
    /\ pc[p] = "erased"
    /\ ownWait' = ownWait \union {runningTask[p]}
    /\ Goto(p, "registered")
    /\ UNCHANGED <<runnableQueue, newQueue, runningTask, nextTask, moved,
                   wakee, caller, syncWait, signal, taskVars, avgVars>>

\* CoMutex::lock finds the mutex free after it suspended: the task wakes
\* itself and goes on.
WakeupSelf(p) ==
    /\ "self" \in UserOps
    /\ pc[p] = "erased"
    /\ state' = [state EXCEPT ![runningTask[p]] = "runnable"]
    /\ runnableQueue' = [runnableQueue EXCEPT ![p] = Append(@, runningTask[p])]
    /\ Goto(p, "run")
    /\ UNCHANGED <<newQueue, runningTask, nextTask, moved, wakeVars, proc,
                   live, taskCount, avgVars>>

SwapOutSuspended(p) ==
    /\ pc[p] = "registered"
    /\ SwapOut(p)
    /\ UNCHANGED state

\* A wakeup from coroutine code, from CoConditionVariable::Wait's unlock
\* after it registered, or from a timer callback on the Processer's own
\* stack: take the task out of its wait queue and WakeupBySelfIO it, first
\* state_, then the push under the lock of its Processer's runnableQueue_.
WakeupBegin(p, t) ==
    /\ pc[p] \in {"run", "registered", "serve"}
    /\ t \in syncWait
    /\ t # runningTask[p]
    /\ runningTask[p] \notin ownWait
    /\ syncWait' = syncWait \ {t}
    /\ state' = [state EXCEPT ![t] = "runnable"]
    /\ wakee' = [wakee EXCEPT ![p] = t]
    /\ caller' = [caller EXCEPT ![p] = pc[p]]
    /\ Goto(p, "push")
    /\ UNCHANGED <<runnableQueue, newQueue, runningTask, nextTask, moved,
                   ownWait, signal, proc, live, taskCount, avgVars>>

WakeupPush(p) ==
    /\ pc[p] = "push"
    /\ runnableQueue' = [runnableQueue EXCEPT
                           ![proc[wakee[p]]] = Append(@, wakee[p])]
    /\ Goto(p, "interrupt")
    /\ UNCHANGED <<newQueue, runningTask, nextTask, moved, wakeVars, taskVars,
                   avgVars>>

WakeupInterruptSelf(p) ==  \* fault: the waker interrupts itself
    /\ pc[p] = "interrupt"
    /\ signal' = [signal EXCEPT ![p] = TRUE]
    /\ wakee' = [wakee EXCEPT ![p] = NoTask]
    /\ caller' = [caller EXCEPT ![p] = "run"]
    /\ Goto(p, caller[p])
    /\ UNCHANGED <<runnableQueue, newQueue, runningTask, nextTask, moved,
                   syncWait, ownWait, taskVars, avgVars>>

\* wakeup->proc_->InterrupteWaitLoop() reads proc_ again.  A task that has
\* finished meanwhile has none: the code dereferences nullptr there (see
\* InterruptTargetExists); here the thread goes on.
WakeupInterrupt(p) ==
    /\ pc[p] = "interrupt"
    /\ signal' = [q \in Proc |-> signal[q] \/ q = proc[wakee[p]]]
    /\ wakee' = [wakee EXCEPT ![p] = NoTask]
    /\ caller' = [caller EXCEPT ![p] = "run"]
    /\ Goto(p, caller[p])
    /\ UNCHANGED <<runnableQueue, newQueue, runningTask, nextTask, moved,
                   syncWait, ownWait, taskVars, avgVars>>

-----------------------------------------------------------------------------
(* Scheduler::CreateTask, from any thread.  The Task comes from            *)
(* free_task_map_ or from new; either way it is runnable and has no proc_. *)

\* Scheduler::AddTask picks a Processer by lastActive_, which threads read and
\* write without a lock: a call may find any value in it, so p is arbitrary.
AddTask(t, p) == newQueue' = [newQueue EXCEPT ![p] = Append(@, t)]

CreateTask(t, p) ==
    /\ "go" \in UserOps
    /\ t \in Task \ live
    /\ live' = live \union {t}
    /\ taskCount' = taskCount + 1
    /\ AddTask(t, p)
    /\ UNCHANGED <<runnableQueue, runningTask, nextTask, pc, moved, wakeVars,
                   state, proc, avgVars>>

-----------------------------------------------------------------------------
(* Scheduler::AvgTotalTasks, called once by Start and then by the          *)
(* DispatcherThread whenever the threads' loads diverge.                   *)

Avg == total \div NProc

DispatcherThread ==
    /\ dpc = "sleep"
    /\ NProc > 1
    /\ balances < MaxBalance
    /\ balances' = balances + 1
    /\ dpc' = "count"
    /\ UNCHANGED <<procVars, wakeVars, taskVars, di, cnt, total, part, stolen>>

\* RunnableSize() takes the lock of each queue in turn.
CountRunnable ==
    /\ dpc = "count"
    /\ cnt' = [cnt EXCEPT ![di] = Len(runnableQueue[di])]
    /\ dpc' = "countNew"
    /\ UNCHANGED <<procVars, wakeVars, taskVars, di, total, part, stolen,
                   balances>>

\* The end of AvgTotalTasks; after Start's call the main thread enters
\* Process.
Return ==
    /\ dpc' = "sleep"
    /\ di' = 0
    /\ cnt' = [p \in Proc |-> 0]
    /\ total' = 0
    /\ pc' = [pc EXCEPT ![0] = IF @ = "start" THEN "front" ELSE @]

CountNew ==
    /\ dpc = "countNew"
    /\ LET c == cnt[di] + Len(newQueue[di]) IN
       IF di + 1 < NProc
       THEN /\ cnt' = [cnt EXCEPT ![di] = c]
            /\ total' = total + c
            /\ di' = di + 1
            /\ dpc' = "count"
            /\ UNCHANGED pc
       ELSE IF (total + c) \div NProc = 0
       THEN Return
       ELSE /\ cnt' = [cnt EXCEPT ![di] = c]
            /\ total' = total + c
            /\ di' = 0
            /\ dpc' = "steal"
            /\ UNCHANGED pc
    /\ UNCHANGED <<runnableQueue, newQueue, runningTask, nextTask, moved,
                   wakeVars, taskVars, part, stolen, balances>>

NextIndexPastEnd(l, m) ==  \* fault: <= for <
    IF di + 1 <= NProc THEN di' = di + 1 /\ dpc' = l
                       ELSE di' = 0 /\ dpc' = m

NextIndex(l, m) ==
    IF di + 1 < NProc THEN di' = di + 1 /\ dpc' = l
                      ELSE di' = 0 /\ dpc' = m

StealNothing ==
    /\ dpc = "steal"
    /\ cnt[di] <= Avg
    /\ NextIndex("steal", "give")
    /\ UNCHANGED <<procVars, wakeVars, taskVars, cnt, total, part, stolen,
                   balances>>

\* Steal first takes from the tail of newQueue_ ...
StealNew ==
    /\ dpc = "steal"
    /\ cnt[di] > Avg
    /\ LET n == cnt[di] - Avg
           s == PopBack(newQueue[di], n)
       IN  /\ newQueue' = [newQueue EXCEPT ![di] = DropBack(@, n)]
           /\ IF Len(s) >= n
              THEN /\ stolen' = stolen \o s
                   /\ NextIndex("steal", "give")
                   /\ UNCHANGED part
              ELSE /\ part' = s
                   /\ dpc' = "stealRunnable"
                   /\ UNCHANGED <<stolen, di>>
    /\ UNCHANGED <<runnableQueue, runningTask, nextTask, pc, moved, wakeVars,
                   taskVars, cnt, total, balances>>

\* ... and what is missing from the tail of runnableQueue_, after taking
\* runningTask_ and nextTask_ out of it; they are put back at its tail.
StealRunnable ==
    /\ dpc = "stealRunnable"
    /\ LET s == StealFrom(runnableQueue[di], runningTask[di], nextTask[di],
                          cnt[di] - Avg - Len(part))
       IN  /\ stolen' = stolen \o s.taken \o part
           /\ runnableQueue' = [runnableQueue EXCEPT ![di] = s.left]
    /\ part' = <<>>
    /\ NextIndex("steal", "give")
    /\ UNCHANGED <<newQueue, runningTask, nextTask, pc, moved, wakeVars,
                   taskVars, cnt, total, balances>>

\* The stolen tasks go to the Processers below the average ...
GiveNothing ==
    /\ dpc = "give"
    /\ cnt[di] >= Avg
    /\ NextIndex("give", "rest")
    /\ UNCHANGED <<procVars, wakeVars, taskVars, cnt, total, part, stolen,
                   balances>>

GiveTasks ==
    /\ dpc = "give"
    /\ cnt[di] < Avg
    /\ LET k == IF Avg - cnt[di] < Len(stolen) THEN Avg - cnt[di]
                                              ELSE Len(stolen)
       IN  /\ newQueue' = [newQueue EXCEPT ![di] = @ \o SubSeq(stolen, 1, k)]
           /\ stolen' = SubSeq(stolen, k + 1, Len(stolen))
    /\ IF stolen = <<>> THEN dpc' = "rest" /\ di' = 0
                        ELSE NextIndex("give", "rest")
    /\ UNCHANGED <<runnableQueue, runningTask, nextTask, pc, moved, wakeVars,
                   taskVars, cnt, total, part, balances>>

\* ... and what is left to Processer 0.
GiveRest ==
    /\ dpc = "rest"
    /\ newQueue' = [newQueue EXCEPT ![0] = @ \o stolen]
    /\ stolen' = <<>>
    /\ Return
    /\ UNCHANGED <<runnableQueue, runningTask, nextTask, moved, wakeVars,
                   taskVars, part, balances>>

AvgTotalTasks ==
    \/ CountRunnable \/ CountNew
    \/ StealNothing \/ StealNew \/ StealRunnable
    \/ GiveNothing \/ GiveTasks \/ GiveRest

-----------------------------------------------------------------------------
Process(p) ==
    \/ PickFront(p)
    \/ AddNewTasksEmpty(p) \/ AddNewTasksTake(p) \/ AddNewTasksPush(p)
    \/ WaitLoopReturn(p) \/ InterrupterReset(p) \/ WakeupTimersReturn(p)
    \/ AfterBlock(p) \/ AfterYield(p)
    \/ AfterDone(p) \/ UnlinkDone(p) \/ RecycleDone(p)

\* A coroutine on its way out, or inside a call of the library.
Library(p) ==
    \/ RegisterSync(p) \/ RegisterOwn(p) \/ WakeupSelf(p)
    \/ SwapOutSuspended(p)
    \/ WakeupPush(p) \/ WakeupInterrupt(p)

Next ==
    \/ \E p \in Proc :
         \/ Process(p) \/ Library(p)
         \/ CoYield(p) \/ Done(p) \/ SuspendBySelfIO(p)
         \/ \E t \in Task : WakeupOwn(p, t) \/ WakeupBegin(p, t)
                            \/ CreateTask(t, p)
    \/ DispatcherThread
    \/ AvgTotalTasks

Spec == Init /\ [][Next]_vars

-----------------------------------------------------------------------------
(* Where a task can be.                                                    *)

\* The places that hold linked tasks: three per Processer, two of the
\* dispatcher.
Place == (Proc \X {"runnable", "new", "moved"}) \union
         {<<0, "part">>, <<0, "stolen">>}

Content(x) ==
    CASE x[2] = "runnable" -> runnableQueue[x[1]]
      [] x[2] = "new"      -> newQueue[x[1]]
      [] x[2] = "moved"    -> moved[x[1]]
      [] x[2] = "part"     -> part
      [] x[2] = "stolen"   -> stolen

Linked == UNION {ToSet(Content(x)) : x \in Place}

\* The running task of p once it has taken itself out of runnableQueue_.
Detached(p) ==
    IF \/ runningTask[p] = NoTask
       \/ Contains(runnableQueue[p], runningTask[p])
    THEN {} ELSE {runningTask[p]}

\* A waker has marked its task runnable and has not pushed it yet.
BeingWoken == {wakee[p] : p \in {q \in Proc : pc[q] = "push"}}

\* The thread of p is on the stack of runningTask_, not on its own.
Executes(p) ==
    runningTask[p] # NoTask /\ pc[p] \notin {"out", "unlink", "recycle"}

-----------------------------------------------------------------------------
(* Invariants.                                                             *)

Label == {"start", "front", "idle", "idleTake", "idlePush", "again", "wait",
          "drain", "serve", "run", "erased", "registered", "push",
          "interrupt", "out", "unlink", "recycle", "endpass", "passTake",
          "passPush"}

DLabel == {"sleep", "count", "countNew", "steal", "stealRunnable", "give",
           "rest"}

\* Every variable of the scheduler has its type; in particular the loop
\* indices and counts of AvgTotalTasks stay in range and every pointer of a
\* queue is a Task (no nullptr is ever linked).
TypeOK ==
    /\ runnableQueue \in [Proc -> Seq(Task)]
    /\ newQueue \in [Proc -> Seq(Task)]
    /\ moved \in [Proc -> Seq(Task)]
    /\ runningTask \in [Proc -> Task \union {NoTask}]
    /\ nextTask \in [Proc -> Task \union {NoTask}]
    /\ pc \in [Proc -> Label]
    /\ wakee \in [Proc -> Task \union {NoTask}]
    /\ caller \in [Proc -> {"run", "registered", "serve"}]
    /\ state \in [Task -> {"runnable", "block", "done"}]
    /\ proc \in [Task -> Proc \union {NoProc}]
    /\ live \in SUBSET Task
    /\ taskCount \in Int
    /\ syncWait \in SUBSET Task
    /\ ownWait \in SUBSET Task
    /\ signal \in [Proc -> BOOLEAN]
    /\ dpc \in DLabel
    /\ di \in Proc
    /\ cnt \in [Proc -> Nat]
    /\ total \in Nat
    /\ part \in Seq(Task)
    /\ stolen \in Seq(Task)
    /\ balances \in 1 .. MaxBalance

\* A task is linked at one position of one list at most, whatever mix of
\* wakeups, AddNewTasks and Steal has moved it: pushing a linked task, or
\* stealing one that is also elsewhere, would tie two intrusive lists
\* together (the asserts of pushWithoutLock, ts_queue.h:479-480).
OnePlace ==
    \A x, y \in Place :
      \A i \in 1 .. Len(Content(x)), j \in 1 .. Len(Content(y)) :
        Content(x)[i] = Content(y)[j] => x = y /\ i = j

\* No task is lost and no finished one comes back: the tasks that exist are
\* those in a list, those their Processer is still switching away from, and
\* those some waker will push; and a task that waits for a wakeup is in no
\* list, so that its wakeup links it once.  TaskCount() counts exactly these.
Accounted ==
    LET waiting  == syncWait \union ownWait
        detached == UNION {Detached(p) : p \in Proc}
    IN  /\ live = Linked \union waiting \union BeingWoken \union detached
        /\ (waiting \union BeingWoken) \intersect Linked = {}
        /\ waiting \intersect BeingWoken = {}
        /\ syncWait \intersect ownWait = {}
        /\ taskCount = Cardinality(live)
                         - Cardinality({p \in Proc : pc[p] = "recycle"})

\* Steal's comment (processer.cpp:303-307): a task must never be held by two
\* Processers.  The task a Processer runs, or is switching away from, is not
\* the running task of another one and is linked nowhere but in its own
\* Processer's runnableQueue_, although it can be woken and pushed, and the
\* dispatcher can empty that queue, before it has left its stack.
RunExclusive ==
    \A p \in Proc : runningTask[p] # NoTask =>
      /\ \A q \in Proc \ {p} : runningTask[q] # runningTask[p]
      /\ \A x \in Place \ {<<p, "runnable">>} :
           ~Contains(Content(x), runningTask[p])

\* nextTask_, saved by SuspendBySelfIO or next() and used after the task has
\* switched out (or, when it was woken before, left behind stale), is still
\* linked in this Processer's runnableQueue_ whenever Process or Steal uses it.
NextInQueue ==
    \A p \in Proc :
      nextTask[p] # NoTask => Contains(runnableQueue[p], nextTask[p])

\* No wakeup is slept through: a Processer blocked in epoll_wait with a task
\* in its runnableQueue_ has a byte in its interrupter's socket, or the waker
\* that pushed is about to send it.
NoMissedWakeup ==
    \A p \in Proc :
      pc[p] = "wait" /\ runnableQueue[p] # <<>> =>
        \/ signal[p]
        \/ \E q \in Proc : pc[q] = "interrupt" /\ proc[wakee[q]] = p

-----------------------------------------------------------------------------
(* The promise of TaskSched.                                               *)

onStack == [p \in Proc |-> IF Executes(p) THEN runningTask[p] ELSE NoTask]

Sched == INSTANCE TaskSched WITH
    alive  <- {t \in live : state[t] # "done"},
    parked <- {t \in live : /\ state[t] = "block"
                            /\ \A p \in Proc : onStack[p] # t},
    on     <- onStack

\* Process, wakeups and stealing only ever create, resume, park, wake and
\* finish tasks the way TaskSched allows: no task is resumed while another
\* thread is on its stack, while it is parked or after it has finished.
ImplementsTaskSched == Sched!Spec

-----------------------------------------------------------------------------
(* Fairness: the threads keep running and coroutines are cooperative, each  *)
(* one eventually yields, suspends or returns (the library has no           *)
(* preemption), however many others it wakes before that.  Nothing is       *)
(* assumed of wakeups, fds, timers or CreateTask.                           *)
LeaveCPU(p) == CoYield(p) \/ Done(p) \/ SuspendBySelfIO(p)

Fairness ==
    /\ \A p \in Proc :
         /\ WF_vars(Process(p))
         /\ WF_vars(Library(p))
         /\ SF_vars(LeaveCPU(p))
         /\ SF_vars(SwapOutSuspended(p))
    /\ WF_vars(AvgTotalTasks)

FairSpec == Spec /\ Fairness

\* Every task that is ready to run (new, yielded, woken or stolen) is
\* eventually resumed.
ReadyTasksRun ==
    \A t \in Task : t \in Sched!Ready ~> t \in Sched!Executing

\* processer.cpp:126: the inner loop of Process runs the tasks of
\* runnableQueue_ once and ends (so that new tasks, timers and fds get their
\* turn).
PassEnds == \A p \in Proc : pc[p] = "run" ~> pc[p] = "endpass"

\* co_mutex.cpp:137, co_condition_variable.cpp:77, fast_channel_impl.h:277: the
\* waker interrupts the Processer of the task it has just pushed.
InterruptTargetExists ==
    \A p \in Proc : pc[p] = "interrupt" => proc[wakee[p]] \in Proc
=============================================================================
