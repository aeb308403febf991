-------------------------- MODULE ProcesserProofs --------------------------
(***************************************************************************)
(* The types of Processer's variables, where every task is, and the safety *)
(* that follows, for every set of tasks and number of threads: every task  *)
(* is in one place, run by one thread and counted once, no wakeup is slept *)
(* through, and the module implements TaskSched.                           *)
(*                                                                         *)
(* The safety properties of Processer speak of the contents of 3*NProc + 2 *)
(* lists.  The inductive invariant says instead where each task is: some   *)
(* function l gives every task one place at most, every list holds without *)
(* repetition the tasks of its place, and the state of a thread or of a    *)
(* task tells the place.  No variable holds l: a step that moves tasks has *)
(* another l afterwards, and the lemmas say which one.                     *)
(***************************************************************************)
EXTENDS Processer, SeqLemmas, FiniteSetTheorems

-----------------------------------------------------------------------------
(* Types.                                                                  *)

\* The element after a task of a queue is a task or nullptr.
LEMMA SuccType ==
  ASSUME NEW q \in Seq(Task), NEW t
  PROVE  Succ(q, t) \in Task \union {NoTask}
<1>1. CASE \E i \in 1 .. Len(q) - 1 : q[i] = t
  <2> DEFINE i == CHOOSE i \in 1 .. Len(q) - 1 : q[i] = t
  <2>1. i \in 1 .. Len(q) - 1
    BY <1>1
  <2>2. 1 + i \in 1 .. Len(q)
    BY <2>1, LenProperties
  <2>3. q[1 + i] \in Task
    BY <2>2, ElementOfSeq
  <2> QED
    BY <1>1, <2>3 DEF Succ
<1>2. CASE ~ \E i \in 1 .. Len(q) - 1 : q[i] = t
  BY <1>2 DEF Succ
<1> QED
  BY <1>1, <1>2

\* eraseWithoutLock leaves a queue of tasks.
LEMMA EraseType ==
  ASSUME NEW q \in Seq(Task), NEW t
  PROVE  Erase(q, t) \in Seq(Task)
<1>1. CASE Contains(q, t)
  <2> DEFINE i == CHOOSE i \in 1 .. Len(q) : q[i] = t
  <2>1. i \in 1 .. Len(q)
    BY <1>1 DEF Contains
  <2> HIDE DEF i
  <2>2. SubSeq(q, 1, i - 1) \in Seq(Task) /\ SubSeq(q, i + 1, Len(q)) \in Seq(Task)
    BY <2>1
  <2> QED
    BY <1>1, <2>2 DEF Erase, RemoveAt, i
<1>2. CASE ~ Contains(q, t)
  BY <1>2 DEF Erase
<1> QED
  BY <1>1, <1>2

\* pop_back splits a queue into two, the second as long as was asked for or as
\* the queue is.
LEMMA BackType ==
  ASSUME NEW q \in Seq(Task), NEW n \in Nat
  PROVE  /\ PopBack(q, n) \in Seq(Task)
         /\ Len(PopBack(q, n)) = BackSize(q, n)
         /\ DropBack(q, n) \in Seq(Task)
  BY DEF PopBack, DropBack, BackSize

\* Steal splits runnableQueue_ into two queues of tasks.
LEMMA StealFromType ==
  ASSUME NEW q \in Seq(Task), NEW r, NEW x, NEW n \in Nat
  PROVE  /\ StealFrom(q, r, x, n).taken \in Seq(Task)
         /\ StealFrom(q, r, x, n).left \in Seq(Task)
<1> DEFINE q1 == Erase(q, r)
           q2 == Erase(q1, x)
<1>1. q1 \in Seq(Task) /\ q2 \in Seq(Task)
  BY EraseType
<1>2. PopBack(q2, n) \in Seq(Task) /\ DropBack(q2, n) \in Seq(Task)
  BY <1>1, BackType
<1>3. IfIn(q, r) \in Seq(Task) /\ IfIn(q1, x) \in Seq(Task)
  <2>1. \A p \in Seq(Task) : \A t : Contains(p, t) => t \in Task
    BY ElementOfSeq DEF Contains
  <2> QED
    BY <1>1, <2>1 DEF IfIn
<1> QED
  BY <1>2, <1>3 DEF StealFrom

\* front() is a task or nullptr.
LEMMA FirstType ==
  ASSUME NEW q \in Seq(Task)
  PROVE  First(q) \in Task \union {NoTask}
  BY DEF First

-----------------------------------------------------------------------------
\* A thread that executes a coroutine has a running task ...
RunInv ==
    \A p \in Proc :
      \/ pc[p] \in {"run", "erased", "registered", "out", "unlink", "recycle"}
      \/ pc[p] \in {"push", "interrupt"} /\ caller[p] # "serve"
      => runningTask[p] # NoTask

\* ... one that wakes a task has that task ...
WakeeInv ==
    \A p \in Proc : pc[p] \in {"push", "interrupt"} => wakee[p] # NoTask

\* ... and Steal goes on to runnableQueue_ only while tasks are missing.
StealInv ==
    dpc = "stealRunnable" => Len(part) < cnt[di] - Avg

TInv == TypeOK /\ RunInv /\ WakeeInv /\ StealInv

\* avg is a number of tasks.
LEMMA AvgType ==
  ASSUME total \in Nat PROVE Avg \in Nat
  BY ProcesserAssumption DEF Avg

\* What Start leaves behind is well typed.
LEMMA InitTInv == Init => TInv
  BY ProcesserAssumption
     DEF Init, TInv, TypeOK, RunInv, WakeeInv, StealInv, Proc, Label, DLabel,
         ToSet

\* Processer 0 exists.
LEMMA ZeroProc == 0 \in Proc
  BY ProcesserAssumption DEF Proc

\* The loops of AvgTotalTasks stay below processers_.size().
LEMMA NextIndexType ==
  ASSUME di \in Proc, NEW l, NEW m, NextIndex(l, m)
  PROVE  di' \in Proc /\ dpc' \in {l, m}
  BY ProcesserAssumption DEF Proc, NextIndex

\* Every step of every thread keeps the types.  TypeOK alone is not inductive:
\* the pops of Steal are in range only because Steal goes on to runnableQueue_
\* when tasks are missing, and the pushes need a task.
LEMMA StepTInv == TInv /\ [Next]_vars => TInv'
<1> SUFFICES ASSUME TInv, [Next]_vars PROVE TInv'
  OBVIOUS
<1> USE ProcesserAssumption
    DEF TInv, TypeOK, RunInv, WakeeInv, StealInv, Goto, procVars, wakeVars,
        taskVars, avgVars, Label, DLabel
<1>1. ASSUME NEW p \in Proc, PickFront(p) PROVE TInv'
  <2> DEFINE t == First(runnableQueue[p])
  <2>1. t \in Task \union {NoTask}
    BY FirstType
  <2> HIDE DEF t
  <2>2. CASE t # NoTask
    <3>1. SwapIn(p, t)
      BY <1>1, <2>2 DEF PickFront, t
    <3> QED
      BY <1>1, <2>1, <2>2, <3>1 DEF PickFront, SwapIn, Avg
  <2>3. CASE t = NoTask
    <3>1. /\ pc' = [pc EXCEPT ![p] = IF pc[p] = "front" THEN "idle" ELSE "wait"]
          /\ UNCHANGED <<runningTask, state, proc>>
      BY <1>1, <2>3 DEF PickFront, t
    <3> QED
      BY <1>1, <3>1 DEF PickFront, Avg
  <2> QED
    BY <2>2, <2>3
<1>2. ASSUME NEW p \in Proc, AddNewTasksEmpty(p) PROVE TInv'
  BY <1>2 DEF AddNewTasksEmpty, Avg
<1>3. ASSUME NEW p \in Proc, AddNewTasksTake(p) PROVE TInv'
  BY <1>3 DEF AddNewTasksTake, Avg
<1>4. ASSUME NEW p \in Proc, AddNewTasksPush(p) PROVE TInv'
  BY <1>4 DEF AddNewTasksPush, Avg
<1>5. ASSUME NEW p \in Proc, WaitLoopReturn(p) PROVE TInv'
  BY <1>5 DEF WaitLoopReturn, Avg
<1>6. ASSUME NEW p \in Proc, InterrupterReset(p) PROVE TInv'
  BY <1>6 DEF InterrupterReset, Avg
<1>7. ASSUME NEW p \in Proc, WakeupTimersReturn(p) PROVE TInv'
  BY <1>7 DEF WakeupTimersReturn, Avg
<1>8. ASSUME NEW p \in Proc, AfterBlock(p) PROVE TInv'
  <2>1. CASE nextTask[p] # NoTask
    <3>1. SwapIn(p, nextTask[p]) /\ nextTask[p] \in Task
      BY <1>8, <2>1 DEF AfterBlock, RunNext
    <3> QED
      BY <1>8, <3>1 DEF AfterBlock, SwapIn, Avg
  <2>2. CASE nextTask[p] = NoTask
    <3>1. /\ runningTask' = [runningTask EXCEPT ![p] = NoTask]
          /\ pc' = [pc EXCEPT ![p] = "endpass"]
          /\ UNCHANGED <<state, proc>>
      BY <1>8, <2>2 DEF AfterBlock, RunNext
    <3> QED
      BY <1>8, <3>1 DEF AfterBlock, Avg
  <2> QED
    BY <2>1, <2>2
<1>9. ASSUME NEW p \in Proc, AfterYield(p) PROVE TInv'
  <2> DEFINE t == Succ(runnableQueue[p], runningTask[p])
  <2>1. t \in Task \union {NoTask}
    BY SuccType
  <2> HIDE DEF t
  <2>2. CASE t # NoTask
    <3>1. SwapIn(p, t)
      BY <1>9, <2>2 DEF AfterYield, RunNext, t
    <3> QED
      BY <1>9, <2>1, <2>2, <3>1 DEF AfterYield, SwapIn, Avg
  <2>3. CASE t = NoTask
    <3>1. /\ runningTask' = [runningTask EXCEPT ![p] = NoTask]
          /\ pc' = [pc EXCEPT ![p] = "endpass"]
          /\ UNCHANGED <<state, proc>>
      BY <1>9, <2>3 DEF AfterYield, RunNext, t
    <3> QED
      BY <1>9, <3>1 DEF AfterYield, Avg
  <2> QED
    BY <2>2, <2>3
<1>10. ASSUME NEW p \in Proc, AfterDone(p) PROVE TInv'
  BY <1>10, SuccType DEF AfterDone, Avg
<1>11. ASSUME NEW p \in Proc, UnlinkDone(p) PROVE TInv'
  BY <1>11, EraseType DEF UnlinkDone, Avg
<1>12. ASSUME NEW p \in Proc, RecycleDone(p) PROVE TInv'
  BY <1>12 DEF RecycleDone, Avg
<1>13. ASSUME NEW p \in Proc, RegisterSync(p) PROVE TInv'
  BY <1>13 DEF RegisterSync, Avg
<1>14. ASSUME NEW p \in Proc, RegisterOwn(p) PROVE TInv'
  BY <1>14 DEF RegisterOwn, Avg
<1>15. ASSUME NEW p \in Proc, WakeupSelf(p) PROVE TInv'
  BY SMTT(30), <1>15 DEF WakeupSelf, Avg
<1>16. ASSUME NEW p \in Proc, SwapOutSuspended(p) PROVE TInv'
  BY <1>16 DEF SwapOutSuspended, SwapOut, Avg
<1>17. ASSUME NEW p \in Proc, WakeupPush(p) PROVE TInv'
  <2>1. runnableQueue' \in [Proc -> Seq(Task)]
    <3>1. CASE proc[wakee[p]] \in Proc
      BY <1>17, <3>1 DEF WakeupPush
    <3>2. CASE proc[wakee[p]] \notin Proc
      BY <1>17, <3>2 DEF WakeupPush
    <3> QED
      BY <3>1, <3>2
  <2> QED
    BY <1>17, <2>1 DEF WakeupPush, Avg
<1>18. ASSUME NEW p \in Proc, WakeupInterrupt(p) PROVE TInv'
  BY <1>18 DEF WakeupInterrupt, Avg
<1>19. ASSUME NEW p \in Proc, CoYield(p) PROVE TInv'
  BY <1>19 DEF CoYield, SwapOut, Avg
<1>20. ASSUME NEW p \in Proc, Done(p) PROVE TInv'
  BY <1>20 DEF Done, SwapOut, Avg
<1>21. ASSUME NEW p \in Proc, SuspendBySelfIO(p) PROVE TInv'
  BY <1>21, SuccType, EraseType DEF SuspendBySelfIO, Avg
<1>22. ASSUME NEW p \in Proc, NEW t \in Task, WakeupOwn(p, t) PROVE TInv'
  BY <1>22 DEF WakeupOwn, Avg
<1>23. ASSUME NEW p \in Proc, NEW t \in Task, WakeupBegin(p, t) PROVE TInv'
  BY <1>23 DEF WakeupBegin, Avg
<1>24. ASSUME NEW p \in Proc, NEW t \in Task, CreateTask(t, p) PROVE TInv'
  BY <1>24 DEF CreateTask, AddTask, Avg
<1>25. ASSUME DispatcherThread PROVE TInv'
  BY <1>25 DEF DispatcherThread
<1>26. ASSUME CountRunnable PROVE TInv'
  BY <1>26 DEF CountRunnable
<1>27. ASSUME CountNew PROVE TInv'
  <2> DEFINE c == cnt[di] + Len(newQueue[di])
  <2>1. c \in Nat /\ di + 1 \in Nat
    <3>1. cnt[di] \in Nat /\ newQueue[di] \in Seq(Task) /\ di \in Nat
      BY DEF Proc
    <3> QED
      BY <3>1, LenProperties
  <2> HIDE DEF c
  <2>5. UNCHANGED <<runnableQueue, newQueue, runningTask, nextTask, moved,
                   wakeVars, taskVars, part, stolen, balances>>
    BY <1>27 DEF CountNew
  <2>2. CASE di + 1 < NProc
    <3>1. /\ cnt' = [cnt EXCEPT ![di] = c]
          /\ total' = total + c
          /\ di' = di + 1
          /\ dpc' = "count"
          /\ UNCHANGED pc
      BY <1>27, <2>2 DEF CountNew, c
    <3>2. di' \in Proc
      BY <2>2, <3>1 DEF Proc
    <3>3. cnt' \in [Proc -> Nat] /\ total' \in Nat
      BY <2>1, <3>1
    <3>4. dpc' = "count" /\ UNCHANGED pc
      BY <3>1
    <3> QED
      BY <2>5, <3>2, <3>3, <3>4
  <2>3. CASE ~(di + 1 < NProc) /\ (total + c) \div NProc = 0
    <3>1. Return
      BY <1>27, <2>3 DEF CountNew, c
    <3> QED
      BY <2>5, <3>1, ZeroProc DEF Return
  <2>4. CASE ~(di + 1 < NProc) /\ ~((total + c) \div NProc = 0)
    <3>1. /\ cnt' = [cnt EXCEPT ![di] = c]
          /\ total' = total + c
          /\ di' = 0
          /\ dpc' = "steal"
          /\ UNCHANGED pc
      BY <1>27, <2>4 DEF CountNew, c
    <3> QED
      BY <2>1, <2>5, <3>1, ZeroProc
  <2> QED
    BY <2>2, <2>3, <2>4
<1>28. ASSUME StealNothing PROVE TInv'
  BY <1>28, NextIndexType DEF StealNothing
<1>29. ASSUME StealNew PROVE TInv'
  <2>1. Avg \in Nat /\ Avg' = Avg
    BY <1>29, AvgType DEF StealNew, Avg
  <2> DEFINE n == cnt[di] - Avg
             s == PopBack(newQueue[di], n)
  <2>2. n \in Nat
    BY <1>29, <2>1 DEF StealNew
  <2>3. s \in Seq(Task) /\ DropBack(newQueue[di], n) \in Seq(Task)
    BY <2>2, BackType
  <2>4. newQueue' \in [Proc -> Seq(Task)]
    BY <1>29, <2>3 DEF StealNew
  <2> HIDE DEF s
  <2>5. CASE Len(s) >= n
    <3>1. /\ stolen' = stolen \o s
          /\ NextIndex("steal", "give")
          /\ UNCHANGED <<part, runnableQueue, runningTask, nextTask, pc, moved,
                         wakeVars, taskVars, cnt, total, balances>>
      BY <1>29, <2>5 DEF StealNew, s
    <3>2. di' \in Proc /\ dpc' \in {"steal", "give"}
      BY <3>1, NextIndexType
    <3>3. stolen' \in Seq(Task)
      BY <2>3, <3>1
    <3> QED
      BY <2>4, <3>1, <3>2, <3>3
  <2>6. CASE ~(Len(s) >= n)
    BY <1>29, <2>1, <2>2, <2>3, <2>4, <2>6 DEF StealNew, s
  <2> QED
    BY <2>5, <2>6
<1>30. ASSUME StealRunnable PROVE TInv'
  <2> DEFINE n == cnt[di] - Avg - Len(part)
             s == StealFrom(runnableQueue[di], runningTask[di], nextTask[di], n)
  <2>1. n \in Nat
    BY <1>30, AvgType DEF StealRunnable
  <2>2. s.taken \in Seq(Task) /\ s.left \in Seq(Task)
    BY <2>1, StealFromType
  <2> HIDE DEF n, s
  <2>3. /\ stolen' = stolen \o s.taken \o part
        /\ runnableQueue' = [runnableQueue EXCEPT ![di] = s.left]
        /\ part' = <<>>
        /\ UNCHANGED <<newQueue, runningTask, nextTask, pc, moved, wakeVars,
                       taskVars, cnt, total, balances>>
    BY <1>30 DEF StealRunnable, n, s
  <2>4. stolen' \in Seq(Task) /\ runnableQueue' \in [Proc -> Seq(Task)]
    BY <2>2, <2>3
  <2>5. di' \in Proc /\ dpc' \in {"steal", "give"}
    BY <1>30, NextIndexType DEF StealRunnable
  <2>6. part' \in Seq(Task) /\ dpc' # "stealRunnable" /\ dpc' \in DLabel
    BY <2>3, <2>5
  <2>7. UNCHANGED <<newQueue, runningTask, nextTask, pc, moved, wakee, caller,
                    syncWait, ownWait, signal, state, proc, live, taskCount, cnt,
                    total, balances>>
    BY <2>3
  <2> QED
    BY <2>4, <2>5, <2>6, <2>7
<1>31. ASSUME GiveNothing PROVE TInv'
  BY <1>31, NextIndexType DEF GiveNothing
<1>32. ASSUME GiveTasks PROVE TInv'
  <2> DEFINE d == Avg - cnt[di]
             k == IF d < Len(stolen) THEN d ELSE Len(stolen)
  <2>1. d \in Nat
    BY <1>32, AvgType DEF GiveTasks
  <2>2. k \in 0 .. Len(stolen)
    BY <2>1
  <2>3. /\ SubSeq(stolen, 1, k) \in Seq(Task)
        /\ SubSeq(stolen, k + 1, Len(stolen)) \in Seq(Task)
    BY <2>2
  <2>4. /\ newQueue' \in [Proc -> Seq(Task)]
        /\ stolen' \in Seq(Task)
    BY SMTT(30), <1>32, <2>3 DEF GiveTasks
  <2>5. di' \in Proc /\ dpc' \in {"give", "rest"}
    BY <1>32, NextIndexType, ZeroProc DEF GiveTasks
  <2> QED
    BY <1>32, <2>4, <2>5 DEF GiveTasks
<1>33. ASSUME GiveRest PROVE TInv'
  BY <1>33, ZeroProc DEF GiveRest, Return
<1>34. ASSUME UNCHANGED vars PROVE TInv'
  BY <1>34 DEF vars, Avg
<1> QED
  BY <1>1, <1>2, <1>3, <1>4, <1>5, <1>6, <1>7, <1>8, <1>9, <1>10, <1>11, <1>12,
     <1>13, <1>14, <1>15, <1>16, <1>17, <1>18, <1>19, <1>20, <1>21, <1>22,
     <1>23, <1>24, <1>25, <1>26, <1>27, <1>28, <1>29, <1>30, <1>31, <1>32,
     <1>33, <1>34
     DEF Next, Process, Library, AvgTotalTasks

\* Every pointer, index and counter of the scheduler keeps its type, whatever
\* the threads, the coroutines and the dispatcher do: no nullptr is linked in
\* a queue, and the loops of AvgTotalTasks stay in range.
THEOREM TypeCorrect == Spec => []TypeOK
<1>1. TInv => TypeOK
  BY DEF TInv
<1> QED
  BY <1>1, InitTInv, StepTInv, PTL DEF Spec
-----------------------------------------------------------------------------
(* Operations on the lists, by their elements.                             *)

\* erase() takes its task out of the list, wherever it is in it.
LEMMA EraseToSet ==
  ASSUME NEW q \in Seq(Task), IsInjective(q), NEW t
  PROVE  /\ Erase(q, t) \in Seq(Task) /\ IsInjective(Erase(q, t))
         /\ ToSet(Erase(q, t)) = ToSet(q) \ {t}
<1>1. CASE Contains(q, t)
  <2> DEFINE i == CHOOSE j \in 1 .. Len(q) : q[j] = t
  <2>1. i \in 1 .. Len(q) /\ q[i] = t
    BY <1>1 DEF Contains
  <2>2. Erase(q, t) = RemoveAt(q, i)
    BY <1>1 DEF Erase
  <2> HIDE DEF i
  <2> QED
    BY <2>1, <2>2, RemoveAtToSet
<1>2. CASE ~ Contains(q, t)
  <2>1. t \notin ToSet(q) /\ Erase(q, t) = q
    BY <1>2, InToSet DEF Erase
  <2> QED
    BY <2>1
<1> QED
  BY <1>1, <1>2

\* next() answers nullptr or another task of the list.
LEMMA SuccInToSet ==
  ASSUME NEW q \in Seq(Task), IsInjective(q), NEW t, Succ(q, t) # NoTask
  PROVE  Succ(q, t) \in ToSet(q) /\ Succ(q, t) # t /\ t \in ToSet(q)
<1> DEFINE i == CHOOSE j \in 1 .. Len(q) - 1 : q[j] = t
<1>1. \E j \in 1 .. Len(q) - 1 : q[j] = t
  BY DEF Succ
<1>2. i \in 1 .. Len(q) - 1 /\ q[i] = t
  BY <1>1
<1>3. Succ(q, t) = q[1 + i]
  BY <1>1 DEF Succ
<1> HIDE DEF i
<1>4. i \in 1 .. Len(q) /\ 1 + i \in 1 .. Len(q) /\ 1 + i # i
  BY <1>2, LenProperties
<1> QED
  BY <1>2, <1>3, <1>4, InToSet, Injective

\* front() answers nullptr for the empty list, otherwise one of its tasks.
LEMMA FirstInToSet ==
  ASSUME NEW q \in Seq(Task)
  PROVE  IF q = <<>> THEN First(q) = NoTask
                     ELSE First(q) # NoTask /\ First(q) \in ToSet(q)
<1>1. CASE q = <<>>
  BY <1>1 DEF First
<1>2. CASE q # <<>>
  <2>1. Head(q) \in ToSet(q) /\ ToSet(q) \subseteq Task
    BY <1>2, HeadInToSet, InToSet
  <2> QED
    BY <1>2, <2>1, ProcesserAssumption DEF First
<1> QED
  BY <1>1, <1>2

\* pop_back(n) cuts the list in two.
LEMMA BackToSet ==
  ASSUME NEW q \in Seq(Task), IsInjective(q), NEW n \in Nat
  PROVE  /\ PopBack(q, n) \in Seq(Task) /\ DropBack(q, n) \in Seq(Task)
         /\ IsInjective(PopBack(q, n)) /\ IsInjective(DropBack(q, n))
         /\ ToSet(PopBack(q, n)) \union ToSet(DropBack(q, n)) = ToSet(q)
         /\ ToSet(PopBack(q, n)) \intersect ToSet(DropBack(q, n)) = {}
<1> DEFINE k == Len(q) - BackSize(q, n)
<1>1. k \in 0 .. Len(q)
  BY LenProperties DEF BackSize
<1>2. PopBack(q, n) = SubSeq(q, k + 1, Len(q)) /\ DropBack(q, n) = SubSeq(q, 1, k)
  BY DEF PopBack, DropBack
<1> HIDE DEF k
<1> QED
  BY <1>1, <1>2, CutToSet

\* Putting a task back that was in the list.
LEMMA PutBackToSet ==
  ASSUME NEW q \in Seq(Task), NEW d \in Seq(Task), IsInjective(d), NEW t,
         t \notin ToSet(d)
  PROVE  /\ d \o IfIn(q, t) \in Seq(Task) /\ IsInjective(d \o IfIn(q, t))
         /\ ToSet(d \o IfIn(q, t)) = ToSet(d) \union (ToSet(q) \intersect {t})
<1>1. CASE Contains(q, t)
  <2>1. t \in ToSet(q) /\ t \in Task /\ IfIn(q, t) = <<t>>
    BY <1>1, InToSet DEF IfIn
  <2>2. <<t>> \in Seq(Task) /\ ToSet(<<t>>) = {t} /\ IsInjective(<<t>>)
    BY <2>1, SingletonToSet
  <2>3. ToSet(d) \intersect ToSet(<<t>>) = {}
    BY <2>2
  <2> DEFINE s == <<t>>
  <2> HIDE DEF s
  <2>4. s \in Seq(Task) /\ IsInjective(s) /\ ToSet(d) \intersect ToSet(s) = {}
    BY <2>2, <2>3 DEF s
  <2>5. /\ d \o s \in Seq(Task) /\ IsInjective(d \o s)
        /\ ToSet(d \o s) = ToSet(d) \union ToSet(s)
    BY <2>4, ConcatToSet
  <2> QED
    BY <2>1, <2>2, <2>5 DEF s
<1>2. CASE ~ Contains(q, t)
  <2>1. t \notin ToSet(q) /\ IfIn(q, t) = <<>>
    BY <1>2, InToSet DEF IfIn
  <2>2. d \o <<>> = d
    BY ConcatEmptySeq
  <2> QED
    BY <2>1, <2>2
<1> QED
  BY <1>1, <1>2

\* The locked part of Steal cuts the list in two, and neither runningTask_ nor
\* nextTask_ is in the part it takes.
LEMMA StealFromToSet ==
  ASSUME NEW q \in Seq(Task), IsInjective(q), NEW r, NEW x, NEW n \in Nat
  PROVE  LET s == StealFrom(q, r, x, n)
         IN  /\ s.taken \in Seq(Task) /\ s.left \in Seq(Task)
             /\ IsInjective(s.taken) /\ IsInjective(s.left)
             /\ ToSet(s.taken) \union ToSet(s.left) = ToSet(q)
             /\ ToSet(s.taken) \intersect ToSet(s.left) = {}
             /\ r \notin ToSet(s.taken) /\ x \notin ToSet(s.taken)
<1> DEFINE q1 == Erase(q, r)
           q2 == Erase(q1, x)
           a == PopBack(q2, n)
           d == DropBack(q2, n)
           e == d \o IfIn(q, r)
           f == e \o IfIn(q1, x)
<1>1. /\ q1 \in Seq(Task) /\ IsInjective(q1)
      /\ ToSet(q1) = ToSet(q) \ {r}
  BY EraseToSet
<1>2. /\ q2 \in Seq(Task) /\ IsInjective(q2)
      /\ ToSet(q2) = ToSet(q1) \ {x}
  BY <1>1, EraseToSet
<1>3. /\ a \in Seq(Task) /\ d \in Seq(Task)
      /\ IsInjective(a) /\ IsInjective(d)
      /\ ToSet(a) \union ToSet(d) = ToSet(q2)
      /\ ToSet(a) \intersect ToSet(d) = {}
  BY <1>2, BackToSet
<1>4. StealFrom(q, r, x, n) = [taken |-> a, left |-> f]
  BY DEF StealFrom
<1> HIDE DEF q1, q2, a, d
<1>5. /\ e \in Seq(Task) /\ IsInjective(e)
      /\ ToSet(e) = ToSet(d) \union (ToSet(q) \intersect {r})
  <2>1. r \notin ToSet(d)
    BY <1>1, <1>2, <1>3
  <2> QED
    BY <1>3, <2>1, PutBackToSet
<1> HIDE DEF e
<1>6. /\ f \in Seq(Task) /\ IsInjective(f)
      /\ ToSet(f) = ToSet(e) \union (ToSet(q1) \intersect {x})
  <2>1. CASE x \in ToSet(e)
    <3>1. x \notin ToSet(q1)
      BY <1>1, <1>2, <1>3, <1>5, <2>1
    <3>2. IfIn(q1, x) = <<>>
      BY <1>1, <3>1, InToSet DEF IfIn
    <3>3. f = e
      BY <1>5, <3>2, ConcatEmptySeq
    <3> QED
      BY <1>5, <3>1, <3>3
  <2>2. CASE x \notin ToSet(e)
    BY <1>1, <1>5, <2>2, PutBackToSet
  <2> QED
    BY <2>1, <2>2
<1> HIDE DEF f
<1>7. /\ ToSet(a) \union ToSet(f) = ToSet(q)
      /\ ToSet(a) \intersect ToSet(f) = {}
      /\ r \notin ToSet(a) /\ x \notin ToSet(a)
  BY <1>1, <1>2, <1>3, <1>5, <1>6
<1> QED
  BY <1>3, <1>4, <1>6, <1>7

-----------------------------------------------------------------------------
(* Where a task is, and what that has to do with its state.                *)

Nowhere       == <<0, "nowhere">>
RunnableOf(p) == <<p, "runnable">>
NewOf(p)      == <<p, "new">>
MovedOf(p)    == <<p, "moved">>
InPart        == <<0, "part">>
InStolen      == <<0, "stolen">>

\* The list q is what the place x holds, each task once.
Holds(q, l, x) ==
    /\ IsInjective(q)
    /\ \A t \in Task : t \in ToSet(q) <=> l[t] = x

\* Every list does.
Lists(l) ==
    /\ \A p \in Proc : /\ Holds(runnableQueue[p], l, RunnableOf(p))
                       /\ Holds(newQueue[p], l, NewOf(p))
                       /\ Holds(moved[p], l, MovedOf(p))
    /\ Holds(part, l, InPart)
    /\ Holds(stolen, l, InStolen)

\* Where the thread is when it executes no coroutine.
OffLabel == {"start", "front", "idle", "idleTake", "idlePush", "again", "wait",
             "drain", "serve", "endpass", "passTake", "passPush"}

\* A wakeup is a call: the thread is where it returns to.
Pos(p) == IF pc[p] \in {"push", "interrupt"} THEN caller[p] ELSE pc[p]

\* The running task t of thread p.
RunsTask(l, p, t) ==
    /\ proc[t] = p
    /\ t \in live
    /\ l[t] \in {Nowhere, RunnableOf(p)}
    /\ Pos(p) = "run" => state[t] = "runnable" /\ l[t] = RunnableOf(p)
    /\ pc[p] = "erased" => /\ state[t] = "block" /\ l[t] = Nowhere
                           /\ t \notin syncWait \union ownWait
    /\ Pos(p) = "registered" => state[t] # "done"
    /\ pc[p] = "out" /\ state[t] = "done" => l[t] = RunnableOf(p)
    /\ pc[p] = "unlink" => /\ state[t] = "done" /\ l[t] = RunnableOf(p)
                           /\ nextTask[p] # t
    /\ pc[p] = "recycle" => state[t] = "done" /\ l[t] = Nowhere

\* A thread has a running task exactly while it executes one.
Running(l) ==
    \A p \in Proc :
      /\ runningTask[p] = NoTask <=> Pos(p) \in OffLabel
      /\ runningTask[p] # NoTask => RunsTask(l, p, runningTask[p])

\* A task that waits for a wakeup ...
Waiting(l) ==
    /\ syncWait \intersect ownWait = {}
    /\ \A t \in syncWait \union ownWait :
         state[t] = "block" /\ l[t] = Nowhere /\ t \in live /\ proc[t] \in Proc

\* ... and one whose waker is about to push it are in no list, and each is
\* pushed once.
Waking(l) ==
    \A p \in Proc : pc[p] = "push" =>
      /\ state[wakee[p]] = "runnable" /\ l[wakee[p]] = Nowhere
      /\ wakee[p] \in live /\ proc[wakee[p]] \in Proc
      /\ \A q \in Proc : pc[q] = "push" /\ wakee[q] = wakee[p] => q = p

\* The thread that last ran t still has it, at one of the labels L.
HeldAt(t, L) ==
    proc[t] \in Proc /\ runningTask[proc[t]] = t /\ pc[proc[t]] \in L

\* No task is lost: one that exists is in a list, waits, is being woken, or
\* its thread has yet to register or to recycle it.
Tasks(l) ==
    \A t \in Task :
      /\ state[t] = "done" => HeldAt(t, {"out", "unlink", "recycle"})
      /\ state[t] = "block" =>
           t \in syncWait \union ownWait \/ HeldAt(t, {"erased"})
      /\ l[t] # Nowhere => t \in live
      /\ t \in live /\ l[t] = Nowhere =>
           \/ t \in syncWait \union ownWait
           \/ \E q \in Proc : pc[q] = "push" /\ wakee[q] = t
           \/ HeldAt(t, {"erased", "recycle"})

\* A saved successor is still in its list.
Successors(l) ==
    \A p \in Proc : nextTask[p] # NoTask => l[nextTask[p]] = RunnableOf(p)

\* Every place a task can be.
Loc == Place \union {Nowhere}

\* The places l gives the tasks are those the state says.
Core(l) ==
    /\ Lists(l) /\ Running(l) /\ Waiting(l) /\ Waking(l) /\ Tasks(l)
    /\ Successors(l)

\* The lists that carry tasks from one to another are empty at other times.
Buffers ==
    /\ \A p \in Proc : pc[p] \notin {"idlePush", "passPush"} => moved[p] = <<>>
    /\ dpc # "stealRunnable" => part = <<>>

\* The inductive invariant.
CInv == TInv /\ Buffers /\ \E l \in [Task -> Loc] : Core(l)
-----------------------------------------------------------------------------
(* The lists when tasks change their place.                                *)

\* The places of two lists differ.
LEMMA Places ==
  /\ Nowhere \in Loc /\ InPart \in Loc /\ InStolen \in Loc
  /\ Nowhere # InPart /\ Nowhere # InStolen /\ InPart # InStolen
  /\ \A p \in Proc :
       /\ RunnableOf(p) \in Loc /\ NewOf(p) \in Loc /\ MovedOf(p) \in Loc
       /\ RunnableOf(p) \notin {Nowhere, InPart, InStolen}
       /\ NewOf(p) \notin {Nowhere, InPart, InStolen}
       /\ MovedOf(p) \notin {Nowhere, InPart, InStolen}
       /\ \A q \in Proc :
            /\ RunnableOf(p) # NewOf(q) /\ RunnableOf(p) # MovedOf(q)
            /\ NewOf(p) # MovedOf(q)
            /\ p # q => /\ RunnableOf(p) # RunnableOf(q) /\ NewOf(p) # NewOf(q)
                        /\ MovedOf(p) # MovedOf(q)
  BY DEF Nowhere, InPart, InStolen, RunnableOf, NewOf, MovedOf, Loc, Place

\* A list that no moved task enters or leaves.
LEMMA HoldsSame ==
  ASSUME NEW q, NEW l, NEW m, NEW x, Holds(q, l, x),
         \A t \in Task : m[t] = x <=> l[t] = x
  PROVE  Holds(q, m, x)
  BY DEF Holds

\* push_back of a task that comes from another place.
LEMMA HoldsAppend ==
  ASSUME NEW q \in Seq(Task), NEW l, NEW m, NEW x, Holds(q, l, x),
         NEW t \in Task, l[t] # x, m[t] = x,
         \A u \in Task \ {t} : m[u] = l[u]
  PROVE  Holds(Append(q, t), m, x)
<1>1. t \notin ToSet(q)
  BY DEF Holds
<1>2. /\ IsInjective(Append(q, t))
      /\ ToSet(Append(q, t)) = ToSet(q) \union {t}
  BY <1>1, AppendToSet DEF Holds
<1> QED
  BY <1>2 DEF Holds

\* erase() of a task that goes to another place.
LEMMA HoldsErase ==
  ASSUME NEW q \in Seq(Task), NEW l, NEW m, NEW x, Holds(q, l, x),
         NEW t \in Task, m[t] # x, \A u \in Task \ {t} : m[u] = l[u]
  PROVE  Holds(Erase(q, t), m, x)
<1>1. /\ IsInjective(Erase(q, t))
      /\ ToSet(Erase(q, t)) = ToSet(q) \ {t}
  BY EraseToSet DEF Holds
<1> QED
  BY <1>1 DEF Holds

\* One list is moved to the end of another.
LEMMA HoldsConcat ==
  ASSUME NEW q \in Seq(Task), NEW r \in Seq(Task), NEW l, NEW m, NEW x,
         Holds(q, l, x), IsInjective(r), \A t \in ToSet(r) : l[t] # x,
         \A t \in Task : m[t] = IF t \in ToSet(r) THEN x ELSE l[t]
  PROVE  Holds(q \o r, m, x)
<1>1. ToSet(q) \intersect ToSet(r) = {}
  <2>1. ToSet(q) \subseteq Task
    BY InToSet
  <2> QED
    BY <2>1 DEF Holds
<1>2. /\ IsInjective(q \o r)
      /\ ToSet(q \o r) = ToSet(q) \union ToSet(r)
  BY <1>1, ConcatToSet DEF Holds
<1> QED
  BY <1>2 DEF Holds

\* What remains in a list when the tasks of another one have left it.
LEMMA HoldsRest ==
  ASSUME NEW q, NEW a, NEW b, NEW l, NEW m, NEW x, NEW y,
         Holds(q, l, x), IsInjective(b), ToSet(a) \union ToSet(b) = ToSet(q),
         ToSet(a) \intersect ToSet(b) = {}, x # y,
         \A t \in Task : m[t] = IF t \in ToSet(a) THEN y ELSE l[t]
  PROVE  Holds(b, m, x)
  BY DEF Holds

\* The empty list.
LEMMA HoldsEmpty ==
  ASSUME NEW m, NEW x, \A t \in Task : m[t] # x
  PROVE  Holds(<<>>, m, x)
  BY EmptyToSet DEF Holds

-----------------------------------------------------------------------------
\* A step that only moves tasks no thread has a pointer to from list to list,
\* and threads that execute no coroutine from label to label.
LEMMA Relocation ==
  ASSUME TypeOK, NEW l, NEW m, Core(l), Lists(m)',
         UNCHANGED <<runningTask, nextTask, wakee, caller, state, proc, live,
                     syncWait, ownWait>>,
         \A p \in Proc : \/ pc'[p] = pc[p]
                         \/ pc[p] \in OffLabel /\ pc'[p] \in OffLabel,
         \A t \in Task :
           \/ m[t] = l[t]
           \/ /\ m[t] # Nowhere /\ l[t] # Nowhere
              /\ \A p \in Proc : runningTask[p] # t /\ nextTask[p] # t
  PROVE  Core(m)'
<1> USE DEF Core
<1>0. \A p \in Proc :
        /\ Pos(p)' = Pos(p) \/ (Pos(p) \in OffLabel /\ Pos(p)' \in OffLabel)
        /\ \A L \in {"erased", "registered", "out", "unlink", "recycle", "push"} :
             pc'[p] = L <=> pc[p] = L
  BY DEF Pos, OffLabel
<1>1. Running(m)'
  <2> SUFFICES ASSUME NEW p \in Proc
               PROVE  /\ runningTask[p] = NoTask <=> Pos(p)' \in OffLabel
                      /\ runningTask[p] # NoTask => RunsTask(m, p, runningTask[p])'
    BY DEF Running
  <2>1. runningTask[p] = NoTask <=> Pos(p)' \in OffLabel
    BY <1>0 DEF Running
  <2>2. ASSUME runningTask[p] # NoTask PROVE RunsTask(m, p, runningTask[p])'
    <3>1. RunsTask(l, p, runningTask[p]) /\ runningTask[p] \in Task
      BY <2>2 DEF Running, TypeOK
    <3>2. m[runningTask[p]] = l[runningTask[p]]
      BY <3>1
    <3>3. Pos(p)' = Pos(p)
      BY <1>0, <2>2 DEF Running
    <3> QED
      BY <1>0, <3>1, <3>2, <3>3 DEF RunsTask
  <2> QED
    BY <2>1, <2>2
<1>2. Waiting(m)'
  BY DEF Waiting, TypeOK
<1>3. Waking(m)'
  <2> SUFFICES ASSUME NEW p \in Proc, pc'[p] = "push"
               PROVE  /\ state[wakee[p]] = "runnable" /\ m[wakee[p]] = Nowhere
                      /\ wakee[p] \in live /\ proc[wakee[p]] \in Proc
                      /\ \A q \in Proc : pc'[q] = "push" /\ wakee[q] = wakee[p]
                                           => q = p
    BY DEF Waking
  <2>1. pc[p] = "push" /\ \A q \in Proc : pc'[q] = "push" => pc[q] = "push"
    BY <1>0
  <2>2. /\ state[wakee[p]] = "runnable" /\ l[wakee[p]] = Nowhere
        /\ wakee[p] \in live /\ proc[wakee[p]] \in Proc
        /\ \A q \in Proc : pc[q] = "push" /\ wakee[q] = wakee[p] => q = p
    BY <2>1 DEF Waking
  <2>3. m[wakee[p]] = Nowhere
    BY <2>2 DEF TypeOK
  <2> QED
    BY <2>1, <2>2, <2>3
<1>4. Tasks(m)'
  <2>1. \A t \in Task : m[t] = Nowhere <=> l[t] = Nowhere
    OBVIOUS
  <2>2. \A t \in Task : /\ HeldAt(t, {"out", "unlink", "recycle"})
                             => HeldAt(t, {"out", "unlink", "recycle"})'
                        /\ HeldAt(t, {"erased"}) => HeldAt(t, {"erased"})'
                        /\ HeldAt(t, {"erased", "recycle"})
                             => HeldAt(t, {"erased", "recycle"})'
    BY <1>0 DEF HeldAt
  <2>3. \A t \in Task : (\E q \in Proc : pc[q] = "push" /\ wakee[q] = t)
                          => (\E q \in Proc : pc'[q] = "push" /\ wakee[q] = t)
    BY <1>0
  <2> QED
    BY <2>1, <2>2, <2>3 DEF Tasks
<1>5. Successors(m)'
  BY DEF Successors, TypeOK
<1> QED
  BY <1>1, <1>2, <1>3, <1>4, <1>5

-----------------------------------------------------------------------------
\* A task of a list has no thread that runs it or saved it as a successor,
\* unless the list is a runnableQueue_.
LEMMA Unreferenced ==
  ASSUME TypeOK, NEW l, Core(l), NEW t \in Task, l[t] # Nowhere,
         \A p \in Proc : l[t] = RunnableOf(p)
                           => runningTask[p] # t /\ nextTask[p] # t
  PROVE  \A p \in Proc : runningTask[p] # t /\ nextTask[p] # t
<1> SUFFICES ASSUME NEW p \in Proc, runningTask[p] = t \/ nextTask[p] = t
             PROVE  l[t] = RunnableOf(p)
  OBVIOUS
<1>1. t # NoTask
  BY ProcesserAssumption
<1>2. CASE runningTask[p] = t
  BY <1>1, <1>2 DEF Core, Running, RunsTask
<1>3. CASE nextTask[p] = t
  BY <1>1, <1>3 DEF Core, Successors
<1> QED
  BY <1>2, <1>3

\* A step that moves the tasks of s from one place to another one.
LEMMA Transfer ==
  ASSUME TypeOK, NEW l \in [Task -> Loc], Core(l), NEW s \in Seq(Task),
         NEW x \in Loc, x # Nowhere,
         \A t \in ToSet(s) :
           /\ l[t] # Nowhere
           /\ \A p \in Proc : l[t] = RunnableOf(p)
                                => runningTask[p] # t /\ nextTask[p] # t,
         NEW m, m = [t \in Task |-> IF t \in ToSet(s) THEN x ELSE l[t]],
         Lists(m)',
         UNCHANGED <<runningTask, nextTask, wakee, caller, state, proc, live,
                     syncWait, ownWait>>,
         \A p \in Proc : \/ pc'[p] = pc[p]
                         \/ pc[p] \in OffLabel /\ pc'[p] \in OffLabel
  PROVE  \E k \in [Task -> Loc] : Core(k)'
<1>1. m \in [Task -> Loc]
  OBVIOUS
<1>2. \A t \in Task :
           \/ m[t] = l[t]
           \/ /\ m[t] # Nowhere /\ l[t] # Nowhere
              /\ \A p \in Proc : runningTask[p] # t /\ nextTask[p] # t
  <2> SUFFICES ASSUME NEW t \in Task, t \in ToSet(s)
               PROVE  /\ m[t] # Nowhere /\ l[t] # Nowhere
                      /\ \A p \in Proc : runningTask[p] # t /\ nextTask[p] # t
    OBVIOUS
  <2> QED
    BY Unreferenced
<1>3. Core(m)'
  BY <1>2, Relocation
<1> QED
  BY <1>1, <1>3

\* newQueue_.pop_all().
LEMMA TakeCore ==
  ASSUME TypeOK, Buffers, NEW l \in [Task -> Loc], Core(l), NEW p \in Proc,
         AddNewTasksTake(p)
  PROVE  \E k \in [Task -> Loc] : Core(k)'
<1> USE DEF procVars, wakeVars, taskVars, avgVars
<1> DEFINE s == newQueue[p]
<1>1. s \in Seq(Task) /\ ToSet(s) \subseteq Task
  BY InToSet DEF TypeOK
<1>2. PICK m : m = [t \in Task |-> IF t \in ToSet(s) THEN MovedOf(p) ELSE l[t]]
  OBVIOUS
<1>3. /\ \A t \in ToSet(s) : l[t] = NewOf(p) /\ m[t] = MovedOf(p)
      /\ \A t \in Task \ ToSet(s) : m[t] = l[t] /\ l[t] # NewOf(p)
  BY <1>1, <1>2 DEF Core, Lists, Holds
<1>4. /\ moved[p] = <<>>
      /\ newQueue' = [newQueue EXCEPT ![p] = <<>>]
      /\ moved' = [moved EXCEPT ![p] = newQueue[p]]
      /\ UNCHANGED <<runnableQueue, part, stolen>>
  BY DEF Buffers, AddNewTasksTake
<1>5. Lists(m)'
  <2> USE Places
  <2>1. \A q \in Proc : Holds(runnableQueue[q], m, RunnableOf(q))
    BY <1>1, <1>3, HoldsSame DEF Core, Lists
  <2>2. \A q \in Proc : Holds(newQueue'[q], m, NewOf(q))
    <3> SUFFICES ASSUME NEW q \in Proc PROVE Holds(newQueue'[q], m, NewOf(q))
      OBVIOUS
    <3>1. CASE q = p
      <4>1. \A t \in Task : m[t] # NewOf(p)
        BY <1>1, <1>3
      <4> QED
        BY <1>4, <3>1, <4>1, HoldsEmpty DEF TypeOK
    <3>2. CASE q # p
      <4>1. \A t \in Task : m[t] = NewOf(q) <=> l[t] = NewOf(q)
        BY <1>1, <1>3, <3>2
      <4>2. newQueue'[q] = newQueue[q]
        BY <1>4, <3>2 DEF TypeOK
      <4> QED
        BY <4>1, <4>2, HoldsSame DEF Core, Lists
    <3> QED
      BY <3>1, <3>2
  <2>3. \A q \in Proc : Holds(moved'[q], m, MovedOf(q))
    <3> SUFFICES ASSUME NEW q \in Proc PROVE Holds(moved'[q], m, MovedOf(q))
      OBVIOUS
    <3>1. CASE q = p
      <4>1. \A t \in Task : l[t] # MovedOf(p)
        BY <1>4, EmptyToSet DEF Core, Lists, Holds
      <4>2. moved'[p] = s
        BY <1>4 DEF TypeOK
      <4> QED
        BY <1>3, <3>1, <4>1, <4>2 DEF Core, Lists, Holds
    <3>2. CASE q # p
      <4>1. \A t \in Task : m[t] = MovedOf(q) <=> l[t] = MovedOf(q)
        BY <1>1, <1>3, <3>2
      <4>2. moved'[q] = moved[q]
        BY <1>4, <3>2 DEF TypeOK
      <4> QED
        BY <4>1, <4>2, HoldsSame DEF Core, Lists
    <3> QED
      BY <3>1, <3>2
  <2>4. Holds(part, m, InPart) /\ Holds(stolen, m, InStolen)
    BY <1>1, <1>3, HoldsSame DEF Core, Lists
  <2> QED
    BY <1>4, <2>1, <2>2, <2>3, <2>4 DEF Lists
<1>6. \A q \in Proc : \/ pc'[q] = pc[q]
                      \/ pc[q] \in OffLabel /\ pc'[q] \in OffLabel
  <2>1. pc[p] \in OffLabel /\ \E L \in OffLabel : Goto(p, L)
    BY DEF AddNewTasksTake, OffLabel
  <2> QED
    BY <2>1 DEF Goto, TypeOK
<1>7. \A t \in ToSet(s) : l[t] # Nowhere /\ \A q \in Proc : l[t] # RunnableOf(q)
  BY <1>3, Places
<1>8. UNCHANGED <<runningTask, nextTask, wakee, caller, state, proc, live,
                  syncWait, ownWait>>
  BY DEF AddNewTasksTake
<1> QED
  BY <1>1, <1>2, <1>5, <1>6, <1>7, <1>8, Places, Transfer

\* runnableQueue_.push() of the new tasks.
LEMMA PushCore ==
  ASSUME TypeOK, NEW l \in [Task -> Loc], Core(l), NEW p \in Proc,
         AddNewTasksPush(p)
  PROVE  \E k \in [Task -> Loc] : Core(k)'
<1> USE DEF procVars, wakeVars, taskVars, avgVars
<1> DEFINE s == moved[p]
<1>1. s \in Seq(Task) /\ ToSet(s) \subseteq Task
  BY InToSet DEF TypeOK
<1>2. PICK m : m = [t \in Task |-> IF t \in ToSet(s) THEN RunnableOf(p) ELSE l[t]]
  OBVIOUS
<1>3. /\ \A t \in ToSet(s) : l[t] = MovedOf(p) /\ m[t] = RunnableOf(p)
      /\ \A t \in Task \ ToSet(s) : m[t] = l[t] /\ l[t] # MovedOf(p)
  BY <1>1, <1>2 DEF Core, Lists, Holds
<1>4. /\ runnableQueue' = [runnableQueue EXCEPT ![p] = @ \o moved[p]]
      /\ moved' = [moved EXCEPT ![p] = <<>>]
      /\ UNCHANGED <<newQueue, part, stolen>>
  BY DEF AddNewTasksPush
<1>5. Lists(m)'
  <2> USE Places
  <2>1. \A q \in Proc : Holds(newQueue[q], m, NewOf(q))
    BY <1>1, <1>3, HoldsSame DEF Core, Lists
  <2>2. \A q \in Proc : Holds(moved'[q], m, MovedOf(q))
    <3> SUFFICES ASSUME NEW q \in Proc PROVE Holds(moved'[q], m, MovedOf(q))
      OBVIOUS
    <3>1. CASE q = p
      <4>1. \A t \in Task : m[t] # MovedOf(p)
        BY <1>1, <1>3
      <4> QED
        BY <1>4, <3>1, <4>1, HoldsEmpty DEF TypeOK
    <3>2. CASE q # p
      <4>1. \A t \in Task : m[t] = MovedOf(q) <=> l[t] = MovedOf(q)
        BY <1>1, <1>3, <3>2
      <4>2. moved'[q] = moved[q]
        BY <1>4, <3>2 DEF TypeOK
      <4> QED
        BY <4>1, <4>2, HoldsSame DEF Core, Lists
    <3> QED
      BY <3>1, <3>2
  <2>3. \A q \in Proc : Holds(runnableQueue'[q], m, RunnableOf(q))
    <3> SUFFICES ASSUME NEW q \in Proc
                 PROVE  Holds(runnableQueue'[q], m, RunnableOf(q))
      OBVIOUS
    <3>1. CASE q = p
      <4>1. runnableQueue'[p] = runnableQueue[p] \o s
        BY <1>4 DEF TypeOK
      <4>2. /\ runnableQueue[p] \in Seq(Task)
            /\ Holds(runnableQueue[p], l, RunnableOf(p)) /\ IsInjective(s)
        BY DEF Core, Lists, Holds, TypeOK
      <4>3. /\ \A t \in ToSet(s) : l[t] # RunnableOf(p)
            /\ \A t \in Task : m[t] = IF t \in ToSet(s) THEN RunnableOf(p) ELSE l[t]
        BY <1>2, <1>3
      <4> HIDE DEF s
      <4> QED
        BY <1>1, <3>1, <4>1, <4>2, <4>3, HoldsConcat
    <3>2. CASE q # p
      <4>1. \A t \in Task : m[t] = RunnableOf(q) <=> l[t] = RunnableOf(q)
        BY <1>1, <1>3, <3>2
      <4>2. runnableQueue'[q] = runnableQueue[q]
        BY <1>4, <3>2 DEF TypeOK
      <4> QED
        BY <4>1, <4>2, HoldsSame DEF Core, Lists
    <3> QED
      BY <3>1, <3>2
  <2>4. Holds(part, m, InPart) /\ Holds(stolen, m, InStolen)
    BY <1>1, <1>3, HoldsSame DEF Core, Lists
  <2> QED
    BY <1>4, <2>1, <2>2, <2>3, <2>4 DEF Lists
<1>6. \A q \in Proc : \/ pc'[q] = pc[q]
                      \/ pc[q] \in OffLabel /\ pc'[q] \in OffLabel
  <2>1. pc[p] \in OffLabel /\ \E L \in OffLabel : Goto(p, L)
    BY DEF AddNewTasksPush, OffLabel
  <2> QED
    BY <2>1 DEF Goto, TypeOK
<1>7. \A t \in ToSet(s) : l[t] # Nowhere /\ \A q \in Proc : l[t] # RunnableOf(q)
  BY <1>3, Places
<1>8. UNCHANGED <<runningTask, nextTask, wakee, caller, state, proc, live,
                  syncWait, ownWait>>
  BY DEF AddNewTasksPush
<1> QED
  BY <1>1, <1>2, <1>5, <1>6, <1>7, <1>8, Places, Transfer

\* Steal takes from newQueue_.
LEMMA StealNewCore ==
  ASSUME TypeOK, Buffers, NEW l \in [Task -> Loc], Core(l), StealNew
  PROVE  \E k \in [Task -> Loc] : Core(k)'
<1> USE DEF procVars, wakeVars, taskVars
<1> DEFINE n == cnt[di] - Avg
           s == PopBack(newQueue[di], n)
           d == DropBack(newQueue[di], n)
<1>0. newQueue[di] \in Seq(Task) /\ IsInjective(newQueue[di]) /\ di \in Proc
  BY DEF Core, Lists, Holds, TypeOK
<1>1. n \in Nat
  BY AvgType DEF StealNew, TypeOK
<1> HIDE DEF n
<1>2. /\ s \in Seq(Task) /\ d \in Seq(Task) /\ IsInjective(s) /\ IsInjective(d)
      /\ ToSet(s) \union ToSet(d) = ToSet(newQueue[di])
      /\ ToSet(s) \intersect ToSet(d) = {}
  BY <1>0, <1>1, BackToSet
<1>3. /\ newQueue' = [newQueue EXCEPT ![di] = d]
      /\ \/ stolen' = stolen \o s /\ part' = part
         \/ stolen' = stolen /\ part' = s
      /\ UNCHANGED <<runnableQueue, moved, runningTask, nextTask, wakee, caller,
                     state, proc, live, syncWait, ownWait, pc>>
  BY DEF StealNew, n
<1>4. part = <<>>
  BY DEF Buffers, StealNew
<1> HIDE DEF s, d
<1>5. ToSet(s) \subseteq Task /\ \A t \in ToSet(s) : l[t] = NewOf(di)
  BY <1>0, <1>2, InToSet DEF Core, Lists, Holds
<1>6. ASSUME NEW x \in {InPart, InStolen}, NEW m,
             m = [t \in Task |-> IF t \in ToSet(s) THEN x ELSE l[t]]
      PROVE  /\ \A p \in Proc : /\ Holds(runnableQueue[p], m, RunnableOf(p))
                                /\ Holds(newQueue'[p], m, NewOf(p))
                                /\ Holds(moved[p], m, MovedOf(p))
             /\ x # InPart => Holds(part, m, InPart)
             /\ x # InStolen => Holds(stolen, m, InStolen)
  <2> USE Places
  <2>1. /\ \A t \in ToSet(s) : m[t] = x
        /\ \A t \in Task \ ToSet(s) : m[t] = l[t]
    BY <1>5, <1>6
  <2>2. \A p \in Proc : /\ Holds(runnableQueue[p], m, RunnableOf(p))
                        /\ Holds(moved[p], m, MovedOf(p))
    BY <1>0, <1>5, <2>1, HoldsSame DEF Core, Lists
  <2>3. ASSUME NEW p \in Proc PROVE Holds(newQueue'[p], m, NewOf(p))
    <3>1. CASE p = di
      <4>1. newQueue'[p] = d
        BY <1>3, <3>1 DEF TypeOK
      <4>2. Holds(newQueue[di], l, NewOf(di)) /\ x # NewOf(di)
        BY <1>0 DEF Core, Lists
      <4> QED
        BY <1>2, <1>6, <3>1, <4>1, <4>2, HoldsRest
    <3>2. CASE p # di
      <4>1. newQueue'[p] = newQueue[p]
        BY <1>3, <3>2 DEF TypeOK
      <4>2. \A t \in Task : m[t] = NewOf(p) <=> l[t] = NewOf(p)
        BY <1>0, <1>5, <2>1, <3>2
      <4> QED
        BY <4>1, <4>2, HoldsSame DEF Core, Lists
    <3> QED
      BY <3>1, <3>2
  <2>4. x # InPart => Holds(part, m, InPart)
    BY <1>0, <1>5, <2>1, HoldsSame DEF Core, Lists
  <2>5. x # InStolen => Holds(stolen, m, InStolen)
    BY <1>0, <1>5, <2>1, HoldsSame DEF Core, Lists
  <2> QED
    BY <2>2, <2>3, <2>4, <2>5
<1>7. \A t \in ToSet(s) : l[t] # Nowhere /\ \A p \in Proc : l[t] # RunnableOf(p)
  BY <1>0, <1>5, Places
<1>8. CASE stolen' = stolen \o s /\ part' = part
  <2>1. PICK m : m = [t \in Task |-> IF t \in ToSet(s) THEN InStolen ELSE l[t]]
    OBVIOUS
  <2>2. Holds(stolen \o s, m, InStolen)
    <3>1. /\ Holds(stolen, l, InStolen) /\ stolen \in Seq(Task)
          /\ \A t \in ToSet(s) : l[t] # InStolen
          /\ \A t \in Task : m[t] = IF t \in ToSet(s) THEN InStolen ELSE l[t]
      BY <1>0, <1>5, <2>1, Places DEF Core, Lists, TypeOK
    <3> QED
      BY <1>2, <3>1, HoldsConcat
  <2>3. Lists(m)'
    BY <1>3, <1>6, <1>8, <2>1, <2>2, Places DEF Lists
  <2> QED
    BY <1>2, <1>3, <1>7, <2>1, <2>3, Places, Transfer
<1>9. CASE stolen' = stolen /\ part' = s
  <2>1. PICK m : m = [t \in Task |-> IF t \in ToSet(s) THEN InPart ELSE l[t]]
    OBVIOUS
  <2>2. Holds(s, m, InPart)
    <3>1. \A t \in Task : l[t] # InPart
      BY <1>4, EmptyToSet DEF Core, Lists, Holds
    <3> QED
      BY <1>2, <1>5, <2>1, <3>1 DEF Holds
  <2>3. Lists(m)'
    BY <1>3, <1>6, <1>9, <2>1, <2>2, Places DEF Lists
  <2> QED
    BY <1>2, <1>3, <1>7, <2>1, <2>3, Places, Transfer
<1> QED
  BY <1>3, <1>8, <1>9

\* Steal takes from runnableQueue_, but neither the running task nor its saved
\* successor.
LEMMA StealRunnableCore ==
  ASSUME TInv, NEW l \in [Task -> Loc], Core(l), StealRunnable
  PROVE  \E k \in [Task -> Loc] : Core(k)'
<1> USE DEF procVars, wakeVars, taskVars
<1>0. TypeOK /\ di \in Proc /\ runnableQueue[di] \in Seq(Task)
      /\ IsInjective(runnableQueue[di])
  BY DEF Core, Lists, Holds, TypeOK, TInv
<1> DEFINE n == cnt[di] - Avg - Len(part)
           f == StealFrom(runnableQueue[di], runningTask[di], nextTask[di], n)
           s == f.taken \o part
<1>1. n \in Nat
  BY AvgType DEF StealRunnable, TypeOK, TInv, StealInv
<1> HIDE DEF n
<1>2. /\ f.taken \in Seq(Task) /\ f.left \in Seq(Task)
      /\ IsInjective(f.taken) /\ IsInjective(f.left)
      /\ ToSet(f.taken) \union ToSet(f.left) = ToSet(runnableQueue[di])
      /\ ToSet(f.taken) \intersect ToSet(f.left) = {}
      /\ runningTask[di] \notin ToSet(f.taken) /\ nextTask[di] \notin ToSet(f.taken)
  BY <1>0, <1>1, StealFromToSet
<1>3. /\ runnableQueue' = [runnableQueue EXCEPT ![di] = f.left]
      /\ stolen' = (stolen \o f.taken) \o part /\ part' = <<>>
      /\ UNCHANGED <<newQueue, moved, runningTask, nextTask, wakee, caller,
                     state, proc, live, syncWait, ownWait, pc>>
  BY DEF StealRunnable, n
<1> HIDE DEF f
<1>4. /\ part \in Seq(Task) /\ stolen \in Seq(Task)
      /\ ToSet(f.taken) \subseteq Task /\ ToSet(part) \subseteq Task
      /\ \A t \in ToSet(f.taken) : l[t] = RunnableOf(di)
      /\ \A t \in Task : t \in ToSet(part) <=> l[t] = InPart
      /\ IsInjective(part)
  <2>1. /\ part \in Seq(Task) /\ stolen \in Seq(Task)
    BY <1>0 DEF TypeOK
  <2> QED
    BY <1>0, <1>2, <2>1, InToSet DEF Core, Lists, Holds
<1>5. /\ s \in Seq(Task) /\ IsInjective(s)
      /\ ToSet(s) = ToSet(f.taken) \union ToSet(part)
      /\ stolen' = stolen \o s
  <2>1. ToSet(f.taken) \intersect ToSet(part) = {}
    BY <1>0, <1>4, Places
  <2>2. \A a \in Seq(Task) : (stolen \o a) \o part = stolen \o (a \o part)
    BY <1>4, ConcatAssociative
  <2> DEFINE a == f.taken
  <2>3. a \in Seq(Task) /\ IsInjective(a) /\ ToSet(a) \intersect ToSet(part) = {}
    BY <1>2, <2>1
  <2> HIDE DEF a
  <2>4. /\ a \o part \in Seq(Task) /\ IsInjective(a \o part)
        /\ ToSet(a \o part) = ToSet(a) \union ToSet(part)
    BY <1>4, <2>3, ConcatToSet
  <2>5. s = a \o part /\ stolen' = (stolen \o a) \o part
    BY <1>3 DEF a
  <2>6. stolen' = stolen \o s
    BY <2>2, <2>3, <2>5
  <2> QED
    BY <2>4, <2>5, <2>6 DEF a
<1> HIDE DEF s
<1>6. PICK m : m = [t \in Task |-> IF t \in ToSet(s) THEN InStolen ELSE l[t]]
  OBVIOUS
<1>7. /\ \A t \in ToSet(f.taken) : m[t] = InStolen
      /\ \A t \in ToSet(part) : m[t] = InStolen
      /\ \A t \in Task : t \notin ToSet(f.taken) /\ t \notin ToSet(part) => m[t] = l[t]
  BY <1>4, <1>5, <1>6
<1>8. Lists(m)'
  <2> USE Places
  <2>1. \A p \in Proc : Holds(newQueue[p], m, NewOf(p)) /\ Holds(moved[p], m, MovedOf(p))
    BY <1>0, <1>4, <1>7, HoldsSame DEF Core, Lists
  <2>2. ASSUME NEW p \in Proc PROVE Holds(runnableQueue'[p], m, RunnableOf(p))
    <3>1. CASE p = di
      <4>1. runnableQueue'[p] = f.left
        BY <1>0, <1>3, <3>1 DEF TypeOK
      <4>2. \A t \in Task : t \in ToSet(runnableQueue[di]) <=> l[t] = RunnableOf(di)
        BY <1>0 DEF Core, Lists, Holds
      <4>3. ASSUME NEW t \in Task
            PROVE  t \in ToSet(f.left) <=> m[t] = RunnableOf(di)
        <5>1. CASE t \in ToSet(part)
          BY <1>0, <1>2, <1>4, <1>7, <4>2, <5>1
        <5>2. CASE t \notin ToSet(part)
          BY <1>0, <1>2, <1>4, <1>7, <4>2, <5>2
        <5> QED
          BY <5>1, <5>2
      <4> QED
        BY <1>2, <3>1, <4>1, <4>3 DEF Holds
    <3>2. CASE p # di
      <4>1. runnableQueue'[p] = runnableQueue[p]
        BY <1>0, <1>3, <3>2 DEF TypeOK
      <4>2. \A t \in Task : m[t] = RunnableOf(p) <=> l[t] = RunnableOf(p)
        BY <1>0, <1>4, <1>7, <3>2
      <4> QED
        BY <4>1, <4>2, HoldsSame DEF Core, Lists
    <3> QED
      BY <3>1, <3>2
  <2>3. Holds(<<>>, m, InPart)
    <3>1. \A t \in Task : m[t] # InPart
      BY <1>0, <1>4, <1>7
    <3> QED
      BY <3>1, HoldsEmpty
  <2>4. Holds(stolen \o s, m, InStolen)
    <3>1. /\ Holds(stolen, l, InStolen)
          /\ \A t \in ToSet(s) : l[t] # InStolen
          /\ \A t \in Task : m[t] = IF t \in ToSet(s) THEN InStolen ELSE l[t]
      BY <1>0, <1>4, <1>5, <1>6 DEF Core, Lists
    <3> QED
      BY <1>4, <1>5, <3>1, HoldsConcat
  <2> QED
    BY <1>3, <1>5, <2>1, <2>2, <2>3, <2>4 DEF Lists
<1>9. \A t \in ToSet(s) :
        /\ l[t] # Nowhere
        /\ \A p \in Proc : l[t] = RunnableOf(p)
                             => runningTask[p] # t /\ nextTask[p] # t
  BY <1>0, <1>2, <1>4, <1>5, Places
<1> QED
  BY <1>0, <1>3, <1>5, <1>6, <1>8, <1>9, Places, Transfer

\* Stolen tasks are given to a newQueue_: a first part of them, or all.
LEMMA GiveCore ==
  ASSUME TypeOK, NEW l \in [Task -> Loc], Core(l), NEW p \in Proc,
         NEW k \in 0 .. Len(stolen),
         newQueue' = [newQueue EXCEPT ![p] = @ \o SubSeq(stolen, 1, k)],
         stolen' = SubSeq(stolen, k + 1, Len(stolen)),
         UNCHANGED <<runnableQueue, moved, part, runningTask, nextTask, wakee,
                     caller, state, proc, live, syncWait, ownWait>>,
         \A q \in Proc : \/ pc'[q] = pc[q]
                         \/ pc[q] \in OffLabel /\ pc'[q] \in OffLabel
  PROVE  \E j \in [Task -> Loc] : Core(j)'
<1> DEFINE s == SubSeq(stolen, 1, k)
           r == SubSeq(stolen, k + 1, Len(stolen))
<1>1. stolen \in Seq(Task) /\ IsInjective(stolen)
  BY DEF TypeOK, Core, Lists, Holds
<1>2. /\ s \in Seq(Task) /\ r \in Seq(Task) /\ IsInjective(s) /\ IsInjective(r)
      /\ ToSet(s) \union ToSet(r) = ToSet(stolen)
      /\ ToSet(s) \intersect ToSet(r) = {}
  BY <1>1, CutToSet
<1>3. newQueue' = [newQueue EXCEPT ![p] = @ \o s] /\ stolen' = r
  OBVIOUS
<1> HIDE DEF s, r
<1>4. ToSet(s) \subseteq Task /\ \A t \in ToSet(s) : l[t] = InStolen
  BY <1>2, InToSet DEF Core, Lists, Holds
<1>5. PICK m : m = [t \in Task |-> IF t \in ToSet(s) THEN NewOf(p) ELSE l[t]]
  OBVIOUS
<1>6. /\ \A t \in ToSet(s) : m[t] = NewOf(p)
      /\ \A t \in Task \ ToSet(s) : m[t] = l[t]
  BY <1>4, <1>5
<1>7. Lists(m)'
  <2> USE Places
  <2>1. \A q \in Proc : /\ Holds(runnableQueue[q], m, RunnableOf(q))
                        /\ Holds(moved[q], m, MovedOf(q))
    BY <1>4, <1>6, HoldsSame DEF Core, Lists
  <2>2. ASSUME NEW q \in Proc PROVE Holds(newQueue'[q], m, NewOf(q))
    <3>1. CASE q = p
      <4>1. newQueue'[q] = newQueue[p] \o s
        BY <1>3, <3>1 DEF TypeOK
      <4>2. /\ newQueue[p] \in Seq(Task)
            /\ Holds(newQueue[p], l, NewOf(p))
            /\ \A t \in ToSet(s) : l[t] # NewOf(p)
            /\ \A t \in Task : m[t] = IF t \in ToSet(s) THEN NewOf(p) ELSE l[t]
        BY <1>4, <1>5 DEF Core, Lists, TypeOK
      <4>3. Holds(newQueue[p] \o s, m, NewOf(p))
        BY <1>2, <4>2, HoldsConcat
      <4> QED
        BY <3>1, <4>1, <4>3
    <3>2. CASE q # p
      <4>1. newQueue'[q] = newQueue[q]
        BY <1>3, <3>2 DEF TypeOK
      <4>2. \A t \in Task : m[t] = NewOf(q) <=> l[t] = NewOf(q)
        BY <1>4, <1>6, <3>2
      <4> QED
        BY <4>1, <4>2, HoldsSame DEF Core, Lists
    <3> QED
      BY <3>1, <3>2
  <2>3. Holds(part, m, InPart)
    BY <1>4, <1>6, HoldsSame DEF Core, Lists
  <2>4. Holds(r, m, InStolen)
    BY <1>2, <1>5, HoldsRest DEF Core, Lists
  <2> QED
    BY <1>3, <2>1, <2>2, <2>3, <2>4 DEF Lists
<1>8. \A t \in ToSet(s) : l[t] # Nowhere /\ \A q \in Proc : l[t] # RunnableOf(q)
  BY <1>4, Places
<1> QED
  BY <1>2, <1>5, <1>7, <1>8, Places, Transfer

-----------------------------------------------------------------------------
(* The steps of the threads.                                               *)

\* The lists are as before, and so is every task's place.
LEMMA ListsSame ==
  ASSUME NEW l, Lists(l), UNCHANGED <<runnableQueue, newQueue, moved, part, stolen>>
  PROVE  Lists(l)'
  BY DEF Lists

\* A task in a runnableQueue_ that its thread is not running is ready: nobody
\* waits for it, runs it or is about to push it.
LEMMA ReadyTask ==
  ASSUME TypeOK, NEW l, Core(l), NEW p \in Proc, NEW t \in Task,
         l[t] = RunnableOf(p), runningTask[p] # t
  PROVE  /\ state[t] = "runnable" /\ t \in live
         /\ t \notin syncWait \union ownWait
         /\ \A q \in Proc : runningTask[q] # t
         /\ \A q \in Proc : pc[q] = "push" => wakee[q] # t
<1>1. l[t] # Nowhere /\ \A q \in Proc : q # p => l[t] # RunnableOf(q)
  BY Places
<1>2. \A q \in Proc : runningTask[q] # t
  BY <1>1, ProcesserAssumption DEF Core, Running, RunsTask
<1>3. t \notin syncWait \union ownWait
  BY <1>1 DEF Core, Waiting
<1>4. state[t] = "runnable"
  <2>1. ~ HeldAt(t, {"out", "unlink", "recycle"}) /\ ~ HeldAt(t, {"erased"})
    BY <1>2 DEF HeldAt
  <2>2. state[t] # "done" /\ state[t] # "block"
    BY <1>3, <2>1 DEF Core, Tasks
  <2> QED
    BY <2>2 DEF TypeOK
<1>5. \A q \in Proc : pc[q] = "push" => wakee[q] # t
  BY <1>1 DEF Core, Waking
<1>6. t \in live
  BY <1>1 DEF Core, Tasks
<1> QED
  BY <1>2, <1>3, <1>4, <1>5, <1>6

\* A thread takes the next task of its runnableQueue_, either from its idle loop
\* or after the last one has left, suspended or ready.
LEMMA SwapInCore ==
  ASSUME TypeOK, NEW l, Core(l), NEW p \in Proc, NEW t \in Task,
         l[t] = RunnableOf(p), runningTask[p] # t,
         \/ pc[p] \in OffLabel
         \/ pc[p] = "out" /\ state[runningTask[p]] # "done",
         SwapIn(p, t),
         nextTask' \in {nextTask, [nextTask EXCEPT ![p] = NoTask]},
         UNCHANGED <<runnableQueue, newQueue, moved, part, stolen, wakee,
                     caller, live, syncWait, ownWait>>
  PROVE  Core(l)'
<1> USE DEF Core
<1>1. /\ state[t] = "runnable" /\ t \in live
      /\ t \notin syncWait \union ownWait
      /\ \A q \in Proc : runningTask[q] # t
      /\ \A q \in Proc : pc[q] = "push" => wakee[q] # t
  BY ReadyTask
<1>2. /\ runningTask' = [runningTask EXCEPT ![p] = t]
      /\ state' = state
      /\ proc' = [proc EXCEPT ![t] = p]
      /\ pc' = [pc EXCEPT ![p] = "run"]
  BY <1>1 DEF SwapIn, Goto, TypeOK
<1>3. /\ runningTask'[p] = t /\ pc'[p] = "run" /\ proc'[t] = p
      /\ \A q \in Proc \ {p} : runningTask'[q] = runningTask[q] /\ pc'[q] = pc[q]
      /\ \A u \in Task \ {t} : proc'[u] = proc[u]
      /\ Pos(p)' = "run" /\ \A q \in Proc \ {p} : Pos(q)' = Pos(q)
      /\ \A q \in Proc : nextTask'[q] = nextTask[q] \/ nextTask'[q] = NoTask
      /\ \A q \in Proc \ {p} : nextTask'[q] = nextTask[q]
      /\ \A q \in Proc : pc'[q] = "push" <=> pc[q] = "push"
  BY <1>2 DEF TypeOK, Pos, OffLabel
<1>4. Running(l)'
  <2> SUFFICES ASSUME NEW q \in Proc
               PROVE  /\ runningTask'[q] = NoTask <=> Pos(q)' \in OffLabel
                      /\ runningTask'[q] # NoTask
                           => RunsTask(l, q, runningTask[q])'
    BY DEF Running
  <2>1. CASE q = p
    <3>1. runningTask'[p] # NoTask /\ Pos(p)' \notin OffLabel
      BY <1>3, ProcesserAssumption DEF OffLabel
    <3>2. RunsTask(l, p, runningTask[p])'
      BY <1>1, <1>2, <1>3 DEF RunsTask
    <3> QED
      BY <2>1, <3>1, <3>2
  <2>2. CASE q # p
    <3>1. runningTask[q] = NoTask <=> Pos(q) \in OffLabel
      BY DEF Running
    <3>2. ASSUME runningTask[q] # NoTask PROVE RunsTask(l, q, runningTask[q])'
      <4>1. RunsTask(l, q, runningTask[q]) /\ runningTask[q] \in Task
            /\ runningTask[q] # t
        BY <1>1, <3>2 DEF Running, TypeOK
      <4> QED
        BY <1>2, <1>3, <2>2, <4>1 DEF RunsTask
    <3> QED
      BY <1>3, <2>2, <3>1, <3>2
  <2> QED
    BY <2>1, <2>2
<1>5. Waiting(l)'
  BY <1>1, <1>2, <1>3 DEF Waiting, TypeOK
<1>6. Waking(l)'
  BY <1>1, <1>2, <1>3 DEF Waking, TypeOK
<1>7. Tasks(l)'
  <2>1. ASSUME NEW u \in Task, NEW L, L \subseteq {"erased", "out", "unlink", "recycle"},
               HeldAt(u, L), "out" \in L => state[u] = "done"
        PROVE  HeldAt(u, L)'
    <3>1. proc[u] \in Proc /\ runningTask[proc[u]] = u /\ pc[proc[u]] \in L
      BY <2>1 DEF HeldAt
    <3>2. u # t /\ proc[u] # p
      BY <1>1, <2>1, <3>1 DEF OffLabel
    <3> QED
      BY <1>3, <3>1, <3>2 DEF HeldAt
  <2>2. \A u \in Task : /\ state[u] = "done" /\ HeldAt(u, {"out", "unlink", "recycle"})
                             => HeldAt(u, {"out", "unlink", "recycle"})'
                        /\ HeldAt(u, {"erased"}) => HeldAt(u, {"erased"})'
                        /\ HeldAt(u, {"erased", "recycle"})
                             => HeldAt(u, {"erased", "recycle"})'
    BY <2>1
  <2>3. \A u \in Task : (\E q \in Proc : pc[q] = "push" /\ wakee[q] = u)
                          => (\E q \in Proc : pc'[q] = "push" /\ wakee[q] = u)
    BY <1>3
  <2> QED
    BY <1>2, <2>2, <2>3 DEF Tasks
<1>8. Successors(l)'
  BY <1>3 DEF Successors
<1> QED
  BY <1>4, <1>5, <1>6, <1>7, <1>8, ListsSame

\* The last task of a pass has left, suspended or ready.
LEMMA PassOverCore ==
  ASSUME TypeOK, NEW l, Core(l), NEW p \in Proc, pc[p] = "out",
         state[runningTask[p]] # "done",
         runningTask' = [runningTask EXCEPT ![p] = NoTask],
         Goto(p, "endpass"),
         nextTask' \in {nextTask, [nextTask EXCEPT ![p] = NoTask]},
         UNCHANGED <<runnableQueue, newQueue, moved, part, stolen, wakee,
                     caller, state, proc, live, syncWait, ownWait>>
  PROVE  Core(l)'
<1> USE DEF Core
<1>3. /\ runningTask'[p] = NoTask /\ pc'[p] = "endpass"
      /\ \A q \in Proc \ {p} : runningTask'[q] = runningTask[q] /\ pc'[q] = pc[q]
      /\ Pos(p)' = "endpass" /\ \A q \in Proc \ {p} : Pos(q)' = Pos(q)
      /\ \A q \in Proc : nextTask'[q] = nextTask[q] \/ nextTask'[q] = NoTask
      /\ \A q \in Proc \ {p} : nextTask'[q] = nextTask[q]
      /\ \A q \in Proc : pc'[q] = "push" <=> pc[q] = "push"
  BY DEF TypeOK, Pos, Goto
<1>4. Running(l)'
  <2> SUFFICES ASSUME NEW q \in Proc
               PROVE  /\ runningTask'[q] = NoTask <=> Pos(q)' \in OffLabel
                      /\ runningTask'[q] # NoTask
                           => RunsTask(l, q, runningTask[q])'
    BY DEF Running
  <2>1. CASE q = p
    BY <1>3, <2>1 DEF OffLabel
  <2>2. CASE q # p
    <3>1. runningTask[q] = NoTask <=> Pos(q) \in OffLabel
      BY DEF Running
    <3>2. ASSUME runningTask[q] # NoTask PROVE RunsTask(l, q, runningTask[q])'
      <4>1. RunsTask(l, q, runningTask[q])
        BY <3>2 DEF Running
      <4> QED
        BY <1>3, <2>2, <4>1 DEF RunsTask
    <3> QED
      BY <1>3, <2>2, <3>1, <3>2
  <2> QED
    BY <2>1, <2>2
<1>5. Waiting(l)'
  BY DEF Waiting
<1>6. Waking(l)'
  BY <1>3 DEF Waking
<1>7. Tasks(l)'
  <2>1. ASSUME NEW u \in Task, NEW L, L \subseteq {"erased", "out", "unlink", "recycle"},
               HeldAt(u, L), "out" \in L => state[u] = "done"
        PROVE  HeldAt(u, L)'
    <3>1. proc[u] \in Proc /\ runningTask[proc[u]] = u /\ pc[proc[u]] \in L
      BY <2>1 DEF HeldAt
    <3>2. proc[u] # p
      BY <2>1, <3>1
    <3> QED
      BY <1>3, <3>1, <3>2 DEF HeldAt
  <2>2. \A u \in Task : /\ state[u] = "done" /\ HeldAt(u, {"out", "unlink", "recycle"})
                             => HeldAt(u, {"out", "unlink", "recycle"})'
                        /\ HeldAt(u, {"erased"}) => HeldAt(u, {"erased"})'
                        /\ HeldAt(u, {"erased", "recycle"})
                             => HeldAt(u, {"erased", "recycle"})'
    BY <2>1
  <2>3. \A u \in Task : (\E q \in Proc : pc[q] = "push" /\ wakee[q] = u)
                          => (\E q \in Proc : pc'[q] = "push" /\ wakee[q] = u)
    BY <1>3
  <2> QED
    BY <2>2, <2>3 DEF Tasks
<1>8. Successors(l)'
  BY <1>3 DEF Successors
<1> QED
  BY <1>4, <1>5, <1>6, <1>7, <1>8, ListsSame

\* A step of the coroutine t that thread p executes, or of the thread about it:
\* nothing changes but the label of p, its saved successor and what is known
\* of t.
LEMMA OwnStep ==
  ASSUME TypeOK, NEW l, NEW m, Core(l), NEW p \in Proc, NEW t \in Task,
         NEW L \in Label,
         t = runningTask[p], L \notin OffLabel \union {"push", "interrupt"},
         pc[p] \notin {"push", "interrupt"}, Goto(p, L),
         UNCHANGED <<runningTask, wakee, caller, proc, live>>,
         Lists(m)',
         \A u \in Task \ {t} : /\ state'[u] = state[u] /\ m[u] = l[u]
                               /\ u \in syncWait' <=> u \in syncWait
                               /\ u \in ownWait' <=> u \in ownWait,
         syncWait' \subseteq Task, ownWait' \subseteq Task,
         \A q \in Proc \ {p} : nextTask'[q] = nextTask[q],
         nextTask'[p] # NoTask => m[nextTask'[p]] = RunnableOf(p),
         RunsTask(m, p, t)',
         t \notin syncWait' \/ t \notin ownWait',
         t \in syncWait' \union ownWait' => state'[t] = "block" /\ m[t] = Nowhere,
         (state'[t] = state[t] /\ m[t] = l[t])
           \/ \A q \in Proc : pc[q] = "push" => wakee[q] # t,
         state'[t] = "done" => L \in {"out", "unlink", "recycle"},
         state'[t] = "block" => t \in syncWait' \union ownWait' \/ L = "erased",
         m[t] = Nowhere => \/ t \in syncWait' \union ownWait'
                           \/ L \in {"erased", "recycle"}
                           \/ \E q \in Proc : pc[q] = "push" /\ wakee[q] = t
  PROVE  Core(m)'
<1> USE DEF Core
<1>1. /\ pc'[p] = L /\ \A q \in Proc \ {p} : pc'[q] = pc[q]
      /\ Pos(p)' = L /\ \A q \in Proc \ {p} : Pos(q)' = Pos(q)
      /\ \A q \in Proc : pc'[q] = "push" <=> pc[q] = "push"
  BY DEF TypeOK, Pos, Goto
<1>2. RunsTask(l, p, t) /\ proc[t] = p /\ t \in live
      /\ l[t] \in {Nowhere, RunnableOf(p)} /\ t # NoTask
      /\ m[t] \in {Nowhere, RunnableOf(p)}
  BY ProcesserAssumption DEF Running, RunsTask
<1>3. \A q \in Proc \ {p} : runningTask[q] # t
  BY <1>2, ProcesserAssumption DEF Running, RunsTask
<1>4. Running(m)'
  <2> SUFFICES ASSUME NEW q \in Proc
               PROVE  /\ runningTask[q] = NoTask <=> Pos(q)' \in OffLabel
                      /\ runningTask[q] # NoTask
                           => RunsTask(m, q, runningTask[q])'
    BY DEF Running
  <2>1. CASE q = p
    BY <1>1, <1>2, <2>1 DEF OffLabel
  <2>2. CASE q # p
    <3>1. runningTask[q] = NoTask <=> Pos(q) \in OffLabel
      BY DEF Running
    <3>2. ASSUME runningTask[q] # NoTask PROVE RunsTask(m, q, runningTask[q])'
      <4>1. RunsTask(l, q, runningTask[q]) /\ runningTask[q] \in Task \ {t}
        BY <1>3, <2>2, <3>2 DEF Running, TypeOK
      <4> QED
        BY <1>1, <2>2, <4>1 DEF RunsTask
    <3> QED
      BY <1>1, <2>2, <3>1, <3>2
  <2> QED
    BY <2>1, <2>2
<1>5. Waiting(m)'
  <2>1. syncWait' \intersect ownWait' = {}
    BY DEF Waiting
  <2>2. ASSUME NEW u \in syncWait' \union ownWait'
        PROVE  /\ state'[u] = "block" /\ m[u] = Nowhere /\ u \in live
               /\ proc[u] \in Proc
    <3>1. CASE u = t
      BY <1>2, <2>2, <3>1
    <3>2. CASE u # t
      BY <2>2, <3>2 DEF Waiting
    <3> QED
      BY <3>1, <3>2
  <2> QED
    BY <2>1, <2>2 DEF Waiting
<1>6. Waking(m)'
  <2> SUFFICES ASSUME NEW q \in Proc, pc[q] = "push"
               PROVE  /\ state'[wakee[q]] = "runnable" /\ m[wakee[q]] = Nowhere
                      /\ wakee[q] \in live /\ proc[wakee[q]] \in Proc
                      /\ \A r \in Proc : pc[r] = "push" /\ wakee[r] = wakee[q]
                                           => r = q
    BY <1>1 DEF Waking
  <2>1. /\ state[wakee[q]] = "runnable" /\ l[wakee[q]] = Nowhere
        /\ wakee[q] \in live /\ proc[wakee[q]] \in Proc
        /\ \A r \in Proc : pc[r] = "push" /\ wakee[r] = wakee[q] => r = q
    BY DEF Waking
  <2>2. CASE wakee[q] = t
    BY <2>1, <2>2
  <2>3. CASE wakee[q] # t
    BY <2>1, <2>3 DEF TypeOK
  <2> QED
    BY <2>2, <2>3
<1>7. Tasks(m)'
  <2> SUFFICES ASSUME NEW u \in Task
        PROVE  /\ state'[u] = "done" => HeldAt(u, {"out", "unlink", "recycle"})'
               /\ state'[u] = "block" =>
                    u \in syncWait' \union ownWait' \/ HeldAt(u, {"erased"})'
               /\ m[u] # Nowhere => u \in live
               /\ u \in live /\ m[u] = Nowhere =>
                    \/ u \in syncWait' \union ownWait'
                    \/ \E q \in Proc : pc'[q] = "push" /\ wakee[q] = u
                    \/ HeldAt(u, {"erased", "recycle"})'
    BY DEF Tasks
  <2>1. CASE u = t
    <3>1. \A K : L \in K => HeldAt(t, K)'
      BY <1>1, <1>2 DEF HeldAt
    <3>2. /\ L \in {"out", "unlink", "recycle"} => HeldAt(t, {"out", "unlink", "recycle"})'
          /\ L = "erased" => HeldAt(t, {"erased"})'
          /\ L \in {"erased", "recycle"} => HeldAt(t, {"erased", "recycle"})'
      BY <3>1
    <3> QED
      BY <1>1, <1>2, <2>1, <3>2
  <2>2. CASE u # t
    <3>1. \A K : HeldAt(u, K) => HeldAt(u, K)'
      BY <1>1, <2>2 DEF HeldAt
    <3>2. /\ HeldAt(u, {"out", "unlink", "recycle"}) => HeldAt(u, {"out", "unlink", "recycle"})'
          /\ HeldAt(u, {"erased"}) => HeldAt(u, {"erased"})'
          /\ HeldAt(u, {"erased", "recycle"}) => HeldAt(u, {"erased", "recycle"})'
      BY <3>1
    <3> QED
      BY <1>1, <2>2, <3>2 DEF Tasks
  <2> QED
    BY <2>1, <2>2
<1>8. Successors(m)'
  <2> SUFFICES ASSUME NEW q \in Proc, nextTask'[q] # NoTask
               PROVE  m[nextTask'[q]] = RunnableOf(q)
    BY DEF Successors
  <2>1. CASE q # p
    <3>0. nextTask'[q] = nextTask[q] /\ nextTask[q] # NoTask
      BY <2>1
    <3>1. nextTask[q] \in Task /\ l[nextTask[q]] = RunnableOf(q)
      BY <3>0 DEF Successors, TypeOK
    <3>2. nextTask[q] # t
      BY <1>2, <2>1, <3>1, Places
    <3> QED
      BY <3>0, <3>1, <3>2
  <2> QED
    BY <2>1
<1> QED
  BY <1>4, <1>5, <1>6, <1>7, <1>8

\* What a thread that executes a coroutine has.
LEMMA RunningTask ==
  ASSUME TypeOK, NEW l, Core(l), NEW p \in Proc, pc[p] \notin {"push", "interrupt"},
         pc[p] \notin OffLabel
  PROVE  /\ runningTask[p] \in Task /\ RunsTask(l, p, runningTask[p])
         /\ Pos(p) = pc[p]
<1>1. Pos(p) = pc[p]
  BY DEF Pos
<1>2. runningTask[p] # NoTask /\ RunsTask(l, p, runningTask[p])
  BY <1>1 DEF Core, Running
<1> QED
  BY <1>1, <1>2 DEF TypeOK

\* yield().
LEMMA YieldCore ==
  ASSUME TypeOK, NEW l, Core(l), NEW p \in Proc, CoYield(p)
  PROVE  Core(l)'
<1> USE DEF procVars, wakeVars, avgVars
<1>1. PICK t \in Task : /\ t = runningTask[p] /\ RunsTask(l, p, t)
                        /\ Pos(p) = pc[p] /\ pc[p] = "run"
  BY RunningTask DEF CoYield, OffLabel
<1>2. /\ Goto(p, "out")
      /\ UNCHANGED <<runningTask, wakee, caller, proc, live, state, syncWait,
                     ownWait, nextTask>>
      /\ UNCHANGED <<runnableQueue, newQueue, moved, part, stolen>>
  BY DEF CoYield, SwapOut
<1>3. state[t] = "runnable" /\ l[t] = RunnableOf(p)
  BY <1>1 DEF RunsTask
<1>4. pc'[p] = "out" /\ Pos(p)' = "out"
  BY <1>2 DEF Goto, TypeOK, Pos
<1>5. RunsTask(l, p, t)'
  BY <1>1, <1>2, <1>3, <1>4 DEF RunsTask
<1>6. Lists(l)'
  BY <1>2, ListsSame DEF Core
<1>7. nextTask'[p] # NoTask => l[nextTask'[p]] = RunnableOf(p)
  BY <1>2 DEF Core, Successors
<1>8. t \notin syncWait \union ownWait /\ l[t] # Nowhere
  BY <1>3, Places DEF Core, Waiting
<1>9. syncWait \subseteq Task /\ ownWait \subseteq Task
  BY DEF TypeOK
<1> QED
  BY <1>1, <1>2, <1>3, <1>5, <1>6, <1>7, <1>8, <1>9, OwnStep DEF Label, OffLabel

\* A suspended coroutine switches out, woken already or not.
LEMMA SwapOutCore ==
  ASSUME TypeOK, NEW l, Core(l), NEW p \in Proc, SwapOutSuspended(p)
  PROVE  Core(l)'
<1> USE DEF procVars, wakeVars, avgVars
<1>1. PICK t \in Task : /\ t = runningTask[p] /\ RunsTask(l, p, t)
                        /\ Pos(p) = pc[p] /\ pc[p] = "registered"
  BY RunningTask DEF SwapOutSuspended, OffLabel
<1>2. /\ Goto(p, "out")
      /\ UNCHANGED <<runningTask, wakee, caller, proc, live, state, syncWait,
                     ownWait, nextTask>>
      /\ UNCHANGED <<runnableQueue, newQueue, moved, part, stolen>>
  BY DEF SwapOutSuspended, SwapOut
<1>3. state[t] # "done" /\ proc[t] = p
  BY <1>1 DEF RunsTask
<1>4. pc'[p] = "out" /\ Pos(p)' = "out"
  BY <1>2 DEF Goto, TypeOK, Pos
<1>5. RunsTask(l, p, t)'
  BY <1>1, <1>2, <1>3, <1>4 DEF RunsTask
<1>6. Lists(l)'
  BY <1>2, ListsSame DEF Core
<1>7. nextTask'[p] # NoTask => l[nextTask'[p]] = RunnableOf(p)
  BY <1>2 DEF Core, Successors
<1>8. \A L : L \subseteq {"erased", "recycle"} => ~ HeldAt(t, L)
  BY <1>1, <1>3 DEF HeldAt
<1>9. /\ state[t] = "block" => t \in syncWait \union ownWait
      /\ l[t] = Nowhere => \/ t \in syncWait \union ownWait
                           \/ \E q \in Proc : pc[q] = "push" /\ wakee[q] = t
      /\ t \in syncWait \union ownWait => state[t] = "block" /\ l[t] = Nowhere
      /\ t \notin syncWait \/ t \notin ownWait
  <2>1. ~ HeldAt(t, {"erased"}) /\ ~ HeldAt(t, {"erased", "recycle"})
    BY <1>8
  <2>2. t \in live
    BY <1>1 DEF RunsTask
  <2> QED
    BY <2>1, <2>2 DEF Core, Tasks, Waiting
<1>10. syncWait \subseteq Task /\ ownWait \subseteq Task
  BY DEF TypeOK
<1> QED
  BY <1>1, <1>2, <1>3, <1>5, <1>6, <1>7, <1>9, <1>10, OwnStep
     DEF Label, OffLabel

\* The coroutine returns.
LEMMA DoneCore ==
  ASSUME TypeOK, NEW l, Core(l), NEW p \in Proc, Done(p)
  PROVE  Core(l)'
<1> USE DEF procVars, wakeVars, avgVars
<1>1. PICK t \in Task : /\ t = runningTask[p] /\ RunsTask(l, p, t)
                        /\ Pos(p) = pc[p] /\ pc[p] = "run"
  BY RunningTask DEF Done, OffLabel
<1>2. /\ Goto(p, "out")
      /\ state' = [state EXCEPT ![t] = "done"]
      /\ UNCHANGED <<runningTask, wakee, caller, proc, live, syncWait,
                     ownWait, nextTask>>
      /\ UNCHANGED <<runnableQueue, newQueue, moved, part, stolen>>
  BY <1>1 DEF Done, SwapOut
<1>3. state[t] = "runnable" /\ l[t] = RunnableOf(p)
  BY <1>1 DEF RunsTask
<1>4. pc'[p] = "out" /\ Pos(p)' = "out" /\ state'[t] = "done"
      /\ \A u \in Task \ {t} : state'[u] = state[u]
  BY <1>2 DEF Goto, TypeOK, Pos
<1>5. RunsTask(l, p, t)'
  BY <1>1, <1>2, <1>3, <1>4 DEF RunsTask
<1>6. Lists(l)'
  BY <1>2, ListsSame DEF Core
<1>7. nextTask'[p] # NoTask => l[nextTask'[p]] = RunnableOf(p)
  BY <1>2 DEF Core, Successors
<1>8. /\ t \notin syncWait \union ownWait /\ l[t] # Nowhere
      /\ \A q \in Proc : pc[q] = "push" => wakee[q] # t
  BY <1>3, Places DEF Core, Waiting, Waking
<1>9. syncWait \subseteq Task /\ ownWait \subseteq Task
  BY DEF TypeOK
<1> QED
  BY <1>1, <1>2, <1>4, <1>5, <1>6, <1>7, <1>8, <1>9, OwnStep
     DEF Label, OffLabel

\* next(), before the finished task is unlinked.
LEMMA AfterDoneCore ==
  ASSUME TypeOK, NEW l, Core(l), NEW p \in Proc, AfterDone(p)
  PROVE  Core(l)'
<1> USE DEF procVars, wakeVars, avgVars, taskVars
<1>1. PICK t \in Task : /\ t = runningTask[p] /\ RunsTask(l, p, t)
                        /\ Pos(p) = pc[p] /\ pc[p] = "out" /\ state[t] = "done"
  BY RunningTask DEF AfterDone, OffLabel
<1> DEFINE n == Succ(runnableQueue[p], t)
<1>2. /\ Goto(p, "unlink")
      /\ nextTask' = [nextTask EXCEPT ![p] = n]
      /\ UNCHANGED <<runningTask, wakee, caller, proc, live, state, syncWait,
                     ownWait>>
      /\ UNCHANGED <<runnableQueue, newQueue, moved, part, stolen>>
  BY <1>1 DEF AfterDone
<1>3. l[t] = RunnableOf(p)
  BY <1>1 DEF RunsTask
<1>4. n # NoTask => l[n] = RunnableOf(p) /\ n # t
  <2>1. runnableQueue[p] \in Seq(Task)
    BY DEF TypeOK
  <2>2. /\ IsInjective(runnableQueue[p])
        /\ \A u \in Task : u \in ToSet(runnableQueue[p]) <=> l[u] = RunnableOf(p)
    BY DEF Core, Lists, Holds
  <2>3. n # NoTask => n \in ToSet(runnableQueue[p]) /\ n # t
    BY <2>1, <2>2, SuccInToSet
  <2>4. n # NoTask => n \in Task
    BY <2>1, SuccType
  <2> QED
    BY <2>2, <2>3, <2>4
<1> HIDE DEF n
<1>5. /\ pc'[p] = "unlink" /\ Pos(p)' = "unlink" /\ nextTask'[p] = n
      /\ \A q \in Proc \ {p} : nextTask'[q] = nextTask[q]
  BY <1>2 DEF Goto, TypeOK, Pos
<1>6. RunsTask(l, p, t)'
  <2>1. t # NoTask
    BY ProcesserAssumption
  <2> QED
    BY <1>1, <1>2, <1>3, <1>4, <1>5, <2>1 DEF RunsTask
<1>7. Lists(l)'
  BY <1>2, ListsSame DEF Core
<1>8. t \notin syncWait \union ownWait /\ l[t] # Nowhere
  BY <1>3, Places DEF Core, Waiting
<1>9. syncWait \subseteq Task /\ ownWait \subseteq Task
  BY DEF TypeOK
<1> QED
  BY <1>1, <1>2, <1>4, <1>5, <1>6, <1>7, <1>8, <1>9, OwnStep
     DEF Label, OffLabel

\* The suspended coroutine becomes known to those who wake it.
LEMMA RegisterCore ==
  ASSUME TypeOK, NEW l, Core(l), NEW p \in Proc, RegisterSync(p) \/ RegisterOwn(p)
  PROVE  Core(l)'
<1> USE DEF procVars, wakeVars, avgVars, taskVars
<1>1. PICK t \in Task : /\ t = runningTask[p] /\ RunsTask(l, p, t)
                        /\ Pos(p) = pc[p] /\ pc[p] = "erased"
  BY RunningTask DEF RegisterSync, RegisterOwn, OffLabel
<1>2. /\ Goto(p, "registered")
      /\ \/ syncWait' = syncWait \union {t} /\ ownWait' = ownWait
         \/ syncWait' = syncWait /\ ownWait' = ownWait \union {t}
      /\ UNCHANGED <<runningTask, wakee, caller, proc, live, state, nextTask>>
      /\ UNCHANGED <<runnableQueue, newQueue, moved, part, stolen>>
  BY <1>1 DEF RegisterSync, RegisterOwn
<1>3. state[t] = "block" /\ l[t] = Nowhere /\ t \notin syncWait /\ t \notin ownWait
  BY <1>1 DEF RunsTask
<1>4. pc'[p] = "registered" /\ Pos(p)' = "registered"
  BY <1>2 DEF Goto, TypeOK, Pos
<1>5. RunsTask(l, p, t)'
  BY <1>1, <1>2, <1>3, <1>4 DEF RunsTask
<1>6. Lists(l)'
  BY <1>2, ListsSame DEF Core
<1>7. nextTask'[p] # NoTask => l[nextTask'[p]] = RunnableOf(p)
  BY <1>2 DEF Core, Successors
<1>8. /\ syncWait \subseteq Task /\ ownWait \subseteq Task
      /\ \A u \in Task \ {t} : /\ u \in syncWait' <=> u \in syncWait
                               /\ u \in ownWait' <=> u \in ownWait
      /\ t \in syncWait' \union ownWait'
      /\ t \notin syncWait' \/ t \notin ownWait'
  BY <1>2, <1>3 DEF TypeOK
<1>9. syncWait' \subseteq Task /\ ownWait' \subseteq Task
  BY <1>2, <1>8
<1> QED
  BY <1>1, <1>2, <1>3, <1>5, <1>6, <1>7, <1>8, <1>9, OwnStep
     DEF Label, OffLabel

\* erase() of a task from the runnableQueue_ of p, in whose place it is.
LEMMA ListsErase ==
  ASSUME TypeOK, NEW l \in [Task -> Loc], Lists(l), NEW p \in Proc, NEW t \in Task,
         l[t] = RunnableOf(p), NEW m, m = [l EXCEPT ![t] = Nowhere],
         runnableQueue' = [runnableQueue EXCEPT ![p] = Erase(@, t)],
         UNCHANGED <<newQueue, moved, part, stolen>>
  PROVE  Lists(m)'
<1> USE Places
<1>1. m[t] = Nowhere /\ \A u \in Task \ {t} : m[u] = l[u]
  OBVIOUS
<1>2. ASSUME NEW q \in Proc PROVE Holds(runnableQueue'[q], m, RunnableOf(q))
  <2>1. CASE q = p
    <3>1. /\ runnableQueue'[p] = Erase(runnableQueue[p], t)
          /\ runnableQueue[p] \in Seq(Task)
      BY DEF TypeOK
    <3>2. Holds(runnableQueue[p], l, RunnableOf(p)) /\ m[t] # RunnableOf(p)
      BY <1>1 DEF Lists
    <3>3. Holds(Erase(runnableQueue[p], t), m, RunnableOf(p))
      BY <1>1, <3>1, <3>2, HoldsErase
    <3> QED
      BY <2>1, <3>1, <3>3
  <2>2. CASE q # p
    <3>1. runnableQueue'[q] = runnableQueue[q]
      BY <2>2 DEF TypeOK
    <3>2. \A u \in Task : m[u] = RunnableOf(q) <=> l[u] = RunnableOf(q)
      BY <1>1, <2>2
    <3>3. Holds(runnableQueue[q], l, RunnableOf(q))
      BY DEF Lists
    <3>4. Holds(runnableQueue[q], m, RunnableOf(q))
      BY <3>2, <3>3, HoldsSame
    <3> QED
      BY <3>1, <3>4
  <2> QED
    BY <2>1, <2>2
<1>3. /\ \A q \in Proc : Holds(newQueue[q], m, NewOf(q)) /\ Holds(moved[q], m, MovedOf(q))
      /\ Holds(part, m, InPart) /\ Holds(stolen, m, InStolen)
  <2>1. \A x : x # Nowhere /\ x # RunnableOf(p)
                => \A u \in Task : m[u] = x <=> l[u] = x
    BY <1>1
  <2>2. /\ \A q \in Proc : \A u \in Task : /\ m[u] = NewOf(q) <=> l[u] = NewOf(q)
                                          /\ m[u] = MovedOf(q) <=> l[u] = MovedOf(q)
        /\ \A u \in Task : /\ m[u] = InPart <=> l[u] = InPart
                           /\ m[u] = InStolen <=> l[u] = InStolen
    BY <2>1
  <2>3. ASSUME NEW q \in Proc PROVE Holds(newQueue[q], m, NewOf(q))
    <3>1. Holds(newQueue[q], l, NewOf(q))
      BY DEF Lists
    <3>2. \A u \in Task : m[u] = NewOf(q) <=> l[u] = NewOf(q)
      BY <2>2
    <3> QED
      BY <3>1, <3>2, HoldsSame
  <2>4. ASSUME NEW q \in Proc PROVE Holds(moved[q], m, MovedOf(q))
    <3>1. Holds(moved[q], l, MovedOf(q))
      BY DEF Lists
    <3>2. \A u \in Task : m[u] = MovedOf(q) <=> l[u] = MovedOf(q)
      BY <2>2
    <3> QED
      BY <3>1, <3>2, HoldsSame
  <2>5. Holds(part, m, InPart) /\ Holds(stolen, m, InStolen)
    BY <2>2, HoldsSame DEF Lists
  <2> QED
    BY <2>3, <2>4, <2>5
<1> QED
  BY <1>2, <1>3 DEF Lists

\* push_back of a task that is in no list.
LEMMA ListsPush ==
  ASSUME TypeOK, NEW l \in [Task -> Loc], Lists(l), NEW p \in Proc, NEW t \in Task,
         l[t] = Nowhere, NEW m, m = [l EXCEPT ![t] = RunnableOf(p)],
         runnableQueue' = [runnableQueue EXCEPT ![p] = Append(@, t)],
         UNCHANGED <<newQueue, moved, part, stolen>>
  PROVE  Lists(m)'
<1> USE Places
<1>1. m[t] = RunnableOf(p) /\ \A u \in Task \ {t} : m[u] = l[u]
  OBVIOUS
<1>2. ASSUME NEW q \in Proc PROVE Holds(runnableQueue'[q], m, RunnableOf(q))
  <2>1. CASE q = p
    <3>1. /\ runnableQueue'[p] = Append(runnableQueue[p], t)
          /\ runnableQueue[p] \in Seq(Task)
      BY DEF TypeOK
    <3>2. Holds(runnableQueue[p], l, RunnableOf(p)) /\ l[t] # RunnableOf(p)
      BY DEF Lists
    <3>3. Holds(Append(runnableQueue[p], t), m, RunnableOf(p))
      BY <1>1, <3>1, <3>2, HoldsAppend
    <3> QED
      BY <2>1, <3>1, <3>3
  <2>2. CASE q # p
    <3>1. runnableQueue'[q] = runnableQueue[q]
      BY <2>2 DEF TypeOK
    <3>2. \A u \in Task : m[u] = RunnableOf(q) <=> l[u] = RunnableOf(q)
      BY <1>1, <2>2
    <3>3. Holds(runnableQueue[q], l, RunnableOf(q))
      BY DEF Lists
    <3>4. Holds(runnableQueue[q], m, RunnableOf(q))
      BY <3>2, <3>3, HoldsSame
    <3> QED
      BY <3>1, <3>4
  <2> QED
    BY <2>1, <2>2
<1>3. /\ \A q \in Proc : Holds(newQueue[q], m, NewOf(q)) /\ Holds(moved[q], m, MovedOf(q))
      /\ Holds(part, m, InPart) /\ Holds(stolen, m, InStolen)
  BY <1>1, HoldsSame DEF Lists
<1> QED
  BY <1>2, <1>3 DEF Lists

\* The finished task leaves runnableQueue_.
LEMMA UnlinkCore ==
  ASSUME TypeOK, NEW l \in [Task -> Loc], Core(l), NEW p \in Proc, UnlinkDone(p)
  PROVE  \E k \in [Task -> Loc] : Core(k)'
<1> USE DEF procVars, wakeVars, avgVars, taskVars
<1>1. PICK t \in Task : /\ t = runningTask[p] /\ RunsTask(l, p, t)
                        /\ Pos(p) = pc[p] /\ pc[p] = "unlink"
  BY RunningTask DEF UnlinkDone, OffLabel
<1>2. /\ Goto(p, "recycle")
      /\ runnableQueue' = [runnableQueue EXCEPT ![p] = Erase(@, t)]
      /\ UNCHANGED <<runningTask, wakee, caller, proc, live, state, syncWait,
                     ownWait, nextTask>>
      /\ UNCHANGED <<newQueue, moved, part, stolen>>
  BY <1>1 DEF UnlinkDone
<1>3. state[t] = "done" /\ l[t] = RunnableOf(p) /\ nextTask[p] # t
  BY <1>1 DEF RunsTask
<1>4. PICK m : m = [l EXCEPT ![t] = Nowhere]
  OBVIOUS
<1>5. m[t] = Nowhere /\ m \in [Task -> Loc] /\ \A u \in Task \ {t} : m[u] = l[u]
  BY <1>4, Places
<1>6. pc'[p] = "recycle" /\ Pos(p)' = "recycle"
  BY <1>2 DEF Goto, TypeOK, Pos
<1>7. RunsTask(m, p, t)'
  BY <1>1, <1>2, <1>3, <1>5, <1>6 DEF RunsTask
<1>8. Lists(m)'
  BY <1>2, <1>3, <1>4, ListsErase DEF Core
<1>9. nextTask'[p] # NoTask => m[nextTask'[p]] = RunnableOf(p)
  BY <1>2, <1>3, <1>5 DEF Core, Successors, TypeOK
<1>10. /\ t \notin syncWait \union ownWait
       /\ \A q \in Proc : pc[q] = "push" => wakee[q] # t
  BY <1>3, Places DEF Core, Waiting, Waking
<1>11. syncWait \subseteq Task /\ ownWait \subseteq Task
  BY DEF TypeOK
<1>12. Core(m)'
  BY <1>1, <1>2, <1>3, <1>5, <1>7, <1>8, <1>9, <1>10, <1>11, OwnStep
     DEF Label, OffLabel
<1> QED
  BY <1>5, <1>12

\* The coroutine suspends: it leaves runnableQueue_ and saves its successor.
LEMMA SuspendCore ==
  ASSUME TypeOK, NEW l \in [Task -> Loc], Core(l), NEW p \in Proc, SuspendBySelfIO(p)
  PROVE  \E k \in [Task -> Loc] : Core(k)'
<1> USE DEF procVars, wakeVars, avgVars
<1>1. PICK t \in Task : /\ t = runningTask[p] /\ RunsTask(l, p, t)
                        /\ Pos(p) = pc[p] /\ pc[p] = "run"
  BY RunningTask DEF SuspendBySelfIO, OffLabel
<1> DEFINE n == Succ(runnableQueue[p], t)
<1>2. /\ Goto(p, "erased")
      /\ runnableQueue' = [runnableQueue EXCEPT ![p] = Erase(@, t)]
      /\ state' = [state EXCEPT ![t] = "block"]
      /\ nextTask' = [nextTask EXCEPT ![p] = n]
      /\ UNCHANGED <<runningTask, wakee, caller, proc, live, syncWait, ownWait>>
      /\ UNCHANGED <<newQueue, moved, part, stolen>>
  BY <1>1 DEF SuspendBySelfIO
<1>3. state[t] = "runnable" /\ l[t] = RunnableOf(p)
  BY <1>1 DEF RunsTask
<1>4. n # NoTask => n \in Task /\ l[n] = RunnableOf(p) /\ n # t
  <2>1. runnableQueue[p] \in Seq(Task)
    BY DEF TypeOK
  <2>2. /\ IsInjective(runnableQueue[p])
        /\ \A u \in Task : u \in ToSet(runnableQueue[p]) <=> l[u] = RunnableOf(p)
    BY DEF Core, Lists, Holds
  <2>3. n # NoTask => n \in ToSet(runnableQueue[p]) /\ n # t
    BY <2>1, <2>2, SuccInToSet
  <2>4. n # NoTask => n \in Task
    BY <2>1, SuccType
  <2> QED
    BY <2>2, <2>3, <2>4
<1> HIDE DEF n
<1>5. PICK m : m = [l EXCEPT ![t] = Nowhere]
  OBVIOUS
<1>6. m[t] = Nowhere /\ m \in [Task -> Loc] /\ \A u \in Task \ {t} : m[u] = l[u]
  BY <1>5, Places
<1>7. /\ pc'[p] = "erased" /\ Pos(p)' = "erased"
      /\ state'[t] = "block" /\ \A u \in Task \ {t} : state'[u] = state[u]
      /\ nextTask'[p] = n /\ \A q \in Proc \ {p} : nextTask'[q] = nextTask[q]
  BY <1>2 DEF Goto, TypeOK, Pos
<1>8. /\ t \notin syncWait \union ownWait
      /\ \A q \in Proc : pc[q] = "push" => wakee[q] # t
  BY <1>3, Places DEF Core, Waiting, Waking
<1>9. RunsTask(m, p, t)'
  BY <1>1, <1>2, <1>3, <1>6, <1>7, <1>8 DEF RunsTask
<1>10. Lists(m)'
  BY <1>2, <1>3, <1>5, ListsErase DEF Core
<1>11. nextTask'[p] # NoTask => m[nextTask'[p]] = RunnableOf(p)
  BY <1>4, <1>6, <1>7
<1>12. syncWait \subseteq Task /\ ownWait \subseteq Task
  BY DEF TypeOK
<1>13. Core(m)'
  BY <1>1, <1>2, <1>6, <1>7, <1>8, <1>9, <1>10, <1>11, <1>12, OwnStep
     DEF Label, OffLabel
<1> QED
  BY <1>6, <1>13

\* The coroutine finds that it need not suspend and links itself again.
LEMMA WakeupSelfCore ==
  ASSUME TypeOK, NEW l \in [Task -> Loc], Core(l), NEW p \in Proc, WakeupSelf(p)
  PROVE  \E k \in [Task -> Loc] : Core(k)'
<1> USE DEF procVars, wakeVars, avgVars
<1>1. PICK t \in Task : /\ t = runningTask[p] /\ RunsTask(l, p, t)
                        /\ Pos(p) = pc[p] /\ pc[p] = "erased"
  BY RunningTask DEF WakeupSelf, OffLabel
<1>2. /\ Goto(p, "run")
      /\ runnableQueue' = [runnableQueue EXCEPT ![p] = Append(@, t)]
      /\ state' = [state EXCEPT ![t] = "runnable"]
      /\ UNCHANGED <<runningTask, wakee, caller, proc, live, syncWait, ownWait,
                     nextTask>>
      /\ UNCHANGED <<newQueue, moved, part, stolen>>
  BY <1>1 DEF WakeupSelf
<1>3. state[t] = "block" /\ l[t] = Nowhere /\ t \notin syncWait \union ownWait
  BY <1>1 DEF RunsTask
<1>4. PICK m : m = [l EXCEPT ![t] = RunnableOf(p)]
  OBVIOUS
<1>5. /\ m[t] = RunnableOf(p) /\ m \in [Task -> Loc]
      /\ \A u \in Task \ {t} : m[u] = l[u]
  BY <1>4, Places
<1>6. /\ pc'[p] = "run" /\ Pos(p)' = "run"
      /\ state'[t] = "runnable" /\ \A u \in Task \ {t} : state'[u] = state[u]
  BY <1>2 DEF Goto, TypeOK, Pos
<1>7. \A q \in Proc : pc[q] = "push" => wakee[q] # t
  BY <1>3 DEF Core, Waking
<1>8. RunsTask(m, p, t)'
  BY <1>1, <1>2, <1>3, <1>5, <1>6 DEF RunsTask
<1>9. Lists(m)'
  BY <1>2, <1>3, <1>4, ListsPush DEF Core
<1>10. nextTask'[p] # NoTask => m[nextTask'[p]] = RunnableOf(p)
  BY <1>2, <1>5 DEF Core, Successors, TypeOK
<1>11. syncWait \subseteq Task /\ ownWait \subseteq Task
  BY DEF TypeOK
<1>12. m[t] # Nowhere
  BY <1>5, Places
<1>13. Core(m)'
  BY <1>1, <1>2, <1>3, <1>5, <1>6, <1>7, <1>8, <1>9, <1>10, <1>11, <1>12, OwnStep
     DEF Label, OffLabel
<1> QED
  BY <1>5, <1>13

\* A step of some thread about a task t that it does not run: t is created, or
\* a wakeup of t goes on.
LEMMA WakeStep ==
  ASSUME TypeOK, NEW l, NEW m, Core(l), NEW t \in Task,
         UNCHANGED <<runningTask, nextTask, proc>>,
         \A q \in Proc : /\ Pos(q)' = Pos(q)
                         /\ pc'[q] = "erased" <=> pc[q] = "erased"
                         /\ pc'[q] = "out" <=> pc[q] = "out"
                         /\ pc'[q] = "unlink" <=> pc[q] = "unlink"
                         /\ pc'[q] = "recycle" <=> pc[q] = "recycle",
         Lists(m)',
         \A u \in Task \ {t} : /\ state'[u] = state[u] /\ m[u] = l[u]
                               /\ u \in syncWait' <=> u \in syncWait
                               /\ u \in ownWait' <=> u \in ownWait
                               /\ u \in live' <=> u \in live,
         state[t] # "done", state'[t] = "runnable", t \in live',
         t \notin syncWait' \union ownWait',
         syncWait' \subseteq Task, ownWait' \subseteq Task,
         m[t] = l[t] \/ l[t] = Nowhere,
         \A q \in Proc : runningTask[q] = t =>
           pc[q] # "erased" /\ m[t] \in {Nowhere, RunnableOf(q)},
         Waking(m)',
         m[t] = Nowhere => \E q \in Proc : pc'[q] = "push" /\ wakee'[q] = t,
         \A q \in Proc : pc[q] = "push" /\ wakee[q] # t
                           => pc'[q] = "push" /\ wakee'[q] = wakee[q]
  PROVE  Core(m)'
<1> USE DEF Core
<1>1. Running(m)'
  <2> SUFFICES ASSUME NEW q \in Proc
               PROVE  /\ runningTask[q] = NoTask <=> Pos(q) \in OffLabel
                      /\ runningTask[q] # NoTask
                           => RunsTask(m, q, runningTask[q])'
    BY DEF Running
  <2>1. runningTask[q] = NoTask <=> Pos(q) \in OffLabel
    BY DEF Running
  <2>2. ASSUME runningTask[q] # NoTask PROVE RunsTask(m, q, runningTask[q])'
    <3>1. RunsTask(l, q, runningTask[q]) /\ runningTask[q] \in Task
      BY <2>2 DEF Running, TypeOK
    <3>2. CASE runningTask[q] = t
      <4>1. /\ pc[q] \notin {"erased", "unlink", "recycle"}
            /\ Pos(q) = "run" => m[t] = RunnableOf(q)
            /\ proc[t] = q
        BY <3>1, <3>2, Places DEF RunsTask
      <4> QED
        BY <3>1, <3>2, <4>1 DEF RunsTask
    <3>3. CASE runningTask[q] # t
      <4>1. runningTask[q] \in Task \ {t}
        BY <3>1, <3>3
      <4> QED
        BY <3>1, <4>1 DEF RunsTask
    <3> QED
      BY <3>2, <3>3
  <2> QED
    BY <2>1, <2>2
<1>2. Waiting(m)'
  <2>1. \A u \in syncWait' \union ownWait' : u \in Task \ {t}
    OBVIOUS
  <2>2. syncWait' \intersect ownWait' = {}
    BY <2>1 DEF Waiting
  <2>3. \A u \in syncWait' \union ownWait' :
          state'[u] = "block" /\ m[u] = Nowhere /\ u \in live' /\ proc[u] \in Proc
    BY <2>1 DEF Waiting
  <2> QED
    BY <2>2, <2>3 DEF Waiting
<1>3. Tasks(m)'
  <2> SUFFICES ASSUME NEW u \in Task
        PROVE  /\ state'[u] = "done" => HeldAt(u, {"out", "unlink", "recycle"})'
               /\ state'[u] = "block" =>
                    u \in syncWait' \union ownWait' \/ HeldAt(u, {"erased"})'
               /\ m[u] # Nowhere => u \in live'
               /\ u \in live' /\ m[u] = Nowhere =>
                    \/ u \in syncWait' \union ownWait'
                    \/ \E q \in Proc : pc'[q] = "push" /\ wakee'[q] = u
                    \/ HeldAt(u, {"erased", "recycle"})'
    BY DEF Tasks
  <2>1. CASE u = t
    BY <2>1
  <2>2. CASE u # t
    <3>1. /\ HeldAt(u, {"out", "unlink", "recycle"}) => HeldAt(u, {"out", "unlink", "recycle"})'
          /\ HeldAt(u, {"erased"}) => HeldAt(u, {"erased"})'
          /\ HeldAt(u, {"erased", "recycle"}) => HeldAt(u, {"erased", "recycle"})'
      BY DEF HeldAt
    <3>2. (\E q \in Proc : pc[q] = "push" /\ wakee[q] = u)
            => \E q \in Proc : pc'[q] = "push" /\ wakee'[q] = u
      BY <2>2
    <3> QED
      BY <2>2, <3>1, <3>2 DEF Tasks
  <2> QED
    BY <2>1, <2>2
<1>4. Successors(m)'
  <2> SUFFICES ASSUME NEW q \in Proc, nextTask[q] # NoTask
               PROVE  m[nextTask[q]] = RunnableOf(q)
    BY DEF Successors
  <2>1. nextTask[q] \in Task /\ l[nextTask[q]] = RunnableOf(q)
    BY DEF Successors, TypeOK
  <2> QED
    BY <2>1, Places
<1> QED
  BY <1>1, <1>2, <1>3, <1>4

\* A timer or an fd wakes a task of its own Processer.
LEMMA WakeupOwnCore ==
  ASSUME TypeOK, NEW l \in [Task -> Loc], Core(l), NEW p \in Proc, NEW t \in Task,
         WakeupOwn(p, t)
  PROVE  \E k \in [Task -> Loc] : Core(k)'
<1>1. /\ state[t] = "block" /\ l[t] = Nowhere /\ t \in live
      /\ t \notin syncWait /\ t \in ownWait
  BY DEF Core, Waiting, WakeupOwn
<1>2. \A q \in Proc : runningTask[q] # t
  <2>1. runningTask[p] = NoTask
    BY DEF WakeupOwn, Core, Running, Pos, OffLabel
  <2> QED
    BY <2>1, ProcesserAssumption DEF WakeupOwn, Core, Running, RunsTask
<1>3. PICK m : m = [l EXCEPT ![t] = RunnableOf(p)]
  OBVIOUS
<1>4. /\ m[t] = RunnableOf(p) /\ m \in [Task -> Loc] /\ m[t] # Nowhere
      /\ \A u \in Task \ {t} : m[u] = l[u]
  BY <1>3, Places
<1>5. /\ runnableQueue' = [runnableQueue EXCEPT ![p] = Append(@, t)]
      /\ state'[t] = "runnable" /\ \A u \in Task \ {t} : state'[u] = state[u]
      /\ ownWait' = ownWait \ {t}
      /\ UNCHANGED <<runningTask, nextTask, pc, wakee, caller, syncWait, proc,
                     live, newQueue, moved, part, stolen>>
  BY DEF WakeupOwn, TypeOK, avgVars
<1>6. Lists(m)'
  BY <1>1, <1>3, <1>5, ListsPush DEF Core
<1>7. \A q \in Proc : Pos(q)' = Pos(q)
  BY <1>5 DEF Pos
<1>8. /\ \A q \in Proc : pc[q] = "push" => wakee[q] # t
      /\ \A q \in Proc : pc[q] = "push" => wakee[q] \in Task
  BY <1>1 DEF Core, Waking, TypeOK
<1>9. Waking(m)'
  <2>1. \A q \in Proc : pc[q] = "push" => wakee[q] \in Task \ {t}
    BY <1>8
  <2> QED
    BY <1>4, <1>5, <2>1 DEF Core, Waking
<1>10. syncWait' \subseteq Task /\ ownWait' \subseteq Task
  BY <1>5 DEF TypeOK
<1>11. Core(m)'
  BY <1>1, <1>2, <1>4, <1>5, <1>6, <1>7, <1>9, <1>10, WakeStep
<1> QED
  BY <1>4, <1>11

\* A waker takes a task out of its wait queue and marks it runnable.
LEMMA WakeupBeginCore ==
  ASSUME TypeOK, NEW l, Core(l), NEW p \in Proc, NEW t \in Task, WakeupBegin(p, t)
  PROVE  Core(l)'
<1>1. /\ state[t] = "block" /\ l[t] = Nowhere /\ t \in live /\ proc[t] \in Proc
      /\ t \in syncWait /\ t \notin ownWait
  BY DEF Core, Waiting, WakeupBegin
<1>2. \A q \in Proc : pc[q] = "push" => wakee[q] # t
  BY <1>1 DEF Core, Waking
<1>3. /\ state'[t] = "runnable" /\ \A u \in Task \ {t} : state'[u] = state[u]
      /\ syncWait' = syncWait \ {t}
      /\ wakee'[p] = t /\ \A q \in Proc \ {p} : wakee'[q] = wakee[q]
      /\ caller'[p] = pc[p] /\ \A q \in Proc \ {p} : caller'[q] = caller[q]
      /\ pc'[p] = "push" /\ \A q \in Proc \ {p} : pc'[q] = pc[q]
      /\ pc[p] \in {"run", "registered", "serve"}
      /\ UNCHANGED <<runningTask, nextTask, ownWait, proc, live>>
      /\ UNCHANGED <<runnableQueue, newQueue, moved, part, stolen>>
  BY DEF WakeupBegin, Goto, TypeOK, avgVars
<1>4. Lists(l)'
  BY <1>3, ListsSame DEF Core
<1>5. \A q \in Proc : /\ Pos(q)' = Pos(q)
                      /\ pc'[q] = "erased" <=> pc[q] = "erased"
                      /\ pc'[q] = "out" <=> pc[q] = "out"
                      /\ pc'[q] = "unlink" <=> pc[q] = "unlink"
                      /\ pc'[q] = "recycle" <=> pc[q] = "recycle"
  BY <1>3 DEF Pos
<1>6. \A q \in Proc : runningTask[q] = t =>
        pc[q] # "erased" /\ l[t] \in {Nowhere, RunnableOf(q)}
  BY <1>1, ProcesserAssumption DEF Core, Running, RunsTask
<1>7. Waking(l)'
  <2> SUFFICES ASSUME NEW q \in Proc, pc'[q] = "push"
               PROVE  /\ state'[wakee'[q]] = "runnable" /\ l[wakee'[q]] = Nowhere
                      /\ wakee'[q] \in live /\ proc[wakee'[q]] \in Proc
                      /\ \A r \in Proc : pc'[r] = "push" /\ wakee'[r] = wakee'[q]
                                           => r = q
    BY <1>3 DEF Waking
  <2>1. CASE q = p
    BY <1>1, <1>2, <1>3, <2>1
  <2>2. CASE q # p
    <3>1. pc[q] = "push" /\ wakee'[q] = wakee[q] /\ wakee[q] \in Task \ {t}
      BY <1>2, <1>3, <2>2 DEF Core, Waking, TypeOK
    <3> QED
      BY <1>2, <1>3, <2>2, <3>1 DEF Core, Waking
  <2> QED
    BY <2>1, <2>2
<1>8. syncWait' \subseteq Task /\ ownWait' \subseteq Task
  BY <1>3 DEF TypeOK
<1>9. \A q \in Proc : pc[q] = "push" /\ wakee[q] # t
                        => pc'[q] = "push" /\ wakee'[q] = wakee[q]
  BY <1>3
<1>10. \E q \in Proc : pc'[q] = "push" /\ wakee'[q] = t
  BY <1>3
<1> QED
  BY <1>1, <1>3, <1>4, <1>5, <1>6, <1>7, <1>8, <1>9, <1>10, WakeStep

\* The waker links the task again.
LEMMA WakeupPushCore ==
  ASSUME TypeOK, NEW l \in [Task -> Loc], Core(l), NEW p \in Proc, WakeupPush(p),
         wakee[p] # NoTask
  PROVE  \E k \in [Task -> Loc] : Core(k)'
<1>1. PICK t \in Task : t = wakee[p]
  BY DEF TypeOK
<1>2. /\ pc[p] = "push" /\ state[t] = "runnable" /\ l[t] = Nowhere
      /\ t \in live /\ proc[t] \in Proc
      /\ \A q \in Proc \ {p} : pc[q] = "push" => wakee[q] # t
  BY <1>1 DEF Core, Waking, WakeupPush
<1>3. PICK m : m = [l EXCEPT ![t] = RunnableOf(proc[t])]
  OBVIOUS
<1>4. /\ m[t] = RunnableOf(proc[t]) /\ m \in [Task -> Loc] /\ m[t] # Nowhere
      /\ \A u \in Task \ {t} : m[u] = l[u]
  BY <1>2, <1>3, Places
<1>5. /\ runnableQueue' = [runnableQueue EXCEPT ![proc[t]] = Append(@, t)]
      /\ pc'[p] = "interrupt" /\ \A q \in Proc \ {p} : pc'[q] = pc[q]
      /\ UNCHANGED <<runningTask, nextTask, wakee, caller, syncWait, ownWait,
                     state, proc, live>>
      /\ UNCHANGED <<newQueue, moved, part, stolen>>
  BY <1>1 DEF WakeupPush, TypeOK, wakeVars, taskVars, avgVars, Goto
<1>6. Lists(m)'
  BY <1>2, <1>3, <1>5, ListsPush DEF Core
<1>7. \A q \in Proc : /\ Pos(q)' = Pos(q)
                      /\ pc'[q] = "erased" <=> pc[q] = "erased"
                      /\ pc'[q] = "out" <=> pc[q] = "out"
                      /\ pc'[q] = "unlink" <=> pc[q] = "unlink"
                      /\ pc'[q] = "recycle" <=> pc[q] = "recycle"
  BY <1>2, <1>5 DEF Pos
<1>8. \A q \in Proc : runningTask[q] = t =>
        pc[q] # "erased" /\ m[t] \in {Nowhere, RunnableOf(q)}
  BY <1>2, <1>4, ProcesserAssumption DEF Core, Running, RunsTask
<1>9. Waking(m)'
  <2>1. \A q \in Proc : pc'[q] = "push" =>
          pc[q] = "push" /\ wakee[q] # t /\ wakee[q] \in Task
    BY <1>2, <1>5 DEF Core, Waking, TypeOK
  <2> QED
    BY <1>4, <1>5, <2>1 DEF Core, Waking
<1>10. /\ syncWait \subseteq Task /\ ownWait \subseteq Task
       /\ t \notin syncWait \union ownWait
  BY <1>2 DEF TypeOK, Core, Waiting
<1>11. \A q \in Proc : pc[q] = "push" /\ wakee[q] # t
                        => pc'[q] = "push" /\ wakee'[q] = wakee[q]
  BY <1>1, <1>5
<1>12. Core(m)'
  BY <1>2, <1>4, <1>5, <1>6, <1>7, <1>8, <1>9, <1>10, <1>11, WakeStep
<1> QED
  BY <1>4, <1>12

\* The waker goes back to what it was doing.
LEMMA WakeupInterruptCore ==
  ASSUME TypeOK, NEW l, Core(l), NEW p \in Proc, WakeupInterrupt(p)
  PROVE  Core(l)'
<1>1. /\ pc[p] = "interrupt" /\ caller[p] \in {"run", "registered", "serve"}
      /\ pc'[p] = caller[p] /\ \A q \in Proc \ {p} : pc'[q] = pc[q]
      /\ \A q \in Proc \ {p} : wakee'[q] = wakee[q] /\ caller'[q] = caller[q]
      /\ UNCHANGED <<runningTask, nextTask, syncWait, ownWait, state, proc, live>>
      /\ UNCHANGED <<runnableQueue, newQueue, moved, part, stolen>>
  BY DEF WakeupInterrupt, TypeOK, taskVars, avgVars, Goto
<1>2. \A q \in Proc : /\ Pos(q)' = Pos(q)
                      /\ pc'[q] = "erased" <=> pc[q] = "erased"
                      /\ pc'[q] = "out" <=> pc[q] = "out"
                      /\ pc'[q] = "unlink" <=> pc[q] = "unlink"
                      /\ pc'[q] = "recycle" <=> pc[q] = "recycle"
                      /\ pc'[q] = "push" <=> pc[q] = "push"
                      /\ pc[q] = "push" => wakee'[q] = wakee[q]
  BY <1>1 DEF Pos
<1>3. Lists(l)'
  BY <1>1, ListsSame DEF Core
<1>4. Running(l)'
  BY <1>1, <1>2 DEF Core, Running, RunsTask
<1>5. Waiting(l)' /\ Successors(l)'
  BY <1>1 DEF Core, Waiting, Successors
<1>6. Waking(l)'
  BY <1>1, <1>2 DEF Core, Waking
<1>7. Tasks(l)'
  <2>1. \A u \in Task :
          /\ HeldAt(u, {"out", "unlink", "recycle"}) => HeldAt(u, {"out", "unlink", "recycle"})'
          /\ HeldAt(u, {"erased"}) => HeldAt(u, {"erased"})'
          /\ HeldAt(u, {"erased", "recycle"}) => HeldAt(u, {"erased", "recycle"})'
    BY <1>1, <1>2 DEF HeldAt
  <2>2. \A u \in Task : (\E q \in Proc : pc[q] = "push" /\ wakee[q] = u)
          => \E q \in Proc : pc'[q] = "push" /\ wakee'[q] = u
    BY <1>2
  <2> QED
    BY <1>1, <2>1, <2>2 DEF Core, Tasks
<1> QED
  BY <1>3, <1>4, <1>5, <1>6, <1>7 DEF Core

\* A task is created and pushed to the newQueue_ of p.
LEMMA CreateCore ==
  ASSUME TypeOK, NEW l \in [Task -> Loc], Core(l), NEW p \in Proc, NEW t \in Task,
         CreateTask(t, p)
  PROVE  \E k \in [Task -> Loc] : Core(k)'
<1>1. /\ t \notin live /\ l[t] = Nowhere /\ t \notin syncWait \union ownWait
      /\ \A q \in Proc : runningTask[q] # t
      /\ \A q \in Proc : pc[q] = "push" => wakee[q] # t
  BY ProcesserAssumption
     DEF CreateTask, Core, Tasks, Waiting, Waking, Running, RunsTask
<1>2. state[t] = "runnable"
  <2>1. ~ HeldAt(t, {"out", "unlink", "recycle"}) /\ ~ HeldAt(t, {"erased"})
    BY <1>1 DEF HeldAt
  <2>2. state[t] # "done" /\ state[t] # "block"
    BY <1>1, <2>1 DEF Core, Tasks
  <2> QED
    BY <2>2 DEF TypeOK
<1>3. /\ newQueue' = [newQueue EXCEPT ![p] = Append(@, t)]
      /\ live' = live \union {t}
      /\ UNCHANGED <<runningTask, nextTask, pc, wakee, caller, syncWait, ownWait,
                     state, proc>>
      /\ UNCHANGED <<runnableQueue, moved, part, stolen>>
  BY DEF CreateTask, AddTask, wakeVars, avgVars
<1>4. PICK m : m = [l EXCEPT ![t] = NewOf(p)]
  OBVIOUS
<1>5. /\ m[t] = NewOf(p) /\ m \in [Task -> Loc] /\ m[t] # Nowhere
      /\ \A u \in Task \ {t} : m[u] = l[u]
  BY <1>4, Places
<1>6. Lists(m)'
  <2> USE Places
  <2>1. ASSUME NEW q \in Proc PROVE Holds(newQueue'[q], m, NewOf(q))
    <3>1. CASE q = p
      <4>1. newQueue'[p] = Append(newQueue[p], t) /\ newQueue[p] \in Seq(Task)
        BY <1>3 DEF TypeOK
      <4>2. Holds(newQueue[p], l, NewOf(p)) /\ l[t] # NewOf(p)
        BY <1>1 DEF Core, Lists
      <4>3. Holds(Append(newQueue[p], t), m, NewOf(p))
        BY <1>5, <4>1, <4>2, HoldsAppend
      <4> QED
        BY <3>1, <4>1, <4>3
    <3>2. CASE q # p
      <4>1. newQueue'[q] = newQueue[q]
        BY <1>3, <3>2 DEF TypeOK
      <4>2. \A u \in Task : m[u] = NewOf(q) <=> l[u] = NewOf(q)
        BY <1>1, <1>5, <3>2
      <4> QED
        BY <4>1, <4>2, HoldsSame DEF Core, Lists
    <3> QED
      BY <3>1, <3>2
  <2>2. \A q \in Proc : /\ Holds(runnableQueue[q], m, RunnableOf(q))
                        /\ Holds(moved[q], m, MovedOf(q))
    BY <1>1, <1>5, HoldsSame DEF Core, Lists
  <2>3. Holds(part, m, InPart) /\ Holds(stolen, m, InStolen)
    BY <1>1, <1>5, HoldsSame DEF Core, Lists
  <2> QED
    BY <1>3, <2>1, <2>2, <2>3 DEF Lists
<1>7. \A q \in Proc : Pos(q)' = Pos(q)
  BY <1>3 DEF Pos
<1>8. Waking(m)'
  <2>1. \A q \in Proc : pc[q] = "push" => wakee[q] \in Task \ {t}
    BY <1>1 DEF Core, Waking, TypeOK
  <2> QED
    BY <1>3, <1>5, <2>1 DEF Core, Waking
<1>9. syncWait \subseteq Task /\ ownWait \subseteq Task
  BY DEF TypeOK
<1>10. \A u \in Task \ {t} : u \in live' <=> u \in live
  BY <1>3
<1>11. t \in live'
  BY <1>3
<1>12. Core(m)'
  BY <1>1, <1>2, <1>3, <1>5, <1>6, <1>7, <1>8, <1>9, <1>10, <1>11, WakeStep
<1> QED
  BY <1>5, <1>12

\* What RecycleDone(p) does to the finished task d and the successor n.
Recycles(l, p, d, n) ==
      /\ d = runningTask[p] /\ RunsTask(l, p, d) /\ Pos(p) = pc[p]
      /\ pc[p] = "recycle" /\ state[d] = "done" /\ l[d] = Nowhere
      /\ d \notin syncWait \union ownWait
      /\ \A q \in Proc : pc[q] = "push" => wakee[q] # d
      /\ \A q \in Proc \ {p} : runningTask[q] # d
      /\ n # NoTask => /\ l[n] = RunnableOf(p) /\ n # d /\ n \in Task
                       /\ state[n] = "runnable" /\ n \in live
                       /\ n \notin syncWait \union ownWait
                       /\ \A q \in Proc : runningTask[q] # n
                       /\ \A q \in Proc : pc[q] = "push" => wakee[q] # n
      /\ live' = live \ {d}
      /\ runningTask'[p] = n
      /\ \A q \in Proc \ {p} : /\ runningTask'[q] = runningTask[q]
                               /\ pc'[q] = pc[q] /\ nextTask'[q] = nextTask[q]
      /\ state'[d] = "runnable" /\ \A u \in Task \ {d} : state'[u] = state[u]
      /\ proc'[d] = NoProc
      /\ n # NoTask => proc'[n] = p
      /\ \A u \in Task \ {d, n} : proc'[u] = proc[u]
      /\ pc'[p] = (IF n # NoTask THEN "run" ELSE "endpass")
      /\ nextTask'[p] = NoTask
      /\ UNCHANGED <<wakee, caller, syncWait, ownWait>>
      /\ UNCHANGED <<runnableQueue, newQueue, moved, part, stolen>>

\* The finished task becomes available to CreateTask, and the thread goes on with
\* the saved successor, if there is one, which is ready.
LEMMA RecycleTask ==
  ASSUME TypeOK, NEW l, Core(l), NEW p \in Proc, RecycleDone(p)
  PROVE  \E d \in Task, n \in Task \union {NoTask} : Recycles(l, p, d, n)
<1> USE DEF Core
<1>1. PICK d \in Task : /\ d = runningTask[p] /\ RunsTask(l, p, d)
                        /\ Pos(p) = pc[p] /\ pc[p] = "recycle"
  BY RunningTask DEF RecycleDone, OffLabel
<1>2. PICK n \in Task \union {NoTask} : n = nextTask[p]
  BY DEF TypeOK
<1>3. /\ state[d] = "done" /\ l[d] = Nowhere /\ proc[d] = p
      /\ d \notin syncWait \union ownWait
      /\ \A q \in Proc : pc[q] = "push" => wakee[q] # d
      /\ \A q \in Proc \ {p} : runningTask[q] # d
  BY <1>1, ProcesserAssumption DEF RunsTask, Waiting, Waking, Running
<1>4. n # NoTask => /\ l[n] = RunnableOf(p) /\ n # d /\ n \in Task
                    /\ state[n] = "runnable" /\ n \in live
                    /\ n \notin syncWait \union ownWait
                    /\ \A q \in Proc : runningTask[q] # n
                    /\ \A q \in Proc : pc[q] = "push" => wakee[q] # n
  <2> SUFFICES ASSUME n # NoTask
               PROVE  /\ l[n] = RunnableOf(p) /\ n # d /\ n \in Task
                      /\ state[n] = "runnable" /\ n \in live
                      /\ n \notin syncWait \union ownWait
                      /\ \A q \in Proc : runningTask[q] # n
                      /\ \A q \in Proc : pc[q] = "push" => wakee[q] # n
    OBVIOUS
  <2>1. n \in Task /\ l[n] = RunnableOf(p)
    BY <1>2 DEF Successors
  <2>2. n # d
    BY <1>3, <2>1, Places
  <2>3. runningTask[p] # n
    BY <1>1, <2>2
  <2> QED
    BY <2>1, <2>2, <2>3, ReadyTask
<1>5. /\ live' = live \ {d}
      /\ runningTask'[p] = n
      /\ \A q \in Proc \ {p} : /\ runningTask'[q] = runningTask[q]
                               /\ pc'[q] = pc[q] /\ nextTask'[q] = nextTask[q]
      /\ state'[d] = "runnable" /\ \A u \in Task \ {d} : state'[u] = state[u]
      /\ proc'[d] = NoProc
      /\ n # NoTask => proc'[n] = p
      /\ \A u \in Task \ {d, n} : proc'[u] = proc[u]
      /\ pc'[p] = (IF n # NoTask THEN "run" ELSE "endpass")
      /\ nextTask'[p] = NoTask
      /\ UNCHANGED <<wakee, caller, syncWait, ownWait>>
      /\ UNCHANGED <<runnableQueue, newQueue, moved, part, stolen>>
  <2>1. /\ live' = live \ {d}
        /\ runningTask' = [runningTask EXCEPT ![p] = n]
        /\ state' = [t \in Task |-> IF t \in {d, n} THEN "runnable" ELSE state[t]]
        /\ proc' = [t \in Task |-> CASE t = d -> NoProc
                                     [] t = n -> p
                                     [] OTHER -> proc[t]]
        /\ pc' = [pc EXCEPT ![p] = IF n # NoTask THEN "run" ELSE "endpass"]
        /\ nextTask' = [nextTask EXCEPT ![p] = NoTask]
        /\ UNCHANGED <<wakee, caller, syncWait, ownWait>>
        /\ UNCHANGED <<runnableQueue, newQueue, moved, part, stolen>>
    BY <1>1, <1>2 DEF RecycleDone, Goto, wakeVars, avgVars
  <2>2. /\ runningTask'[p] = n /\ nextTask'[p] = NoTask
        /\ pc'[p] = (IF n # NoTask THEN "run" ELSE "endpass")
        /\ \A q \in Proc \ {p} : /\ runningTask'[q] = runningTask[q]
                                 /\ pc'[q] = pc[q] /\ nextTask'[q] = nextTask[q]
    BY <2>1 DEF TypeOK
  <2>3. /\ state'[d] = "runnable"
        /\ n # NoTask => state'[n] = "runnable"
        /\ \A u \in Task \ {d, n} : state'[u] = state[u]
    BY <1>4, <2>1
  <2>4. /\ proc'[d] = NoProc
        /\ \A u \in Task \ {d, n} : proc'[u] = proc[u]
    <3>1. d # n
      BY <1>4, ProcesserAssumption
    <3>2. \A u \in Task : proc'[u] = CASE u = d -> NoProc
                                        [] u = n -> p
                                        [] OTHER -> proc[u]
      BY <2>1
    <3>3. proc'[d] = NoProc
      BY <3>1, <3>2
    <3>4. ASSUME NEW u \in Task \ {d, n} PROVE proc'[u] = proc[u]
      BY <3>2, <3>4
    <3> QED
      BY <3>3, <3>4
  <2>5. n # NoTask => proc'[n] = p
    BY <1>4, <2>1
  <2>6. \A u \in Task \ {d} : state'[u] = state[u]
    BY <1>4, <2>3, ProcesserAssumption
  <2> QED
    BY <2>1, <2>2, <2>3, <2>4, <2>5, <2>6
<1> QED
  BY <1>1, <1>3, <1>4, <1>5 DEF Recycles

\* RecycleDone keeps every task in its place.
LEMMA RecycleCore ==
  ASSUME TypeOK, NEW l, Core(l), NEW p \in Proc, RecycleDone(p)
  PROVE  Core(l)'
<1> USE DEF Core, Recycles
<1>5. PICK d \in Task, n \in Task \union {NoTask} : Recycles(l, p, d, n)
  BY RecycleTask
<1>6. /\ Pos(p)' = pc'[p] /\ \A q \in Proc \ {p} : Pos(q)' = Pos(q)
      /\ \A q \in Proc : pc'[q] = "push" <=> pc[q] = "push"
  BY <1>5 DEF Pos
<1>7. Lists(l)'
  BY <1>5, ListsSame
<1>8. Running(l)'
  <2> SUFFICES ASSUME NEW q \in Proc
               PROVE  /\ runningTask'[q] = NoTask <=> Pos(q)' \in OffLabel
                      /\ runningTask'[q] # NoTask
                           => RunsTask(l, q, runningTask[q])'
    BY DEF Running
  <2>1. CASE q = p
    <3>1. CASE n = NoTask
      BY <1>5, <1>6, <2>1, <3>1 DEF OffLabel
    <3>2. CASE n # NoTask
      <4>1. Pos(p)' = "run" /\ pc'[p] = "run" /\ n \in live'
        BY <1>5, <1>6, <3>2
      <4>2. RunsTask(l, p, n)'
        BY <1>5, <3>2, <4>1 DEF RunsTask
      <4>3. "run" \notin OffLabel
        BY DEF OffLabel
      <4> QED
        BY <1>5, <2>1, <3>2, <4>1, <4>2, <4>3 DEF RunsTask
    <3> QED
      BY <3>1, <3>2
  <2>2. CASE q # p
    <3>1. runningTask[q] = NoTask <=> Pos(q) \in OffLabel
      BY DEF Running
    <3>2. ASSUME runningTask[q] # NoTask PROVE RunsTask(l, q, runningTask[q])'
      <4>1. RunsTask(l, q, runningTask[q]) /\ runningTask[q] \in Task \ {d, n}
        BY <1>5, <2>2, <3>2 DEF Running, TypeOK
      <4> QED
        BY <1>5, <1>6, <2>2, <4>1 DEF RunsTask
    <3> QED
      BY <1>5, <1>6, <2>2, <3>1, <3>2
  <2> QED
    BY <2>1, <2>2
<1>9. Waiting(l)'
  <2>1. \A u \in syncWait \union ownWait : u \in Task \ {d, n}
    BY <1>5, ProcesserAssumption DEF TypeOK
  <2> QED
    BY <1>5, <2>1 DEF Waiting
<1>10. Waking(l)'
  <2>1. \A q \in Proc : pc'[q] = "push" => pc[q] = "push" /\ wakee[q] \in Task \ {d, n}
    <3>1. \A q \in Proc : pc[q] = "push" => wakee[q] \in Task
      BY DEF Waking, TypeOK
    <3> QED
      BY <1>5, <1>6, <3>1, ProcesserAssumption
  <2> QED
    BY <1>5, <2>1 DEF Waking
<1>11. Tasks(l)'
  <2> SUFFICES ASSUME NEW u \in Task
        PROVE  /\ state'[u] = "done" => HeldAt(u, {"out", "unlink", "recycle"})'
               /\ state'[u] = "block" =>
                    u \in syncWait \union ownWait \/ HeldAt(u, {"erased"})'
               /\ l[u] # Nowhere => u \in live'
               /\ u \in live' /\ l[u] = Nowhere =>
                    \/ u \in syncWait \union ownWait
                    \/ \E q \in Proc : pc'[q] = "push" /\ wakee[q] = u
                    \/ HeldAt(u, {"erased", "recycle"})'
    BY <1>5 DEF Tasks
  <2>1. CASE u = d
    BY <1>5, <2>1
  <2>2. CASE u = n
    <3>1. n # NoTask
      BY <2>2, ProcesserAssumption
    <3> QED
      BY <1>5, <2>2, <3>1, Places
  <2>3. CASE u # d /\ u # n
    <3>1. \A L : HeldAt(u, L) => HeldAt(u, L)'
      <4> SUFFICES ASSUME NEW L, HeldAt(u, L) PROVE HeldAt(u, L)'
        OBVIOUS
      <4>1. proc[u] \in Proc \ {p}
        BY <1>5, <2>3 DEF HeldAt
      <4> QED
        BY <1>5, <2>3, <4>1 DEF HeldAt
    <3>2. /\ HeldAt(u, {"out", "unlink", "recycle"}) => HeldAt(u, {"out", "unlink", "recycle"})'
          /\ HeldAt(u, {"erased"}) => HeldAt(u, {"erased"})'
          /\ HeldAt(u, {"erased", "recycle"}) => HeldAt(u, {"erased", "recycle"})'
      BY <3>1
    <3> QED
      BY <1>5, <1>6, <2>3, <3>2 DEF Tasks
  <2> QED
    BY <2>1, <2>2, <2>3
<1>12. Successors(l)'
  BY <1>5 DEF Successors
<1> QED
  BY <1>7, <1>8, <1>9, <1>10, <1>11, <1>12

-----------------------------------------------------------------------------
(* Every step.                                                             *)

\* Start leaves the created tasks in newQueue_ of Processer 0.
LEMMA InitCore == Init => Buffers /\ \E l \in [Task -> Loc] : Core(l)
<1> SUFFICES ASSUME Init PROVE Buffers /\ \E l \in [Task -> Loc] : Core(l)
  OBVIOUS
<1> USE DEF Init
<1>1. Buffers
  BY DEF Buffers
<1>2. PICK l : l = [t \in Task |-> IF t \in ToSet(InitialTasks) THEN NewOf(0)
                                                                ELSE Nowhere]
  OBVIOUS
<1>3. l \in [Task -> Loc]
  BY <1>2, Places, ZeroProc
<1>4. /\ \A t \in Task : l[t] \in {NewOf(0), Nowhere}
      /\ \A t \in Task : l[t] = NewOf(0) <=> t \in ToSet(InitialTasks)
  BY <1>2, Places, ZeroProc
<1>5. Lists(l)
  <2>1. Holds(InitialTasks, l, NewOf(0))
    BY <1>4, ProcesserAssumption DEF Holds
  <2>2. ASSUME NEW x, x \notin {NewOf(0), Nowhere}
        PROVE  Holds(<<>>, l, x)
    BY <1>4, <2>2, HoldsEmpty
  <2>3. ASSUME NEW p \in Proc
        PROVE  /\ Holds(runnableQueue[p], l, RunnableOf(p))
               /\ Holds(newQueue[p], l, NewOf(p))
               /\ Holds(moved[p], l, MovedOf(p))
    <3>1. Holds(<<>>, l, RunnableOf(p)) /\ Holds(<<>>, l, MovedOf(p))
      BY <2>2, Places, ZeroProc
    <3>2. CASE p = 0
      BY <2>1, <3>1, <3>2
    <3>3. CASE p # 0
      <4>1. Holds(<<>>, l, NewOf(p))
        BY <2>2, <3>3, Places, ZeroProc
      <4> QED
        BY <3>1, <3>3, <4>1
    <3> QED
      BY <3>2, <3>3
  <2>4. Holds(part, l, InPart) /\ Holds(stolen, l, InStolen)
    BY <2>2, Places, ZeroProc
  <2> QED
    BY <2>3, <2>4 DEF Lists
<1>6. Running(l)
  BY DEF Running, Pos, OffLabel
<1>7. Waiting(l) /\ Waking(l)
  BY DEF Waiting, Waking
<1>8. Tasks(l)
  <2>1. NewOf(0) # Nowhere
    BY Places, ZeroProc
  <2> QED
    BY <1>4, <2>1 DEF Tasks
<1>9. Successors(l)
  BY DEF Successors
<1> QED
  BY <1>1, <1>3, <1>5, <1>6, <1>7, <1>8, <1>9 DEF Core

\* A step of thread p that leaves the lists of the others alone.
LEMMA BuffersStep ==
  ASSUME TypeOK, Buffers, NEW p \in Proc, NEW L \in Label,
         pc' \in {pc, [pc EXCEPT ![p] = L]},
         \/ moved' = moved /\ pc[p] \notin {"idlePush", "passPush"}
         \/ moved' = [moved EXCEPT ![p] = <<>>]
         \/ moved' = [moved EXCEPT ![p] = newQueue[p]] /\ L \in {"idlePush", "passPush"}
              /\ pc' # pc,
         UNCHANGED <<part, dpc>>
  PROVE  Buffers'
<1> SUFFICES ASSUME NEW q \in Proc, pc'[q] \notin {"idlePush", "passPush"}
             PROVE  moved'[q] = <<>>
  BY DEF Buffers
<1>1. CASE q = p
  BY <1>1 DEF Buffers, TypeOK
<1>2. CASE q # p
  BY <1>2 DEF Buffers, TypeOK
<1> QED
  BY <1>1, <1>2

\* newQueue_ is moved in two steps, and so is what Steal takes.
LEMMA StepBuffers ==
  ASSUME TypeOK, Buffers, [Next]_vars
  PROVE  Buffers'
<1> USE DEF procVars, wakeVars, taskVars, avgVars
<1>1. ASSUME NEW p \in Proc, Process(p) PROVE Buffers'
  <2> USE DEF Goto, Label
  <2>1. CASE PickFront(p)
    BY <2>1, BuffersStep DEF PickFront, SwapIn
  <2>2. CASE AddNewTasksEmpty(p)
    BY <2>2, BuffersStep DEF AddNewTasksEmpty
  <2>3. CASE AddNewTasksTake(p)
    <3>1. pc' # pc
      BY <2>3 DEF AddNewTasksTake, TypeOK
    <3> QED
      BY <2>3, <3>1, BuffersStep DEF AddNewTasksTake
  <2>4. CASE AddNewTasksPush(p)
    BY <2>4, BuffersStep DEF AddNewTasksPush
  <2>5. CASE WaitLoopReturn(p) \/ InterrupterReset(p) \/ WakeupTimersReturn(p)
    BY <2>5, BuffersStep DEF WaitLoopReturn, InterrupterReset, WakeupTimersReturn
  <2>6. CASE AfterBlock(p) \/ AfterYield(p)
    BY <2>6, BuffersStep DEF AfterBlock, AfterYield, RunNext, SwapIn
  <2>7. CASE AfterDone(p) \/ UnlinkDone(p) \/ RecycleDone(p)
    BY <2>7, BuffersStep DEF AfterDone, UnlinkDone, RecycleDone
  <2> QED
    BY <1>1, <2>1, <2>2, <2>3, <2>4, <2>5, <2>6, <2>7 DEF Process
<1>2. ASSUME NEW p \in Proc, Library(p) PROVE Buffers'
  <2> USE DEF Goto, Label
  <2>1. CASE RegisterSync(p) \/ RegisterOwn(p) \/ WakeupSelf(p)
    BY <2>1, BuffersStep DEF RegisterSync, RegisterOwn, WakeupSelf
  <2>2. CASE SwapOutSuspended(p) \/ WakeupPush(p)
    BY <2>2, BuffersStep DEF SwapOutSuspended, SwapOut, WakeupPush
  <2>3. CASE WakeupInterrupt(p)
    <3>1. caller[p] \in Label
      BY DEF TypeOK
    <3> QED
      BY <2>3, <3>1, BuffersStep DEF WakeupInterrupt
  <2> QED
    BY <1>2, <2>1, <2>2, <2>3 DEF Library
<1>3. ASSUME NEW p \in Proc, CoYield(p) \/ Done(p) \/ SuspendBySelfIO(p)
      PROVE  Buffers'
  BY <1>3, BuffersStep DEF CoYield, Done, SwapOut, SuspendBySelfIO, Goto, Label
<1>4. ASSUME NEW p \in Proc, NEW t \in Task,
             WakeupOwn(p, t) \/ WakeupBegin(p, t) \/ CreateTask(t, p)
      PROVE  Buffers'
  <2>1. CASE WakeupBegin(p, t)
    BY <2>1, BuffersStep DEF WakeupBegin, Goto, Label
  <2>2. CASE WakeupOwn(p, t) \/ CreateTask(t, p)
    BY <2>2 DEF WakeupOwn, CreateTask, Buffers
  <2> QED
    BY <1>4, <2>1, <2>2
<1>5. CASE DispatcherThread
  BY <1>5 DEF DispatcherThread, Buffers
<1>6. CASE AvgTotalTasks
  <2>1. ASSUME Return, UNCHANGED <<moved, part>>, dpc # "stealRunnable"
        PROVE  Buffers'
    BY <2>1 DEF Return, Buffers, TypeOK
  <2>2. CASE CountRunnable
    BY <2>2 DEF CountRunnable, Buffers
  <2>3. CASE CountNew
    BY <2>1, <2>3 DEF CountNew, Buffers
  <2>4. CASE StealNothing \/ GiveNothing \/ GiveTasks
    BY <2>4 DEF StealNothing, GiveNothing, GiveTasks, NextIndex, Buffers
  <2>5. CASE StealNew
    BY <2>5 DEF StealNew, NextIndex, Buffers
  <2>6. CASE StealRunnable
    BY <2>6 DEF StealRunnable, NextIndex, Buffers
  <2>7. CASE GiveRest
    BY <2>1, <2>7 DEF GiveRest
  <2> QED
    BY <1>6, <2>2, <2>3, <2>4, <2>5, <2>6, <2>7 DEF AvgTotalTasks
<1>7. CASE UNCHANGED vars
  BY <1>7 DEF Buffers, vars
<1> QED
  BY <1>1, <1>2, <1>3, <1>4, <1>5, <1>6, <1>7 DEF Next

\* A step that moves no task.
LEMMA StillCore ==
  ASSUME TypeOK, NEW l, Core(l),
         UNCHANGED <<runnableQueue, newQueue, moved, part, stolen>>,
         UNCHANGED <<runningTask, nextTask, wakee, caller, state, proc, live,
                     syncWait, ownWait>>,
         \A p \in Proc : \/ pc'[p] = pc[p]
                         \/ pc[p] \in OffLabel /\ pc'[p] \in OffLabel
  PROVE  Core(l)'
<1>1. Lists(l)'
  BY ListsSame DEF Core
<1> QED
  BY <1>1, Relocation

\* The top of the loop of Process takes a task of runnableQueue_, when it holds
\* one.
LEMMA PickFrontTask ==
  ASSUME TypeOK, NEW l, Core(l), NEW p \in Proc, PickFront(p)
  PROVE  \E t \in Task \union {NoTask} :
           /\ pc[p] \in {"front", "again"} /\ runningTask[p] = NoTask
           /\ IF t # NoTask
              THEN /\ l[t] = RunnableOf(p) /\ t \in ToSet(runnableQueue[p])
                   /\ SwapIn(p, t)
              ELSE /\ runnableQueue[p] = <<>>
                   /\ Goto(p, IF pc[p] = "front" THEN "idle" ELSE "wait")
                   /\ UNCHANGED <<runningTask, state, proc>>
<1>1. PICK t \in Task \union {NoTask} : t = First(runnableQueue[p])
  BY FirstType DEF TypeOK
<1>2. pc[p] \in {"front", "again"} /\ runningTask[p] = NoTask
  <2>1. pc[p] \in {"front", "again"}
    BY DEF PickFront
  <2>2. Pos(p) \in OffLabel
    BY <2>1 DEF Pos, OffLabel
  <2> QED
    BY <2>1, <2>2 DEF Core, Running
<1>3. CASE t # NoTask
  <2>1. t \in ToSet(runnableQueue[p]) /\ t \in Task
    BY <1>1, <1>3, FirstInToSet DEF TypeOK
  <2>2. l[t] = RunnableOf(p)
    BY <2>1 DEF Core, Lists, Holds
  <2>3. SwapIn(p, t)
    BY <1>1, <1>3 DEF PickFront
  <2> QED
    BY <1>2, <1>3, <2>1, <2>2, <2>3
<1>4. CASE t = NoTask
  <2>1. runnableQueue[p] = <<>>
    BY <1>1, <1>4, FirstInToSet DEF TypeOK
  <2> QED
    BY <1>1, <1>2, <1>4, <2>1 DEF PickFront
<1> QED
  BY <1>3, <1>4

\* Either way every task stays in its place.
LEMMA PickFrontCore ==
  ASSUME TypeOK, NEW l, Core(l), NEW p \in Proc, PickFront(p)
  PROVE  Core(l)'
<1> USE DEF procVars, wakeVars, taskVars, avgVars
<1>1. PICK t \in Task \union {NoTask} :
           /\ pc[p] \in {"front", "again"} /\ runningTask[p] = NoTask
           /\ IF t # NoTask
              THEN l[t] = RunnableOf(p) /\ SwapIn(p, t)
              ELSE /\ Goto(p, IF pc[p] = "front" THEN "idle" ELSE "wait")
                   /\ UNCHANGED <<runningTask, state, proc>>
  BY PickFrontTask
<1>2. UNCHANGED <<runnableQueue, newQueue, nextTask, moved, part, stolen,
                  wakee, caller, live, syncWait, ownWait>>
  BY DEF PickFront
<1>3. CASE t # NoTask
  BY <1>1, <1>2, <1>3, SwapInCore DEF OffLabel
<1>4. CASE t = NoTask
  <2>1. \A q \in Proc : \/ pc'[q] = pc[q]
                        \/ pc[q] \in OffLabel /\ pc'[q] \in OffLabel
    BY <1>1, <1>4 DEF Goto, OffLabel, TypeOK
  <2> QED
    BY <1>1, <1>2, <1>4, <2>1, StillCore
<1> QED
  BY <1>3, <1>4

\* At the end of a coroutine's turn, when it suspended or yielded, the thread
\* takes the next task of runnableQueue_.
LEMMA RunNextTask ==
  ASSUME TypeOK, NEW l, Core(l), NEW p \in Proc, AfterBlock(p) \/ AfterYield(p)
  PROVE  /\ pc[p] = "out" /\ runningTask[p] \in Task
         /\ state[runningTask[p]] \in {"block", "runnable"}
         /\ \E t \in Task \union {NoTask} :
              /\ RunNext(p, t)
              /\ t # NoTask => /\ l[t] = RunnableOf(p) /\ runningTask[p] # t
                               /\ t \in ToSet(runnableQueue[p])
<1>1. PICK r \in Task : r = runningTask[p] /\ RunsTask(l, p, r) /\ pc[p] = "out"
  BY RunningTask DEF AfterBlock, AfterYield, OffLabel
<1>2. PICK t : /\ t = IF state[r] = "block" THEN nextTask[p]
                                            ELSE Succ(runnableQueue[p], r)
  OBVIOUS
<1>3. state[r] \in {"block", "runnable"} /\ RunNext(p, t)
  BY <1>1, <1>2 DEF AfterBlock, AfterYield
<1>4. t # NoTask => t \in Task /\ l[t] = RunnableOf(p) /\ t # r
  <2> SUFFICES ASSUME t # NoTask
               PROVE  t \in Task /\ l[t] = RunnableOf(p) /\ t # r
    OBVIOUS
  <2>1. CASE state[r] = "block"
    <3>1. t \in Task /\ l[t] = RunnableOf(p)
      BY <1>2, <2>1 DEF Core, Successors, TypeOK
    <3>2. r \in syncWait \union ownWait
      BY <1>1, <2>1 DEF Core, Tasks, HeldAt, RunsTask
    <3>3. l[r] = Nowhere
      BY <3>2 DEF Core, Waiting
    <3> QED
      BY <3>1, <3>3, Places
  <2>2. CASE state[r] # "block"
    <3>1. runnableQueue[p] \in Seq(Task) /\ IsInjective(runnableQueue[p])
      BY DEF TypeOK, Core, Lists, Holds
    <3>2. t \in ToSet(runnableQueue[p]) /\ t # r
      BY <1>2, <2>2, <3>1, SuccInToSet
    <3>3. t \in Task
      BY <3>1, <3>2, InToSet
    <3> QED
      BY <3>2, <3>3 DEF Core, Lists, Holds
  <2> QED
    BY <2>1, <2>2
<1>5. t # NoTask => t \in ToSet(runnableQueue[p])
  BY <1>4 DEF Core, Lists, Holds
<1> QED
  BY <1>1, <1>3, <1>4, <1>5

\* Switching to the next task moves none.
LEMMA RunNextCore ==
  ASSUME TypeOK, NEW l, Core(l), NEW p \in Proc, AfterBlock(p) \/ AfterYield(p)
  PROVE  Core(l)'
<1> USE DEF procVars, wakeVars, taskVars, avgVars
<1>1. PICK t \in Task \union {NoTask} :
        /\ pc[p] = "out" /\ state[runningTask[p]] # "done" /\ RunNext(p, t)
        /\ t # NoTask => l[t] = RunnableOf(p) /\ runningTask[p] # t
  BY RunNextTask
<1>2. /\ nextTask' \in {nextTask, [nextTask EXCEPT ![p] = NoTask]}
      /\ UNCHANGED <<runnableQueue, newQueue, moved, part, stolen, wakee,
                     caller, live, syncWait, ownWait>>
  BY DEF AfterBlock, AfterYield
<1>3. CASE t # NoTask
  BY <1>1, <1>2, <1>3, SwapInCore DEF RunNext
<1>4. CASE t = NoTask
  BY <1>1, <1>2, <1>4, PassOverCore DEF RunNext
<1> QED
  BY <1>3, <1>4

\* The last part of AvgTotalTasks, which ends the main thread's start.
LEMMA ReturnPc ==
  ASSUME TypeOK, Return
  PROVE  \A p \in Proc : \/ pc'[p] = pc[p]
                         \/ pc[p] \in OffLabel /\ pc'[p] \in OffLabel
  BY DEF Return, OffLabel, TypeOK

\* What is left of the stolen tasks goes to newQueue_ of Processer 0 ...
LEMMA GiveRestCore ==
  ASSUME TypeOK, NEW l \in [Task -> Loc], Core(l), GiveRest
  PROVE  \E k \in [Task -> Loc] : Core(k)'
<1> USE DEF procVars, wakeVars, taskVars, avgVars
<1>1. stolen \in Seq(Task) /\ newQueue \in [Proc -> Seq(Task)]
  BY DEF TypeOK
<1>2. PICK n \in Nat : n = Len(stolen)
  BY <1>1
<1>3. SubSeq(stolen, 1, n) = stolen /\ SubSeq(stolen, n + 1, Len(stolen)) = <<>>
  BY <1>1, <1>2
<1>4. /\ newQueue' = [newQueue EXCEPT ![0] = @ \o SubSeq(stolen, 1, n)]
      /\ stolen' = SubSeq(stolen, n + 1, Len(stolen))
      /\ UNCHANGED <<runnableQueue, moved, part, runningTask, nextTask, wakee,
                     caller, state, proc, live, syncWait, ownWait>>
      /\ Return
  BY <1>3 DEF GiveRest
<1>5. n \in 0 .. Len(stolen)
  BY <1>2
<1> QED
  BY <1>4, <1>5, ReturnPc, ZeroProc, GiveCore

\* ... and the first of them to the Processers below the average.
LEMMA GiveTasksCore ==
  ASSUME TypeOK, NEW l \in [Task -> Loc], Core(l), GiveTasks
  PROVE  \E k \in [Task -> Loc] : Core(k)'
<1> USE DEF procVars, wakeVars, taskVars, avgVars
<1>1. /\ stolen \in Seq(Task) /\ di \in Proc /\ cnt[di] \in Nat /\ total \in Nat
      /\ Avg \in Nat
  BY AvgType DEF TypeOK
<1>2. PICK n : n = IF Avg - cnt[di] < Len(stolen) THEN Avg - cnt[di]
                                                  ELSE Len(stolen)
  OBVIOUS
<1>3. cnt[di] < Avg
  BY DEF GiveTasks
<1>4. n \in 0 .. Len(stolen)
  BY <1>1, <1>2, <1>3
<1>5. /\ newQueue' = [newQueue EXCEPT ![di] = @ \o SubSeq(stolen, 1, n)]
      /\ stolen' = SubSeq(stolen, n + 1, Len(stolen))
      /\ UNCHANGED <<runnableQueue, moved, part, runningTask, nextTask, wakee,
                     caller, state, proc, live, syncWait, ownWait>>
      /\ pc' = pc
  BY <1>2 DEF GiveTasks
<1> QED
  BY <1>1, <1>4, <1>5, GiveCore

\* Every step keeps every task in one place.
LEMMA StepCore ==
  ASSUME TInv, Buffers, NEW l \in [Task -> Loc], Core(l), [Next]_vars
  PROVE  \E k \in [Task -> Loc] : Core(k)'
<1> USE DEF procVars, wakeVars, taskVars, avgVars
<1>0. TypeOK
  BY DEF TInv
<1>1. ASSUME NEW p \in Proc, Process(p) PROVE \E k \in [Task -> Loc] : Core(k)'
  <2>1. CASE PickFront(p)
    BY <1>0, <2>1, PickFrontCore
  <2>2. CASE AddNewTasksEmpty(p)
    <3>1. \A q \in Proc : \/ pc'[q] = pc[q]
                          \/ pc[q] \in OffLabel /\ pc'[q] \in OffLabel
      BY <1>0, <2>2 DEF AddNewTasksEmpty, Goto, OffLabel, TypeOK
    <3> QED
      BY <1>0, <2>2, <3>1, StillCore DEF AddNewTasksEmpty
  <2>3. CASE AddNewTasksTake(p)
    BY <1>0, <2>3, TakeCore
  <2>4. CASE AddNewTasksPush(p)
    BY <1>0, <2>4, PushCore
  <2>5. CASE WaitLoopReturn(p) \/ InterrupterReset(p) \/ WakeupTimersReturn(p)
    <3>1. \A q \in Proc : \/ pc'[q] = pc[q]
                          \/ pc[q] \in OffLabel /\ pc'[q] \in OffLabel
      BY <1>0, <2>5 DEF WaitLoopReturn, InterrupterReset, WakeupTimersReturn,
                        Goto, OffLabel, TypeOK
    <3>2. UNCHANGED <<runnableQueue, newQueue, moved, part, stolen>>
          /\ UNCHANGED <<runningTask, nextTask, wakee, caller, state, proc, live,
                         syncWait, ownWait>>
      BY <2>5 DEF WaitLoopReturn, InterrupterReset, WakeupTimersReturn
    <3> QED
      BY <1>0, <3>1, <3>2, StillCore
  <2>6. CASE AfterBlock(p) \/ AfterYield(p)
    BY <1>0, <2>6, RunNextCore
  <2>7. CASE AfterDone(p)
    BY <1>0, <2>7, AfterDoneCore
  <2>8. CASE UnlinkDone(p)
    BY <1>0, <2>8, UnlinkCore
  <2>9. CASE RecycleDone(p)
    BY <1>0, <2>9, RecycleCore
  <2> QED
    BY <1>1, <2>1, <2>2, <2>3, <2>4, <2>5, <2>6, <2>7, <2>8, <2>9 DEF Process
<1>2. ASSUME NEW p \in Proc, Library(p) PROVE \E k \in [Task -> Loc] : Core(k)'
  <2>1. CASE RegisterSync(p) \/ RegisterOwn(p)
    BY <1>0, <2>1, RegisterCore
  <2>2. CASE WakeupSelf(p)
    BY <1>0, <2>2, WakeupSelfCore
  <2>3. CASE SwapOutSuspended(p)
    BY <1>0, <2>3, SwapOutCore
  <2>4. CASE WakeupPush(p)
    <3>1. wakee[p] # NoTask
      BY <2>4 DEF WakeupPush, TInv, WakeeInv
    <3> QED
      BY <1>0, <2>4, <3>1, WakeupPushCore
  <2>5. CASE WakeupInterrupt(p)
    BY <1>0, <2>5, WakeupInterruptCore
  <2> QED
    BY <1>2, <2>1, <2>2, <2>3, <2>4, <2>5 DEF Library
<1>3. ASSUME NEW p \in Proc, CoYield(p) \/ Done(p) \/ SuspendBySelfIO(p)
      PROVE  \E k \in [Task -> Loc] : Core(k)'
  BY <1>0, <1>3, YieldCore, DoneCore, SuspendCore
<1>4. ASSUME NEW p \in Proc, NEW t \in Task,
             WakeupOwn(p, t) \/ WakeupBegin(p, t) \/ CreateTask(t, p)
      PROVE  \E k \in [Task -> Loc] : Core(k)'
  BY <1>0, <1>4, WakeupOwnCore, WakeupBeginCore, CreateCore
<1>5. CASE DispatcherThread
  BY <1>0, <1>5, StillCore DEF DispatcherThread
<1>6. CASE AvgTotalTasks
  <2>1. CASE CountRunnable
    BY <1>0, <2>1, StillCore DEF CountRunnable
  <2>2. CASE CountNew
    <3>1. \A p \in Proc : \/ pc'[p] = pc[p]
                          \/ pc[p] \in OffLabel /\ pc'[p] \in OffLabel
      BY <1>0, <2>2, ReturnPc DEF CountNew
    <3>2. UNCHANGED <<runnableQueue, newQueue, moved, part, stolen>>
          /\ UNCHANGED <<runningTask, nextTask, wakee, caller, state, proc, live,
                         syncWait, ownWait>>
      BY <2>2 DEF CountNew
    <3> QED
      BY <1>0, <3>1, <3>2, StillCore
  <2>3. CASE StealNothing
    BY <1>0, <2>3, StillCore DEF StealNothing
  <2>4. CASE StealNew
    BY <1>0, <2>4, StealNewCore
  <2>5. CASE StealRunnable
    BY <2>5, StealRunnableCore
  <2>6. CASE GiveNothing
    BY <1>0, <2>6, StillCore DEF GiveNothing
  <2>7. CASE GiveTasks
    BY <1>0, <2>7, GiveTasksCore
  <2>8. CASE GiveRest
    BY <1>0, <2>8, GiveRestCore
  <2> QED
    BY <1>6, <2>1, <2>2, <2>3, <2>4, <2>5, <2>6, <2>7, <2>8 DEF AvgTotalTasks
<1>7. CASE UNCHANGED vars
  BY <1>0, <1>7, StillCore DEF vars
<1> QED
  BY <1>1, <1>2, <1>3, <1>4, <1>5, <1>6, <1>7 DEF Next

\* The invariant.
THEOREM Invariant == Spec => []CInv
<1>1. Init => CInv
  BY InitTInv, InitCore DEF CInv
<1>2. CInv /\ [Next]_vars => CInv'
  <2> SUFFICES ASSUME CInv, [Next]_vars PROVE CInv'
    OBVIOUS
  <2>1. TInv' /\ Buffers'
    BY StepTInv, StepBuffers DEF CInv, TInv
  <2>2. \E k \in [Task -> Loc] : Core(k)'
    BY StepCore DEF CInv
  <2> QED
    BY <2>1, <2>2 DEF CInv
<1> QED
  BY <1>1, <1>2, PTL DEF Spec

-----------------------------------------------------------------------------
(* What it says about the lists and the threads.                           *)

\* A place lists the tasks that are there.
LEMMA ContentHolds ==
  ASSUME TypeOK, NEW l, Core(l), NEW x \in Place
  PROVE  /\ Content(x) \in Seq(Task) /\ Holds(Content(x), l, x)
         /\ x # Nowhere
<1>1. x # Nowhere
  BY DEF Place, Nowhere
<1>2. CASE x \in Proc \X {"runnable", "new", "moved"}
  <2>1. PICK p \in Proc : x \in {RunnableOf(p), NewOf(p), MovedOf(p)}
    BY <1>2 DEF RunnableOf, NewOf, MovedOf
  <2>2. /\ runnableQueue[p] \in Seq(Task) /\ newQueue[p] \in Seq(Task)
        /\ moved[p] \in Seq(Task)
        /\ Holds(runnableQueue[p], l, RunnableOf(p))
        /\ Holds(newQueue[p], l, NewOf(p)) /\ Holds(moved[p], l, MovedOf(p))
    BY DEF TypeOK, Core, Lists
  <2>3. /\ Content(RunnableOf(p)) = runnableQueue[p]
        /\ Content(NewOf(p)) = newQueue[p] /\ Content(MovedOf(p)) = moved[p]
    BY DEF Content, RunnableOf, NewOf, MovedOf
  <2> QED
    BY <1>1, <2>1, <2>2, <2>3
<1>3. CASE x \in {InPart, InStolen}
  <2>1. Content(InPart) = part /\ Content(InStolen) = stolen
    BY DEF Content, InPart, InStolen
  <2> QED
    BY <1>1, <1>3, <2>1 DEF TypeOK, Core, Lists
<1> QED
  BY <1>2, <1>3 DEF Place, InPart, InStolen

\* The converse: a task that is somewhere is linked there.
LEMMA LinkedTasks ==
  ASSUME TypeOK, NEW l \in [Task -> Loc], Core(l)
  PROVE  Linked = {t \in Task : l[t] # Nowhere}
<1>1. ASSUME NEW x \in Place PROVE ToSet(Content(x)) = {t \in Task : l[t] = x}
  <2>1. ToSet(Content(x)) \subseteq Task
    BY ContentHolds, InToSet
  <2> QED
    BY <2>1, ContentHolds DEF Holds
<1>2. \A t \in Task : l[t] # Nowhere <=> l[t] \in Place
  BY DEF Loc, Place, Nowhere
<1> QED
  BY <1>1, <1>2 DEF Linked

\* No task is linked twice.
LEMMA InvOnePlace == CInv => OnePlace
<1> SUFFICES ASSUME CInv, NEW x \in Place, NEW y \in Place,
                    NEW i \in 1 .. Len(Content(x)), NEW j \in 1 .. Len(Content(y)),
                    Content(x)[i] = Content(y)[j]
             PROVE  x = y /\ i = j
  BY DEF OnePlace
<1>1. PICK l \in [Task -> Loc] : Core(l)
  BY DEF CInv
<1>2. TypeOK
  BY DEF CInv, TInv
<1>3. /\ Content(x) \in Seq(Task) /\ Holds(Content(x), l, x)
      /\ Content(y) \in Seq(Task) /\ Holds(Content(y), l, y)
  BY <1>1, <1>2, ContentHolds
<1>4. PICK t \in Task : t = Content(x)[i]
  BY <1>3, ElementOfSeq
<1>5. t \in ToSet(Content(x)) /\ t \in ToSet(Content(y))
  BY <1>3, <1>4, InToSet
<1>6. x = y
  BY <1>3, <1>5 DEF Holds
<1>7. i = j
  <2>1. IsInjective(Content(x))
    BY <1>3 DEF Holds
  <2> QED
    BY <1>3, <1>6, <2>1, Injective
<1> QED
  BY <1>6, <1>7

\* A task is run by one thread, and is in no list of another.
LEMMA InvRunExclusive == CInv => RunExclusive
<1> SUFFICES ASSUME CInv, NEW p \in Proc, runningTask[p] # NoTask
             PROVE  /\ \A q \in Proc \ {p} : runningTask[q] # runningTask[p]
                    /\ \A x \in Place \ {<<p, "runnable">>} :
                         ~Contains(Content(x), runningTask[p])
  BY DEF RunExclusive
<1>1. PICK l \in [Task -> Loc] : Core(l)
  BY DEF CInv
<1>2. TypeOK
  BY DEF CInv, TInv
<1>3. PICK r \in Task : r = runningTask[p] /\ RunsTask(l, p, r)
  BY <1>1, <1>2 DEF Core, Running, TypeOK
<1>4. ASSUME NEW q \in Proc \ {p} PROVE runningTask[q] # r
  <2>1. CASE runningTask[q] = NoTask
    BY <2>1, ProcesserAssumption
  <2>2. CASE runningTask[q] # NoTask
    BY <1>1, <1>3, <2>2 DEF Core, Running, RunsTask
  <2> QED
    BY <2>1, <2>2
<1>5. ASSUME NEW x \in Place \ {<<p, "runnable">>}, Contains(Content(x), r)
      PROVE  FALSE
  <2>1. Content(x) \in Seq(Task) /\ Holds(Content(x), l, x) /\ x # Nowhere
    BY <1>1, <1>2, ContentHolds
  <2>2. r \in ToSet(Content(x))
    BY <1>5, <2>1, InToSet
  <2>3. l[r] = x
    BY <2>1, <2>2 DEF Holds
  <2> QED
    BY <1>3, <2>1, <2>3 DEF RunsTask, RunnableOf
<1> QED
  BY <1>3, <1>4, <1>5

\* A saved successor is still linked.
LEMMA InvNextInQueue == CInv => NextInQueue
<1> SUFFICES ASSUME CInv, NEW p \in Proc, nextTask[p] # NoTask
             PROVE  Contains(runnableQueue[p], nextTask[p])
  BY DEF NextInQueue
<1>1. PICK l \in [Task -> Loc] : Core(l)
  BY DEF CInv
<1>2. TypeOK
  BY DEF CInv, TInv
<1>3. nextTask[p] \in ToSet(runnableQueue[p])
  BY <1>1, <1>2 DEF Core, Successors, Lists, Holds, TypeOK
<1>4. runnableQueue[p] \in Seq(Task)
  BY <1>2 DEF TypeOK
<1> QED
  BY <1>3, <1>4, InToSet

\* The tasks that exist are those that are linked, wait, are being woken or have
\* not left their thread.
LEMMA InvAccounted ==
  ASSUME CInv
  PROVE  LET waiting  == syncWait \union ownWait
             detached == UNION {Detached(p) : p \in Proc}
         IN  /\ live = Linked \union waiting \union BeingWoken \union detached
             /\ (waiting \union BeingWoken) \intersect Linked = {}
             /\ waiting \intersect BeingWoken = {}
             /\ syncWait \intersect ownWait = {}
<1> DEFINE waiting  == syncWait \union ownWait
           detached == UNION {Detached(p) : p \in Proc}
<1>1. PICK l \in [Task -> Loc] : Core(l)
  BY DEF CInv
<1>2. TypeOK
  BY DEF CInv, TInv
<1>3. Linked = {t \in Task : l[t] # Nowhere}
  BY <1>1, <1>2, LinkedTasks
<1>4. \A t \in waiting : state[t] = "block" /\ l[t] = Nowhere /\ t \in live
  BY <1>1 DEF Core, Waiting
<1>5. \A t \in BeingWoken : state[t] = "runnable" /\ l[t] = Nowhere /\ t \in live
  BY <1>1 DEF Core, Waking, BeingWoken
<1>6. detached \subseteq live
  <2> SUFFICES ASSUME NEW p \in Proc PROVE Detached(p) \subseteq live
    OBVIOUS
  <2> QED
    BY <1>1 DEF Detached, Core, Running, RunsTask
<1>7. ASSUME NEW t \in live, l[t] = Nowhere
      PROVE  t \in waiting \union BeingWoken \union detached
  <2>1. t \in Task
    BY <1>2 DEF TypeOK
  <2>2. \/ t \in waiting
        \/ \E q \in Proc : pc[q] = "push" /\ wakee[q] = t
        \/ HeldAt(t, {"erased", "recycle"})
    BY <1>1, <1>7, <2>1 DEF Core, Tasks
  <2>3. ASSUME NEW q \in Proc, pc[q] = "push", wakee[q] = t
        PROVE  t \in BeingWoken
    BY <2>3 DEF BeingWoken
  <2>4. ASSUME HeldAt(t, {"erased", "recycle"}) PROVE t \in detached
    <3>1. PICK p \in Proc : runningTask[p] = t
      BY <2>4 DEF HeldAt
    <3>2. t \notin ToSet(runnableQueue[p])
      BY <1>1, <1>7, <2>1, Places DEF Core, Lists, Holds
    <3>3. ~ Contains(runnableQueue[p], t)
      BY <1>2, <3>2, InToSet DEF TypeOK
    <3>4. t \in Detached(p)
      BY <2>1, <3>1, <3>3, ProcesserAssumption DEF Detached
    <3> QED
      BY <3>4
  <2> QED
    BY <2>2, <2>3, <2>4
<1>8. Linked \subseteq live
  BY <1>1, <1>3 DEF Core, Tasks
<1>9. live = Linked \union waiting \union BeingWoken \union detached
  <2>1. live \subseteq Linked \union waiting \union BeingWoken \union detached
    <3> SUFFICES ASSUME NEW t \in live, l[t] # Nowhere PROVE t \in Linked
      BY <1>7
    <3> QED
      BY <1>2, <1>3 DEF TypeOK
  <2>2. waiting \subseteq live /\ BeingWoken \subseteq live
    BY <1>4, <1>5
  <2> HIDE DEF waiting, detached
  <2> QED
    BY <1>6, <1>8, <2>1, <2>2
<1>10. (waiting \union BeingWoken) \intersect Linked = {}
  BY <1>3, <1>4, <1>5
<1>11. waiting \intersect BeingWoken = {}
  BY <1>4, <1>5
<1>12. syncWait \intersect ownWait = {}
  BY <1>1 DEF Core, Waiting
<1> QED
  BY <1>9, <1>10, <1>11, <1>12

-----------------------------------------------------------------------------
(* No wakeup is missed.                                                    *)

\* Between the two looks at its runnableQueue_ that find nothing and the end
\* of its wait, a thread has for every task that is pushed there a byte in its
\* interrupter or a waker that is about to send one.
Awake ==
    \A p \in Proc : pc[p] \in {"idle", "wait"} =>
      \A u \in ToSet(runnableQueue[p]) :
        \/ signal[p]
        \/ \E q \in Proc : pc[q] = "interrupt" /\ wakee[q] = u /\ proc[u] = p

\* A step that pushes nothing to an idle thread.
LEMMA AwakeKept ==
  ASSUME Awake,
         \A p \in Proc : pc'[p] \in {"idle", "wait"} =>
           \/ ToSet(runnableQueue'[p]) = {}
           \/ /\ pc[p] \in {"idle", "wait"} /\ (signal[p] => signal'[p])
              /\ ToSet(runnableQueue'[p]) \subseteq ToSet(runnableQueue[p])
              /\ \A u \in ToSet(runnableQueue[p]) : proc'[u] = proc[u],
         \A q \in Proc : pc[q] = "interrupt"
                           => pc'[q] = "interrupt" /\ wakee'[q] = wakee[q]
  PROVE  Awake'
  BY DEF Awake

\* A thread takes a task of its own runnableQueue_.
LEMMA SwapInAwake ==
  ASSUME TypeOK, Awake, NEW l, Core(l), NEW p \in Proc, NEW t \in Task,
         l[t] = RunnableOf(p), SwapIn(p, t), pc[p] # "interrupt",
         UNCHANGED <<runnableQueue, signal, wakee>>
  PROVE  Awake'
<1>1. /\ proc' = [proc EXCEPT ![t] = p] /\ pc' = [pc EXCEPT ![p] = "run"]
  BY DEF SwapIn, Goto
<1>2. ASSUME NEW q \in Proc, q # p
      PROVE  /\ pc'[q] = pc[q]
             /\ \A u \in ToSet(runnableQueue[q]) : proc'[u] = proc[u]
  <2>1. t \notin ToSet(runnableQueue[q])
    BY <1>2, Places DEF Core, Lists, Holds
  <2>2. ToSet(runnableQueue[q]) \subseteq Task
    BY InToSet DEF TypeOK
  <2> QED
    BY <1>1, <1>2, <2>1, <2>2 DEF TypeOK
<1>3. pc'[p] = "run"
  BY <1>1 DEF TypeOK
<1> QED
  BY <1>2, <1>3, AwakeKept

\* A step of thread p that changes at most its own list and label, and does not
\* leave it idle.
LEMMA OwnAwake ==
  ASSUME TypeOK, Awake, NEW p \in Proc, NEW L \in Label \ {"idle", "wait"},
         pc[p] # "interrupt", Goto(p, L),
         \A q \in Proc \ {p} : /\ runnableQueue'[q] = runnableQueue[q]
                               /\ signal'[q] = signal[q] /\ wakee'[q] = wakee[q],
         proc' = proc
  PROVE  Awake'
<1>1. pc'[p] = L /\ \A q \in Proc \ {p} : pc'[q] = pc[q]
  BY DEF TypeOK, Goto
<1> QED
  BY <1>1, AwakeKept

\* Every step keeps the promise.
LEMMA StepAwake ==
  ASSUME CInv, Awake, [Next]_vars
  PROVE  Awake'
<1> USE DEF procVars, wakeVars, taskVars, avgVars
<1>0. TypeOK
  BY DEF CInv, TInv
<1>l. PICK l \in [Task -> Loc] : Core(l)
  BY DEF CInv
<1>1. ASSUME NEW p \in Proc, Process(p) PROVE Awake'
  <2>1. CASE PickFront(p)
    <3>1. PICK t \in Task \union {NoTask} :
            /\ pc[p] \in {"front", "again"}
            /\ IF t # NoTask
               THEN l[t] = RunnableOf(p) /\ SwapIn(p, t)
               ELSE /\ runnableQueue[p] = <<>>
                    /\ Goto(p, IF pc[p] = "front" THEN "idle" ELSE "wait")
                    /\ UNCHANGED <<runningTask, state, proc>>
      BY <1>0, <1>l, <2>1, PickFrontTask
    <3>2. UNCHANGED <<runnableQueue, signal, wakee>>
      BY <2>1 DEF PickFront
    <3>3. CASE t # NoTask
      BY <1>0, <1>l, <3>1, <3>2, <3>3, SwapInAwake
    <3>4. CASE t = NoTask
      <4>1. ToSet(runnableQueue'[p]) = {}
        BY <3>1, <3>2, <3>4, EmptyToSet
      <4>2. /\ \A q \in Proc \ {p} : pc'[q] = pc[q]
            /\ pc'[p] # "interrupt" /\ pc[p] # "interrupt" /\ proc' = proc
        BY <1>0, <3>1, <3>4 DEF Goto, TypeOK
      <4> QED
        BY <3>2, <4>1, <4>2, AwakeKept
    <3> QED
      BY <3>3, <3>4
  <2>2. CASE AddNewTasksEmpty(p)
    <3>1. /\ pc[p] \in {"idle", "endpass"} /\ UNCHANGED <<runnableQueue, signal, wakee, proc>>
          /\ \A q \in Proc \ {p} : pc'[q] = pc[q]
          /\ pc'[p] = "wait" => pc[p] = "idle"
          /\ pc'[p] \in {"wait", "idleTake", "passTake", "front"}
      BY <1>0, <2>2 DEF AddNewTasksEmpty, Goto, TypeOK
    <3> QED
      BY <3>1, AwakeKept
  <2>3. CASE AddNewTasksTake(p) \/ AddNewTasksPush(p)
    BY <1>0, <2>3, OwnAwake DEF AddNewTasksTake, AddNewTasksPush, Label, TypeOK
  <2>4. CASE WaitLoopReturn(p) \/ WakeupTimersReturn(p)
    BY <1>0, <2>4, OwnAwake DEF WaitLoopReturn, WakeupTimersReturn, Label
  <2>5. CASE InterrupterReset(p)
    BY <1>0, <2>5, OwnAwake DEF InterrupterReset, Label, TypeOK
  <2>6. CASE AfterBlock(p) \/ AfterYield(p)
    <3>1. PICK t \in Task \union {NoTask} :
            /\ pc[p] = "out" /\ RunNext(p, t)
            /\ t # NoTask => l[t] = RunnableOf(p)
      BY <1>0, <1>l, <2>6, RunNextTask
    <3>2. UNCHANGED <<runnableQueue, signal, wakee>>
      BY <2>6 DEF AfterBlock, AfterYield
    <3>3. CASE t # NoTask
      <4>1. SwapIn(p, t) /\ l[t] = RunnableOf(p) /\ pc[p] # "interrupt" /\ t \in Task
        BY <3>1, <3>3 DEF RunNext
      <4> QED
        BY <1>0, <1>l, <3>2, <4>1, SwapInAwake
    <3>4. CASE t = NoTask
      <4>1. Goto(p, "endpass") /\ proc' = proc /\ pc[p] # "interrupt"
        BY <3>1, <3>4 DEF RunNext
      <4> QED
        BY <1>0, <3>2, <4>1, OwnAwake DEF Label
    <3> QED
      BY <3>3, <3>4
  <2>7. CASE AfterDone(p)
    BY <1>0, <2>7, OwnAwake DEF AfterDone, Label
  <2>8. CASE UnlinkDone(p)
    BY <1>0, <2>8, OwnAwake DEF UnlinkDone, Label, TypeOK
  <2>9. CASE RecycleDone(p)
    <3>1. PICK d \in Task, n \in Task \union {NoTask} : Recycles(l, p, d, n)
      BY <1>0, <1>l, <2>9, RecycleTask
    <3>2. UNCHANGED <<runnableQueue, signal, wakee>>
      BY <2>9 DEF RecycleDone
    <3>3. /\ pc'[p] \notin {"idle", "wait"} /\ pc[p] # "interrupt"
          /\ \A q \in Proc \ {p} : pc'[q] = pc[q]
      BY <3>1 DEF Recycles
    <3>4. ASSUME NEW q \in Proc \ {p}, NEW u \in ToSet(runnableQueue[q])
          PROVE  proc'[u] = proc[u]
      <4>1. u \in Task /\ l[u] = RunnableOf(q)
        BY <1>0, <1>l, InToSet DEF TypeOK, Core, Lists, Holds
      <4>2. u # d /\ u # n
        BY <3>1, <4>1, Places, ProcesserAssumption DEF Recycles
      <4> QED
        BY <3>1, <4>1, <4>2 DEF Recycles
    <3> QED
      BY <3>2, <3>3, <3>4, AwakeKept
  <2> QED
    BY <1>1, <2>1, <2>2, <2>3, <2>4, <2>5, <2>6, <2>7, <2>8, <2>9 DEF Process
<1>2. ASSUME NEW p \in Proc, Library(p) PROVE Awake'
  <2>1. CASE RegisterSync(p) \/ RegisterOwn(p)
    BY <1>0, <2>1, OwnAwake DEF RegisterSync, RegisterOwn, Label
  <2>2. CASE WakeupSelf(p)
    BY <1>0, <2>2, OwnAwake DEF WakeupSelf, Label, TypeOK
  <2>3. CASE SwapOutSuspended(p)
    BY <1>0, <2>3, OwnAwake DEF SwapOutSuspended, SwapOut, Label
  <2>4. CASE WakeupPush(p)
    <3>1. /\ pc[p] = "push" /\ Goto(p, "interrupt")
          /\ runnableQueue' = [runnableQueue EXCEPT
                                 ![proc[wakee[p]]] = Append(@, wakee[p])]
          /\ UNCHANGED <<signal, wakee, proc>>
      BY <2>4 DEF WakeupPush
    <3>2. wakee[p] \in Task /\ proc[wakee[p]] \in Proc
      BY <1>0, <1>l, <3>1 DEF Core, Waking, TypeOK
    <3>3. pc'[p] = "interrupt" /\ \A q \in Proc \ {p} : pc'[q] = pc[q]
      BY <1>0, <3>1 DEF Goto, TypeOK
    <3> SUFFICES ASSUME NEW q \in Proc, pc'[q] \in {"idle", "wait"},
                        NEW u \in ToSet(runnableQueue'[q])
                 PROVE  \/ signal[q]
                        \/ \E r \in Proc : pc'[r] = "interrupt" /\ wakee[r] = u
                                             /\ proc[u] = q
      BY <3>1 DEF Awake
    <3>4. pc[q] \in {"idle", "wait"} /\ q # p
      BY <3>3
    <3>5. CASE u \in ToSet(runnableQueue[q])
      <4>1. \/ signal[q]
            \/ \E r \in Proc : pc[r] = "interrupt" /\ wakee[r] = u /\ proc[u] = q
        BY <3>4, <3>5 DEF Awake
      <4>2. \A r \in Proc : pc[r] = "interrupt" => pc'[r] = "interrupt"
        BY <3>3
      <4> QED
        BY <4>1, <4>2
    <3>6. CASE u \notin ToSet(runnableQueue[q])
      <4>1. q = proc[wakee[p]]
        BY <1>0, <3>1, <3>2, <3>6 DEF TypeOK
      <4>2. runnableQueue'[q] = Append(runnableQueue[q], wakee[p])
        BY <1>0, <3>1, <4>1 DEF TypeOK
      <4>3. ToSet(Append(runnableQueue[q], wakee[p]))
              = ToSet(runnableQueue[q]) \union {wakee[p]}
        <5>1. runnableQueue[q] \in Seq(Task)
          BY <1>0 DEF TypeOK
        <5> QED
          BY <3>2, <5>1, AppendToSet
      <4>4. u = wakee[p]
        BY <3>6, <4>2, <4>3
      <4> QED
        BY <3>3, <4>1, <4>4
    <3> QED
      BY <3>5, <3>6
  <2>5. CASE WakeupInterrupt(p)
    <3>1. /\ pc[p] = "interrupt" /\ Goto(p, caller[p])
          /\ signal' = [q \in Proc |-> signal[q] \/ q = proc[wakee[p]]]
          /\ wakee' = [wakee EXCEPT ![p] = NoTask]
          /\ UNCHANGED <<runnableQueue, proc>>
      BY <2>5 DEF WakeupInterrupt
    <3>2. /\ \A q \in Proc \ {p} : pc'[q] = pc[q] /\ wakee'[q] = wakee[q]
          /\ pc'[p] \in {"run", "registered", "serve"}
      BY <1>0, <3>1 DEF Goto, TypeOK
    <3> SUFFICES ASSUME NEW q \in Proc, pc'[q] \in {"idle", "wait"},
                        NEW u \in ToSet(runnableQueue[q]), ~ signal'[q]
                 PROVE  \E r \in Proc : pc'[r] = "interrupt" /\ wakee'[r] = u
                                          /\ proc[u] = q
      BY <3>1 DEF Awake
    <3>3. pc[q] \in {"idle", "wait"} /\ ~ signal[q] /\ q # proc[wakee[p]]
      BY <3>1, <3>2
    <3>4. PICK r \in Proc : pc[r] = "interrupt" /\ wakee[r] = u /\ proc[u] = q
      BY <3>3 DEF Awake
    <3>5. r # p
      BY <3>3, <3>4
    <3> QED
      BY <3>2, <3>4, <3>5
  <2> QED
    BY <1>2, <2>1, <2>2, <2>3, <2>4, <2>5 DEF Library
<1>3. ASSUME NEW p \in Proc, CoYield(p) \/ Done(p) PROVE Awake'
  BY <1>0, <1>3, OwnAwake DEF CoYield, Done, SwapOut, Label
<1>4. ASSUME NEW p \in Proc, SuspendBySelfIO(p) PROVE Awake'
  BY <1>0, <1>4, OwnAwake DEF SuspendBySelfIO, Label, TypeOK
<1>5. ASSUME NEW p \in Proc, NEW t \in Task, WakeupOwn(p, t) PROVE Awake'
  <2>1. /\ pc[p] = "serve" /\ UNCHANGED <<pc, wakee, signal, proc>>
        /\ \A q \in Proc \ {p} : runnableQueue'[q] = runnableQueue[q]
    BY <1>0, <1>5 DEF WakeupOwn, TypeOK
  <2> QED
    BY <2>1, AwakeKept
<1>6. ASSUME NEW p \in Proc, NEW t \in Task, WakeupBegin(p, t) PROVE Awake'
  BY <1>0, <1>6, OwnAwake DEF WakeupBegin, Label, TypeOK
<1>7. ASSUME NEW p \in Proc, NEW t \in Task, CreateTask(t, p) PROVE Awake'
  BY <1>7, AwakeKept DEF CreateTask
<1>8. CASE DispatcherThread
  BY <1>8, AwakeKept DEF DispatcherThread
<1>9. CASE AvgTotalTasks
  <2>1. ASSUME Return \/ pc' = pc, UNCHANGED <<signal, wakee, proc>>,
               \A q \in Proc : ToSet(runnableQueue'[q]) \subseteq ToSet(runnableQueue[q])
        PROVE  Awake'
    <3>1. ASSUME NEW q \in Proc
          PROVE  /\ pc'[q] \in {"idle", "wait"} => pc[q] \in {"idle", "wait"}
                 /\ pc[q] = "interrupt" => pc'[q] = "interrupt"
      BY <1>0, <2>1 DEF Return, TypeOK
    <3> QED
      BY <2>1, <3>1, AwakeKept
  <2>2. CASE CountRunnable \/ StealNothing \/ StealNew \/ GiveNothing \/ GiveTasks
    <3>1. UNCHANGED <<pc, signal, wakee, proc, runnableQueue>>
      BY <2>2 DEF CountRunnable, StealNothing, StealNew, GiveNothing, GiveTasks
    <3> QED
      BY <2>1, <3>1
  <2>3. CASE CountNew \/ GiveRest
    <3>1. /\ Return \/ pc' = pc
          /\ UNCHANGED <<signal, wakee, proc, runnableQueue>>
      BY <2>3 DEF CountNew, GiveRest
    <3> QED
      BY <2>1, <3>1
  <2>4. CASE StealRunnable
    <3> DEFINE n == cnt[di] - Avg - Len(part)
               s == StealFrom(runnableQueue[di], runningTask[di], nextTask[di], n)
    <3>1. /\ runnableQueue' = [runnableQueue EXCEPT ![di] = s.left]
          /\ UNCHANGED <<pc, signal, wakee, proc>>
      BY <2>4 DEF StealRunnable
    <3>2. n \in Nat
      <4>1. /\ total \in Nat /\ cnt[di] \in Nat /\ part \in Seq(Task)
            /\ Len(part) < cnt[di] - Avg
        BY <2>4 DEF CInv, TInv, TypeOK, StealInv, StealRunnable
      <4>2. Avg \in Nat
        BY <4>1, AvgType
      <4> QED
        BY <4>1, <4>2
    <3>3. /\ runnableQueue[di] \in Seq(Task) /\ IsInjective(runnableQueue[di])
          /\ di \in Proc
      BY <1>0, <1>l DEF TypeOK, Core, Lists, Holds
    <3>4. ToSet(s.left) \subseteq ToSet(runnableQueue[di])
      <4> HIDE DEF n
      <4> QED
        BY <3>2, <3>3, StealFromToSet
    <3> HIDE DEF s
    <3>5. \A q \in Proc : ToSet(runnableQueue'[q]) \subseteq ToSet(runnableQueue[q])
      BY <1>0, <3>1, <3>4 DEF TypeOK
    <3> QED
      BY <2>1, <3>1, <3>5
  <2> QED
    BY <1>9, <2>2, <2>3, <2>4 DEF AvgTotalTasks
<1>10. CASE UNCHANGED vars
  BY <1>10, AwakeKept DEF vars
<1> QED
  BY <1>1, <1>2, <1>3, <1>4, <1>5, <1>6, <1>7, <1>8, <1>9, <1>10 DEF Next

-----------------------------------------------------------------------------
(* TaskCount().                                                            *)

\* A list without repetitions has as many tasks as elements.
LEMMA InjectiveLen ==
  ASSUME NEW q \in Seq(Task), IsInjective(q)
  PROVE  IsFiniteSet(ToSet(q)) /\ Cardinality(ToSet(q)) = Len(q)
<1> DEFINE n == Len(q)
           S == ToSet(q)
<1>1. n \in Nat /\ q \in [1 .. n -> Task] /\ DOMAIN q = 1 .. n
  BY LenProperties
<1>2. S = {q[i] : i \in 1 .. n}
  BY <1>1 DEF ToSet
<1>3. q \in [1 .. n -> S]
  BY <1>1, <1>2
<1>4. q \in Bijection(1 .. n, S)
  BY <1>2, <1>3 DEF Bijection, Injection, Surjection
<1>5. IsFiniteSet(1 .. n) /\ Cardinality(1 .. n) = n
  BY <1>1, FS_Interval
<1> HIDE DEF n, S
<1>6. ExistsBijection(1 .. n, S)
  BY <1>4 DEF ExistsBijection
<1>7. IsFiniteSet(S) /\ Cardinality(S) = Cardinality(1 .. n)
  BY <1>5, <1>6, FS_Bijection
<1> QED
  BY <1>5, <1>7 DEF n, S

\* The threads that have counted their finished task out and still hold it.
Recycling == {p \in Proc : pc[p] = "recycle"}

\* taskCount_ is the number of tasks that exist, less those whose thread has
\* counted them out and has yet to recycle them.
Counted == taskCount = Cardinality(live) - Cardinality(Recycling)

\* There are finitely many tasks and threads.
LEMMA Finite ==
  ASSUME TypeOK
  PROVE  /\ IsFiniteSet(live) /\ Cardinality(live) \in Nat
         /\ IsFiniteSet(Recycling) /\ Cardinality(Recycling) \in Nat
<1>1. live \in SUBSET Task /\ IsFiniteSet(Task)
  BY ProcesserAssumption DEF TypeOK
<1>2. IsFiniteSet(live)
  BY <1>1, FS_Subset
<1>3. IsFiniteSet(Proc)
  BY ProcesserAssumption, FS_Interval DEF Proc
<1>4. Recycling \in SUBSET Proc
  BY DEF Recycling
<1>5. IsFiniteSet(Recycling)
  BY <1>3, <1>4, FS_Subset
<1> QED
  BY <1>2, <1>5, FS_CardinalityType

\* Start counts the tasks created before it.
LEMMA InitCounted == Init => Counted
<1> SUFFICES ASSUME Init PROVE Counted
  OBVIOUS
<1>1. Cardinality(live) = taskCount /\ taskCount \in Nat
  BY ProcesserAssumption, InjectiveLen DEF Init
<1>2. Recycling = {}
  BY DEF Init, Recycling
<1>3. Cardinality(Recycling) = 0
  BY <1>2, FS_EmptySet
<1> QED
  BY <1>1, <1>3 DEF Counted

\* Most steps create, finish and recycle nothing.
LEMMA CountedSame ==
  ASSUME Counted, UNCHANGED <<live, taskCount>>,
         \A p \in Proc : pc'[p] = "recycle" <=> pc[p] = "recycle"
  PROVE  Counted'
<1>1. Recycling' = Recycling
  BY DEF Recycling
<1> QED
  BY <1>1 DEF Counted

\* A step of thread p to a label other than "recycle".
LEMMA CountedStep ==
  ASSUME TypeOK, Counted, UNCHANGED <<live, taskCount>>, NEW p \in Proc,
         NEW L, L # "recycle", pc[p] # "recycle", Goto(p, L)
  PROVE  Counted'
<1>1. \A q \in Proc : pc'[q] = "recycle" <=> pc[q] = "recycle"
  BY DEF Goto, TypeOK
<1> QED
  BY <1>1, CountedSame

\* Every step counts right.
LEMMA StepCounted ==
  ASSUME CInv, Counted, [Next]_vars
  PROVE  Counted'
<1> USE DEF procVars, wakeVars, taskVars, avgVars
<1>0. TypeOK
  BY DEF CInv, TInv
<1>l. PICK l \in [Task -> Loc] : Core(l)
  BY DEF CInv
<1>f. /\ IsFiniteSet(live) /\ Cardinality(live) \in Nat
      /\ IsFiniteSet(Recycling) /\ Cardinality(Recycling) \in Nat
  BY <1>0, Finite
<1>1. ASSUME NEW p \in Proc, Process(p) PROVE Counted'
  <2>1. CASE PickFront(p)
    BY <1>0, <2>1, CountedStep DEF PickFront, SwapIn
  <2>2. CASE AddNewTasksEmpty(p)
    BY <1>0, <2>2, CountedStep DEF AddNewTasksEmpty
  <2>3. CASE AddNewTasksTake(p) \/ AddNewTasksPush(p)
    BY <1>0, <2>3, CountedStep DEF AddNewTasksTake, AddNewTasksPush
  <2>4. CASE WaitLoopReturn(p) \/ InterrupterReset(p) \/ WakeupTimersReturn(p)
    BY <1>0, <2>4, CountedStep
       DEF WaitLoopReturn, InterrupterReset, WakeupTimersReturn
  <2>5. CASE AfterBlock(p) \/ AfterYield(p)
    BY <1>0, <2>5, CountedStep DEF AfterBlock, AfterYield, RunNext, SwapIn
  <2>6. CASE AfterDone(p)
    BY <1>0, <2>6, CountedStep DEF AfterDone
  <2>7. CASE UnlinkDone(p)
    <3>1. /\ pc[p] = "unlink" /\ pc' = [pc EXCEPT ![p] = "recycle"]
          /\ live' = live /\ taskCount' = taskCount - 1
      BY <2>7 DEF UnlinkDone, Goto
    <3>2. Recycling' = Recycling \union {p} /\ p \notin Recycling
      BY <1>0, <3>1 DEF Recycling, TypeOK
    <3>3. Cardinality(Recycling') = Cardinality(Recycling) + 1
      BY <1>f, <3>2, FS_AddElement
    <3> QED
      BY <1>f, <3>1, <3>3 DEF Counted
  <2>8. CASE RecycleDone(p)
    <3>1. PICK d \in Task, n \in Task \union {NoTask} : Recycles(l, p, d, n)
      BY <1>0, <1>l, <2>8, RecycleTask
    <3>2. /\ live' = live \ {d} /\ d \in live /\ pc[p] = "recycle"
          /\ pc'[p] # "recycle" /\ \A q \in Proc \ {p} : pc'[q] = pc[q]
      BY <3>1 DEF Recycles, RunsTask
    <3>3. Recycling' = Recycling \ {p} /\ p \in Recycling
      BY <3>2 DEF Recycling
    <3>4. /\ Cardinality(Recycling') = Cardinality(Recycling) - 1
          /\ Cardinality(live') = Cardinality(live) - 1
      BY <1>f, <3>2, <3>3, FS_RemoveElement
    <3>5. taskCount' = taskCount
      BY <2>8 DEF RecycleDone
    <3> QED
      BY <1>f, <3>4, <3>5 DEF Counted
  <2> QED
    BY <1>1, <2>1, <2>2, <2>3, <2>4, <2>5, <2>6, <2>7, <2>8 DEF Process
<1>2. ASSUME NEW p \in Proc, Library(p) PROVE Counted'
  <2>1. CASE RegisterSync(p) \/ RegisterOwn(p) \/ WakeupSelf(p)
    BY <1>0, <2>1, CountedStep DEF RegisterSync, RegisterOwn, WakeupSelf
  <2>2. CASE SwapOutSuspended(p) \/ WakeupPush(p)
    BY <1>0, <2>2, CountedStep DEF SwapOutSuspended, SwapOut, WakeupPush
  <2>3. CASE WakeupInterrupt(p)
    <3>1. caller[p] # "recycle"
      BY <1>0 DEF TypeOK
    <3> QED
      BY <1>0, <2>3, <3>1, CountedStep DEF WakeupInterrupt
  <2> QED
    BY <1>2, <2>1, <2>2, <2>3 DEF Library
<1>3. ASSUME NEW p \in Proc, CoYield(p) \/ Done(p) \/ SuspendBySelfIO(p)
      PROVE  Counted'
  BY <1>0, <1>3, CountedStep DEF CoYield, Done, SwapOut, SuspendBySelfIO
<1>4. ASSUME NEW p \in Proc, NEW t \in Task, WakeupOwn(p, t) \/ WakeupBegin(p, t)
      PROVE  Counted'
  <2>1. CASE WakeupBegin(p, t)
    BY <1>0, <2>1, CountedStep DEF WakeupBegin
  <2>2. CASE WakeupOwn(p, t)
    BY <2>2, CountedSame DEF WakeupOwn
  <2> QED
    BY <1>4, <2>1, <2>2
<1>5. ASSUME NEW p \in Proc, NEW t \in Task, CreateTask(t, p) PROVE Counted'
  <2>1. /\ live' = live \union {t} /\ t \notin live /\ taskCount' = taskCount + 1
        /\ pc' = pc
    BY <1>5 DEF CreateTask
  <2>2. Cardinality(live') = Cardinality(live) + 1
    BY <1>f, <2>1, FS_AddElement
  <2>3. Recycling' = Recycling
    BY <2>1 DEF Recycling
  <2> QED
    BY <1>f, <2>1, <2>2, <2>3 DEF Counted
<1>6. CASE DispatcherThread
  BY <1>6, CountedSame DEF DispatcherThread
<1>7. CASE AvgTotalTasks
  <2>1. /\ Return \/ pc' = pc
        /\ UNCHANGED <<live, taskCount>>
    <3>1. CASE CountRunnable \/ CountNew \/ StealNothing
      BY <3>1 DEF CountRunnable, CountNew, StealNothing
    <3>2. CASE StealNew \/ StealRunnable
      BY <3>2 DEF StealNew, StealRunnable
    <3>3. CASE GiveNothing \/ GiveTasks \/ GiveRest
      BY <3>3 DEF GiveNothing, GiveTasks, GiveRest
    <3> QED
      BY <1>7, <3>1, <3>2, <3>3 DEF AvgTotalTasks
  <2>2. \A p \in Proc : pc'[p] = "recycle" <=> pc[p] = "recycle"
    BY <1>0, <2>1 DEF Return, TypeOK
  <2> QED
    BY <2>1, <2>2, CountedSame
<1>8. CASE UNCHANGED vars
  BY <1>8, CountedSame DEF vars
<1> QED
  BY <1>1, <1>2, <1>3, <1>4, <1>5, <1>6, <1>7, <1>8 DEF Next

-----------------------------------------------------------------------------
(* The theorems.                                                           *)

\* No mix of wakeups, AddNewTasks and Steal links a task twice.
THEOREM LinkedOnce == Spec => []OnePlace
  BY Invariant, InvOnePlace, PTL

\* A task is never held by two Processers.
THEOREM HeldOnce == Spec => []RunExclusive
  BY Invariant, InvRunExclusive, PTL

\* The saved successor is still in this Processer's runnableQueue_.
THEOREM SuccessorLinked == Spec => []NextInQueue
  BY Invariant, InvNextInQueue, PTL

\* No task is lost, none comes back, and TaskCount() is their number.
THEOREM NoneLost == Spec => []Accounted
<1>1. Init => Counted
  BY InitCounted
<1>2. CInv /\ Counted /\ [Next]_vars => Counted'
  BY StepCounted
<1>3. CInv /\ Counted => Accounted
  BY InvAccounted DEF Accounted, Counted, Recycling
<1> QED
  BY <1>1, <1>2, <1>3, Invariant, PTL DEF Spec

\* No wakeup is slept through.
THEOREM NoneSleptThrough == Spec => []NoMissedWakeup
<1>1. Init => Awake
  BY DEF Init, Awake
<1>2. CInv /\ Awake /\ [Next]_vars => Awake'
  BY StepAwake
<1>3. CInv /\ Awake => NoMissedWakeup
  <2> SUFFICES ASSUME CInv, Awake, NEW p \in Proc, pc[p] = "wait",
                      runnableQueue[p] # <<>>
               PROVE  \/ signal[p]
                      \/ \E q \in Proc : pc[q] = "interrupt" /\ proc[wakee[q]] = p
    BY DEF NoMissedWakeup
  <2>1. Head(runnableQueue[p]) \in ToSet(runnableQueue[p])
    <3>1. runnableQueue[p] \in Seq(Task)
      BY DEF CInv, TInv, TypeOK
    <3> QED
      BY <3>1, HeadInToSet
  <2> QED
    BY <2>1 DEF Awake
<1> QED
  BY <1>1, <1>2, <1>3, Invariant, PTL DEF Spec

-----------------------------------------------------------------------------
(* Processer implements TaskSched.                                         *)

\* The state of TaskSched: the tasks that have not finished ...
alive  == {t \in live : state[t] # "done"}
\* ... and those that wait for a wakeup and have left their stack.
parked == {t \in live : /\ state[t] = "block"
                        /\ \A p \in Proc : onStack[p] # t}

\* A step about which the coroutines learn nothing.
LEMMA SchedSame ==
  ASSUME TypeOK, UNCHANGED onStack,
         \A t \in Task : /\ t \in live /\ state[t] # "done"
                              <=> t \in live' /\ state'[t] # "done"
                         /\ t \in live /\ state[t] = "block"
                              <=> t \in live' /\ state'[t] = "block",
         live' \subseteq Task
  PROVE  [Sched!Next]_(Sched!vars)
<1>1. alive' = alive
  BY DEF alive, TypeOK
<1>2. parked' = parked
  BY DEF parked, TypeOK
<1> QED
  BY <1>1, <1>2 DEF Sched!vars, alive, parked

\* The stacks follow from the running tasks and the labels.
LEMMA SameStacks ==
  ASSUME UNCHANGED runningTask,
         \A p \in Proc : pc'[p] \in {"out", "unlink", "recycle"}
                           <=> pc[p] \in {"out", "unlink", "recycle"}
  PROVE  UNCHANGED onStack
  BY DEF onStack, Executes

\* A step that changes no task, and takes nobody from a stack.
LEMMA StillSched ==
  ASSUME TypeOK, UNCHANGED <<runningTask, state, live>>,
         \A p \in Proc : pc'[p] \in {"out", "unlink", "recycle"}
                           <=> pc[p] \in {"out", "unlink", "recycle"}
  PROVE  [Sched!Next]_(Sched!vars)
<1>1. UNCHANGED onStack
  BY SameStacks
<1> QED
  BY <1>1, SchedSame DEF TypeOK

\* The same for a step of thread p to the label L.
LEMMA StillStep ==
  ASSUME TypeOK, UNCHANGED <<runningTask, state, live>>, NEW p \in Proc, NEW L,
         Goto(p, L),
         L \in {"out", "unlink", "recycle"}
           <=> pc[p] \in {"out", "unlink", "recycle"}
  PROVE  [Sched!Next]_(Sched!vars)
<1>1. \A q \in Proc : pc'[q] \in {"out", "unlink", "recycle"}
                        <=> pc[q] \in {"out", "unlink", "recycle"}
  BY DEF Goto, TypeOK
<1> QED
  BY <1>1, StillSched

\* A ready task is on no stack, and stays known as ready until it is resumed.
LEMMA ResumeStep ==
  ASSUME TypeOK, NEW l, Core(l), NEW p \in Proc, NEW t \in Task,
         l[t] = RunnableOf(p), runningTask[p] # t, onStack[p] = NoTask,
         runningTask'[p] = t, pc'[p] = "run",
         \A q \in Proc \ {p} : runningTask'[q] = runningTask[q] /\ pc'[q] = pc[q],
         alive' = alive, \A u \in Task : u \in live' /\ state'[u] = "block"
                                          <=> u \in live /\ state[u] = "block",
         live' \subseteq Task
  PROVE  [Sched!Next]_(Sched!vars)
<1>1. state[t] = "runnable" /\ t \in live /\ \A q \in Proc : runningTask[q] # t
  BY ReadyTask
<1>2. t # NoTask
  BY ProcesserAssumption
<1>3. onStack' = [onStack EXCEPT ![p] = t]
  BY <1>2 DEF onStack, Executes
<1>4. parked' = parked
  <2>1. ASSUME NEW u \in Task, state[u] = "block"
        PROVE  (\A q \in Proc : onStack'[q] # u) <=> (\A q \in Proc : onStack[q] # u)
    <3>1. u # t /\ u # NoTask
      BY <1>1, <2>1, ProcesserAssumption
    <3>2. onStack'[p] = t /\ \A q \in Proc \ {p} : onStack'[q] = onStack[q]
      BY <1>3 DEF onStack
    <3> QED
      BY <3>1, <3>2
  <2>2. live \subseteq Task
    BY DEF TypeOK
  <2>3. \A u \in Task : u \in parked' <=> u \in parked
    BY <2>1 DEF parked
  <2>4. parked \subseteq Task /\ parked' \subseteq Task
    BY <2>2 DEF parked
  <2> QED
    BY <2>3, <2>4
<1>5. t \in alive /\ t \notin parked
  BY <1>1 DEF alive, parked
<1>6. \A q \in Proc : onStack[q] # t
  BY <1>1, <1>2 DEF onStack
<1>7. Sched!Resume(p, t)
  <2>1. t \in Sched!Ready
    BY <1>5, <1>6 DEF Sched!Ready, Sched!Executing, alive, parked
  <2> QED
    BY <1>3, <1>4, <2>1 DEF Sched!Resume, alive, parked
<1> QED
  BY <1>7 DEF Sched!Next

\* A task leaves its stack: it stays ready, or its state tells why not.
LEMMA LeaveStep ==
  ASSUME TypeOK, NEW l, Core(l), NEW p \in Proc, NEW t \in Task,
         t = runningTask[p], pc[p] \notin {"out", "unlink", "recycle"},
         t \in live, state[t] # "done",
         Goto(p, "out"), UNCHANGED <<runningTask, live>>,
         \/ state' = state
         \/ state[t] = "runnable" /\ state' = [state EXCEPT ![t] = "done"]
  PROVE  [Sched!Next]_(Sched!vars)
<1>1. onStack[p] = t /\ t # NoTask
  BY ProcesserAssumption DEF onStack, Executes
<1>2. onStack' = [onStack EXCEPT ![p] = NoTask]
  <2>1. pc'[p] = "out" /\ \A q \in Proc \ {p} : pc'[q] = pc[q]
    BY DEF Goto, TypeOK
  <2> QED
    BY <2>1 DEF onStack, Executes
<1>3. Sched!Leave(p)
  BY <1>1, <1>2 DEF Sched!Leave
<1>4. \A q \in Proc \ {p} : onStack[q] # t
  <2>1. \A q \in Proc \ {p} : runningTask[q] # t
    BY <1>1 DEF Core, Running, RunsTask
  <2> QED
    BY <1>1, <2>1 DEF onStack
<1>5. /\ onStack'[p] = NoTask
      /\ \A q \in Proc \ {p} : onStack'[q] = onStack[q]
  BY <1>2 DEF onStack
<1>6. ASSUME NEW u \in Task, u # t
      PROVE  (\A q \in Proc : onStack'[q] # u) <=> (\A q \in Proc : onStack[q] # u)
  BY <1>1, <1>5, <1>6, ProcesserAssumption
<1>7. \A q \in Proc : onStack'[q] # t
  BY <1>1, <1>4, <1>5
<1>8. CASE state' = state /\ state[t] = "block"
  <2>1. parked' = parked \union {t}
    <3>1. live \subseteq Task
      BY DEF TypeOK
    <3> QED
      BY <1>6, <1>7, <1>8, <3>1 DEF parked
  <2>2. alive' = alive
    BY <1>8 DEF alive
  <2>3. Sched!Park(p)
    BY <1>1, <1>3, <2>1, <2>2 DEF Sched!Park, alive, parked
  <2> QED
    BY <2>3 DEF Sched!Next
<1>9. CASE state' = state /\ state[t] # "block"
  <2>1. parked' = parked
    <3>1. live \subseteq Task
      BY DEF TypeOK
    <3> QED
      BY <1>6, <1>9, <3>1 DEF parked
  <2>2. alive' = alive
    BY <1>9 DEF alive
  <2>3. Sched!Yield(p)
    BY <1>3, <2>1, <2>2 DEF Sched!Yield, alive, parked
  <2> QED
    BY <2>3 DEF Sched!Next
<1>10. CASE state[t] = "runnable" /\ state' = [state EXCEPT ![t] = "done"]
  <2>1. state'[t] = "done" /\ \A u \in Task \ {t} : state'[u] = state[u]
    BY <1>10 DEF TypeOK
  <2>2. live \subseteq Task
    BY DEF TypeOK
  <2>3. parked' = parked
    BY <1>6, <1>10, <2>1, <2>2 DEF parked
  <2>4. alive' = alive \ {t}
    BY <2>1, <2>2 DEF alive
  <2>5. Sched!Finish(p)
    BY <1>1, <1>3, <2>3, <2>4 DEF Sched!Finish, alive, parked
  <2> QED
    BY <2>5 DEF Sched!Next
<1> QED
  BY <1>8, <1>9, <1>10

\* A wakeup makes a parked task ready; one that has not left its stack yet was
\* not parked.
LEMMA WakeSched ==
  ASSUME TypeOK, NEW t \in Task, state[t] = "block", t \in live,
         state' = [state EXCEPT ![t] = "runnable"],
         UNCHANGED <<runningTask, live>>,
         \A q \in Proc : pc'[q] \in {"out", "unlink", "recycle"}
                           <=> pc[q] \in {"out", "unlink", "recycle"}
  PROVE  [Sched!Next]_(Sched!vars)
<1>1. onStack' = onStack
  BY SameStacks
<1>2. state'[t] = "runnable" /\ \A u \in Task \ {t} : state'[u] = state[u]
  BY DEF TypeOK
<1>3. live \subseteq Task
  BY DEF TypeOK
<1>4. alive' = alive
  BY <1>2, <1>3 DEF alive
<1>5. parked' = parked \ {t}
  BY <1>1, <1>2, <1>3 DEF parked
<1>6. CASE t \in parked
  <2>1. Sched!Wake(t)
    BY <1>1, <1>4, <1>5, <1>6 DEF Sched!Wake, alive, parked
  <2> QED
    BY <2>1 DEF Sched!Next
<1>7. CASE t \notin parked
  BY <1>1, <1>4, <1>5, <1>7 DEF Sched!vars, alive, parked
<1> QED
  BY <1>6, <1>7

\* Every step is one of TaskSched, or a stutter.
LEMMA StepSched ==
  ASSUME CInv, [Next]_vars
  PROVE  [Sched!Next]_(Sched!vars)
<1> USE DEF procVars, wakeVars, taskVars, avgVars
<1>0. TypeOK /\ TypeOK'
  BY StepTInv DEF CInv, TInv
<1>l. PICK l \in [Task -> Loc] : Core(l)
  BY DEF CInv
<1>b. /\ live \subseteq Task
      /\ \A q \in Proc : /\ pc[q] \in {"out", "unlink", "recycle"}
                              => onStack[q] = NoTask
                         /\ runningTask[q] = NoTask => onStack[q] = NoTask
  BY <1>0 DEF onStack, Executes, TypeOK
<1>s. ASSUME NEW p \in Proc, NEW t \in Task, l[t] = RunnableOf(p),
             runningTask[p] # t, onStack[p] = NoTask, SwapIn(p, t), live' = live
      PROVE  [Sched!Next]_(Sched!vars)
  <2>1. state[t] = "runnable"
    BY <1>0, <1>l, <1>s, ReadyTask
  <2>2. state' = state
    BY <1>0, <1>s, <2>1 DEF SwapIn, TypeOK
  <2>3. /\ runningTask'[p] = t /\ pc'[p] = "run"
        /\ \A q \in Proc \ {p} : runningTask'[q] = runningTask[q] /\ pc'[q] = pc[q]
    BY <1>0, <1>s DEF SwapIn, Goto, TypeOK
  <2>4. alive' = alive
    BY <1>s, <2>2 DEF alive
  <2> QED
    BY <1>0, <1>l, <1>b, <1>s, <2>2, <2>3, <2>4, ResumeStep
<1>1. ASSUME NEW p \in Proc, Process(p) PROVE [Sched!Next]_(Sched!vars)
  <2>1. CASE PickFront(p)
    <3>1. PICK t \in Task \union {NoTask} :
            /\ pc[p] \in {"front", "again"} /\ runningTask[p] = NoTask
            /\ IF t # NoTask
               THEN l[t] = RunnableOf(p) /\ SwapIn(p, t)
               ELSE /\ Goto(p, IF pc[p] = "front" THEN "idle" ELSE "wait")
                    /\ UNCHANGED <<runningTask, state, proc>>
      BY <1>0, <1>l, <2>1, PickFrontTask
    <3>2. live' = live
      BY <2>1 DEF PickFront
    <3>3. CASE t # NoTask
      BY <1>b, <1>s, <3>1, <3>2, <3>3
    <3>4. CASE t = NoTask
      BY <1>0, <3>1, <3>2, <3>4, StillStep
    <3> QED
      BY <3>3, <3>4
  <2>2. CASE AddNewTasksEmpty(p)
    BY <1>0, <2>2, StillStep DEF AddNewTasksEmpty
  <2>3. CASE AddNewTasksTake(p) \/ AddNewTasksPush(p)
    BY <1>0, <2>3, StillStep DEF AddNewTasksTake, AddNewTasksPush
  <2>4. CASE WaitLoopReturn(p) \/ InterrupterReset(p) \/ WakeupTimersReturn(p)
    BY <1>0, <2>4, StillStep
       DEF WaitLoopReturn, InterrupterReset, WakeupTimersReturn
  <2>5. CASE AfterBlock(p) \/ AfterYield(p)
    <3>1. PICK t \in Task \union {NoTask} :
            /\ pc[p] = "out" /\ RunNext(p, t)
            /\ t # NoTask => l[t] = RunnableOf(p) /\ runningTask[p] # t
      BY <1>0, <1>l, <2>5, RunNextTask
    <3>2. live' = live
      BY <2>5 DEF AfterBlock, AfterYield
    <3>3. CASE t # NoTask
      BY <1>b, <1>s, <3>1, <3>2, <3>3 DEF RunNext
    <3>4. CASE t = NoTask
      <4>1. /\ runningTask' = [runningTask EXCEPT ![p] = NoTask]
            /\ pc' = [pc EXCEPT ![p] = "endpass"] /\ state' = state
        BY <3>1, <3>4 DEF RunNext, Goto
      <4>2. UNCHANGED onStack
        BY <1>0, <3>1, <4>1 DEF onStack, Executes, TypeOK
      <4> QED
        BY <1>0, <1>b, <3>2, <4>1, <4>2, SchedSame
    <3> QED
      BY <3>3, <3>4
  <2>6. CASE AfterDone(p) \/ UnlinkDone(p)
    BY <1>0, <2>6, StillStep DEF AfterDone, UnlinkDone
  <2>7. CASE RecycleDone(p)
    <3>1. PICK d \in Task, n \in Task \union {NoTask} : Recycles(l, p, d, n)
      BY <1>0, <1>l, <2>7, RecycleTask
    <3>2. /\ d = runningTask[p] /\ pc[p] = "recycle" /\ state[d] = "done"
          /\ live' = live \ {d} /\ \A u \in Task \ {d} : state'[u] = state[u]
          /\ runningTask'[p] = n
          /\ pc'[p] = (IF n # NoTask THEN "run" ELSE "endpass")
          /\ \A q \in Proc \ {p} : runningTask'[q] = runningTask[q] /\ pc'[q] = pc[q]
          /\ n # NoTask => l[n] = RunnableOf(p) /\ n # d
      BY <3>1 DEF Recycles
    <3>3. /\ alive' = alive
          /\ \A u \in Task : u \in live' /\ state'[u] = "block"
                               <=> u \in live /\ state[u] = "block"
          /\ live' \subseteq Task
      BY <1>b, <3>2 DEF alive
    <3>4. CASE n # NoTask
      <4>1. n \in Task /\ pc'[p] = "run"
        BY <3>2, <3>4
      <4> QED
        BY <1>0, <1>l, <1>b, <3>2, <3>3, <3>4, <4>1, ResumeStep
    <3>5. CASE n = NoTask
      <4>1. UNCHANGED onStack
        BY <3>2, <3>5 DEF onStack, Executes
      <4>2. \A u \in Task : u \in live /\ state[u] # "done"
                              <=> u \in live' /\ state'[u] # "done"
        BY <3>2
      <4> QED
        BY <1>0, <3>3, <4>1, <4>2, SchedSame
    <3> QED
      BY <3>4, <3>5
  <2> QED
    BY <1>1, <2>1, <2>2, <2>3, <2>4, <2>5, <2>6, <2>7 DEF Process
<1>o. ASSUME NEW p \in Proc, pc[p] \notin OffLabel, pc[p] \notin {"push", "interrupt"}
      PROVE  \E t \in Task : t = runningTask[p] /\ RunsTask(l, p, t) /\ Pos(p) = pc[p]
  BY <1>0, <1>l, <1>o, RunningTask
<1>k. ASSUME NEW p \in Proc, NEW t \in Task, t = runningTask[p],
             pc[p] \notin {"out", "unlink", "recycle"},
             NEW L \in Label, Goto(p, L), L \notin {"out", "unlink", "recycle"},
             state[t] # "done", NEW s \in {"runnable", "block"},
             state' = [state EXCEPT ![t] = s], UNCHANGED <<runningTask, live>>
      PROVE  [Sched!Next]_(Sched!vars)
  <2>1. UNCHANGED onStack
    <3>1. \A q \in Proc : pc'[q] \in {"out", "unlink", "recycle"}
                            <=> pc[q] \in {"out", "unlink", "recycle"}
      BY <1>0, <1>k DEF Goto, TypeOK
    <3> QED
      BY <1>k, <3>1, SameStacks
  <2>2. onStack[p] = t
    BY <1>k, ProcesserAssumption DEF onStack, Executes
  <2>3. state'[t] = s /\ \A u \in Task \ {t} : state'[u] = state[u]
    BY <1>0, <1>k DEF TypeOK
  <2>4. alive' = alive
    BY <1>b, <1>k, <2>3 DEF alive
  <2>5. parked' = parked
    BY <1>b, <1>k, <2>1, <2>2, <2>3 DEF parked
  <2> QED
    BY <2>1, <2>4, <2>5 DEF Sched!vars, alive, parked
<1>2. ASSUME NEW p \in Proc, Library(p) PROVE [Sched!Next]_(Sched!vars)
  <2>1. CASE RegisterSync(p) \/ RegisterOwn(p)
    BY <1>0, <2>1, StillStep DEF RegisterSync, RegisterOwn
  <2>2. CASE WakeupSelf(p)
    <3>1. PICK t \in Task : t = runningTask[p] /\ RunsTask(l, p, t)
      BY <1>o, <2>2 DEF WakeupSelf, OffLabel
    <3>2. pc[p] = "erased" /\ state[t] = "block"
      BY <2>2, <3>1 DEF WakeupSelf, RunsTask
    <3> QED
      BY <1>k, <2>2, <3>1, <3>2 DEF WakeupSelf, Label
  <2>3. CASE SwapOutSuspended(p)
    <3>1. PICK t \in Task : t = runningTask[p] /\ RunsTask(l, p, t) /\ Pos(p) = pc[p]
      BY <1>o, <2>3 DEF SwapOutSuspended, OffLabel
    <3>2. pc[p] = "registered" /\ state[t] # "done" /\ t \in live
      BY <2>3, <3>1 DEF SwapOutSuspended, RunsTask
    <3> QED
      BY <1>0, <1>l, <2>3, <3>1, <3>2, LeaveStep DEF SwapOutSuspended, SwapOut
  <2>4. CASE WakeupPush(p)
    BY <1>0, <2>4, StillStep DEF WakeupPush
  <2>5. CASE WakeupInterrupt(p)
    <3>1. caller[p] \notin {"out", "unlink", "recycle"}
      BY <1>0 DEF TypeOK
    <3> QED
      BY <1>0, <2>5, <3>1, StillStep DEF WakeupInterrupt
  <2> QED
    BY <1>2, <2>1, <2>2, <2>3, <2>4, <2>5 DEF Library
<1>3. ASSUME NEW p \in Proc, CoYield(p) \/ Done(p) \/ SuspendBySelfIO(p)
      PROVE  [Sched!Next]_(Sched!vars)
  <2>0. pc[p] = "run"
    BY <1>3 DEF CoYield, Done, SuspendBySelfIO
  <2>1. PICK t \in Task : t = runningTask[p] /\ RunsTask(l, p, t) /\ Pos(p) = pc[p]
    BY <1>o, <2>0 DEF OffLabel
  <2>2. state[t] = "runnable" /\ t \in live
    BY <2>0, <2>1 DEF RunsTask
  <2>3. CASE CoYield(p) \/ Done(p)
    <3>1. /\ Goto(p, "out") /\ UNCHANGED <<runningTask, live>>
          /\ state' = state \/ state' = [state EXCEPT ![t] = "done"]
      BY <2>1, <2>3 DEF CoYield, Done, SwapOut
    <3> QED
      BY <1>0, <1>l, <2>0, <2>1, <2>2, <3>1, LeaveStep
  <2>4. CASE SuspendBySelfIO(p)
    <3>1. /\ Goto(p, "erased") /\ UNCHANGED <<runningTask, live>>
          /\ state' = [state EXCEPT ![t] = "block"]
      BY <2>1, <2>4 DEF SuspendBySelfIO
    <3> QED
      BY <1>k, <2>0, <2>1, <2>2, <3>1 DEF Label
  <2> QED
    BY <1>3, <2>3, <2>4
<1>4. ASSUME NEW p \in Proc, NEW t \in Task, WakeupOwn(p, t) \/ WakeupBegin(p, t)
      PROVE  [Sched!Next]_(Sched!vars)
  <2>1. t \in syncWait \union ownWait
    BY <1>4 DEF WakeupOwn, WakeupBegin
  <2>2. state[t] = "block" /\ t \in live
    BY <1>l, <2>1 DEF Core, Waiting
  <2>3. /\ state' = [state EXCEPT ![t] = "runnable"]
        /\ UNCHANGED <<runningTask, live>>
    BY <1>4 DEF WakeupOwn, WakeupBegin
  <2>4. \A q \in Proc : pc'[q] \in {"out", "unlink", "recycle"}
                          <=> pc[q] \in {"out", "unlink", "recycle"}
    BY <1>0, <1>4 DEF WakeupOwn, WakeupBegin, Goto, TypeOK
  <2> QED
    BY <1>0, <2>2, <2>3, <2>4, WakeSched
<1>5. ASSUME NEW p \in Proc, NEW t \in Task, CreateTask(t, p)
      PROVE  [Sched!Next]_(Sched!vars)
  <2>1. /\ t \notin live /\ live' = live \union {t}
        /\ UNCHANGED <<state, runningTask, pc>>
    BY <1>5 DEF CreateTask
  <2>2. \A q \in Proc : runningTask[q] # t
    BY <1>l, <2>1, ProcesserAssumption DEF Core, Running, RunsTask
  <2>3. state[t] = "runnable"
    <3>1. \A L : ~ HeldAt(t, L)
      BY <2>2 DEF HeldAt
    <3>2. t \notin syncWait \union ownWait
      BY <1>l, <2>1 DEF Core, Waiting
    <3>3. state[t] # "done" /\ state[t] # "block"
      BY <1>l, <3>1, <3>2 DEF Core, Tasks
    <3> QED
      BY <1>0, <3>3 DEF TypeOK
  <2>4. onStack' = onStack
    BY <2>1 DEF onStack, Executes
  <2>5. alive' = alive \union {t} /\ parked' = parked /\ t \notin alive
    BY <2>1, <2>3, <2>4 DEF alive, parked
  <2>6. t # NoTask /\ \A q \in Proc : onStack[q] # t
    BY <2>2, ProcesserAssumption DEF onStack
  <2>7. Sched!Create(t)
    BY <2>4, <2>5, <2>6 DEF Sched!Create, Sched!Executing, alive, parked
  <2> QED
    BY <2>7 DEF Sched!Next
<1>6. CASE DispatcherThread
  BY <1>0, <1>6, StillSched DEF DispatcherThread
<1>7. CASE AvgTotalTasks
  <2>1. /\ Return \/ pc' = pc
        /\ UNCHANGED <<runningTask, state, live>>
    <3>1. CASE CountRunnable \/ CountNew \/ StealNothing
      BY <3>1 DEF CountRunnable, CountNew, StealNothing
    <3>2. CASE StealNew \/ StealRunnable
      BY <3>2 DEF StealNew, StealRunnable
    <3>3. CASE GiveNothing \/ GiveTasks \/ GiveRest
      BY <3>3 DEF GiveNothing, GiveTasks, GiveRest
    <3> QED
      BY <1>7, <3>1, <3>2, <3>3 DEF AvgTotalTasks
  <2>2. \A p \in Proc : pc'[p] \in {"out", "unlink", "recycle"}
                          <=> pc[p] \in {"out", "unlink", "recycle"}
    BY <1>0, <2>1 DEF Return, TypeOK
  <2> QED
    BY <1>0, <2>1, <2>2, StillSched
<1>8. CASE UNCHANGED vars
  BY <1>0, <1>8, StillSched DEF vars
<1> QED
  BY <1>1, <1>2, <1>3, <1>4, <1>5, <1>6, <1>7, <1>8 DEF Next

\* Process, wakeups and stealing resume, park, wake and finish tasks only the
\* way TaskSched allows.
THEOREM Refinement == Spec => ImplementsTaskSched
<1>1. Init => Sched!Init
  <2> SUFFICES ASSUME Init PROVE Sched!Init
    OBVIOUS
  <2>1. onStack = [p \in Proc |-> NoTask]
    BY DEF Init, onStack, Executes
  <2>2. live \subseteq Task
    BY InitTInv DEF TInv, TypeOK
  <2>3. alive \in SUBSET Task
    BY <2>2 DEF alive
  <2>4. \A t \in Task : state[t] = "runnable"
    BY DEF Init
  <2>5. parked = {}
    BY <2>2, <2>4 DEF parked
  <2> QED
    BY <2>1, <2>3, <2>5 DEF Sched!Init, alive, parked
<1>2. CInv /\ [Next]_vars => [Sched!Next]_(Sched!vars)
  BY StepSched
<1> QED
  BY <1>1, <1>2, Invariant, PTL DEF Spec, ImplementsTaskSched, Sched!Spec
=============================================================================
