---------------------------- MODULE ChannelProofs ----------------------------
(***************************************************************************)
(* Who waits in a channel, for every set of coroutines, threads, values    *)
(* and capacities; the two rings, for every capacity, every width of       *)
(* size_t and any number of producers; and the queue of the waiters, for   *)
(* any finite set of entries.                                              *)
(*                                                                         *)
(* EntriesWait and AnsweredIsReady say nothing of a coroutine between two  *)
(* of its steps, so neither is inductive: ChInv adds where in its call a   *)
(* coroutine is when it is suspended, answered or parked, and that it has  *)
(* one entry in the queues at most.                                        *)
(*                                                                         *)
(* ImplementsChannel needs RefInv besides: whoever is suspended has an     *)
(* entry, so a timer that fires takes a waiting call out of the abstract   *)
(* channel, and whoever has timed out is on its way back, so an entry      *)
(* that notifies is one the abstract channel still has.                    *)
(*                                                                         *)
(* A ring buffer's values are in order wherever read_ stands: the slots    *)
(* are counted from its remainder, which the wrap of write_ leaves as it   *)
(* is when capacity_ + 1 divides the range of size_t.  In the lock-free    *)
(* ring a claim is not yet a store: PairInv counts the slots claimed,      *)
(* stored and being taken from each thread's program counter, and AloneInv *)
(* says that no slot from write_ on has been used.  The queue is what some *)
(* sequence without repetitions is when its elements are linked: QueueInv. *)
(***************************************************************************)
EXTENDS MCChannel, SeqLemmas, FiniteSetTheorems

\* The scheduler's part: one thread per executing task, never a parked one.
Scheduled ==
    /\ \A p, q \in Proc : on[p] = on[q] /\ on[p] # NoTask => p = q
    /\ \A p \in Proc : on[p] \notin parked

\* Where in a call of Push or Pop t is: parked only while it waits, and
\* suspended only while its success_ is not decided.
Phase(t) ==
    /\ t \in parked => pc[t] = "wait" /\ state[t] = "block"
    /\ pc[t] = "idle" => state[t] = "runnable"
    /\ pc[t] = "wait" /\ state[t] = "block" => t \in parked
    /\ state[t] = "block" => success[t] = "none"

\* A queue holds a task once, and only one that is in a call; unless its timer
\* has fired the task is suspended.
Entries(q) ==
    /\ \A i, j \in 1 .. Len(q) : q[i] = q[j] /\ q[i] # NoTask => i = j
    /\ \A i \in 1 .. Len(q) : q[i] # NoTask =>
          pc[q[i]] # "idle" /\ (q[i] \in isTimeOut \/ state[q[i]] = "block")

\* Nobody waits for what is there.
Needed ==
    /\ rq # <<>> => buf = <<>> /\ wq = <<>>
    /\ wq # <<>> => Len(buf) = capacity

ChInv ==
    /\ TypeOK /\ Scheduled /\ Needed
    /\ \A t \in Task : Phase(t)
    /\ Entries(wq) /\ Entries(rq)
-----------------------------------------------------------------------------
\* The oldest entry leaves a queue.
LEMMA TailElements ==
  ASSUME NEW S, NEW q \in Seq(S), q # <<>>
  PROVE  /\ Tail(q) \in Seq(S) /\ Len(Tail(q)) = Len(q) - 1 /\ Len(q) \in Nat
         /\ \A i \in 1 .. Len(q) - 1 : Tail(q)[i] = q[1 + i]
         /\ Head(q) = q[1] /\ Head(q) \in S /\ 1 \in 1 .. Len(q)
  BY HeadTailProperties, LenProperties, EmptySeq, ElementOfSeq

\* An entry joins a queue.
LEMMA AppendElements ==
  ASSUME NEW S, NEW q \in Seq(S), NEW e \in S
  PROVE  /\ Append(q, e) \in Seq(S) /\ Append(q, e) # <<>>
         /\ Len(Append(q, e)) = Len(q) + 1 /\ Len(q) \in Nat
         /\ \A i \in 1 .. Len(q) : Append(q, e)[i] = q[i]
         /\ Append(q, e)[Len(q) + 1] = e
  BY AppendProperties, LenProperties, EmptySeq

\* The entries in both queues are those of either.
LEMMA InBoth ==
  ASSUME NEW S, NEW q \in Seq(S), NEW r \in Seq(S)
  PROVE  Range(q \o r) = {q[i] : i \in 1 .. Len(q)} \union {r[i] : i \in 1 .. Len(r)}
<1>1. DOMAIN q = 1 .. Len(q) /\ DOMAIN r = 1 .. Len(r)
  BY LenProperties
<1>2. Range(q \o r) = ToSet(q \o r)
  BY DEF Range, ToSet
<1>3. ToSet(q) = {q[i] : i \in 1 .. Len(q)} /\ ToSet(r) = {r[i] : i \in 1 .. Len(r)}
  BY <1>1 DEF ToSet
<1> QED
  BY <1>2, <1>3, ConcatToSet

\* The initial states satisfy the invariant.
LEMMA InitChInv == Init => ChInv
<1> SUFFICES ASSUME Init PROVE ChInv
  OBVIOUS
<1>1. buf = <<>> /\ wq = <<>> /\ rq = <<>> /\ capacity \in Capacities /\ capacity \in Nat
  BY FastChannelAssumption DEF Init
<1>2. buf \in Seq(Value) /\ Len(buf) = 0 /\ wq \in Seq(Task \union {NoTask})
      /\ rq \in Seq(Task \union {NoTask})
  BY <1>1, EmptySeq
<1>3. TypeOK
  <2>1. PICK v \in Value : slot = [t \in Task |-> v] /\ got = slot
    BY DEF Init
  <2>2. slot \in [Task -> Value] /\ got \in [Task -> Value]
    BY <2>1
  <2>3. SuspensionTypeOK
    BY DEF Init, SuspensionInit, SuspensionTypeOK, Sched!Init
  <2>4. /\ timer \in [Task -> Proc \union {NoTask}] /\ isTimeOut \in SUBSET Task
        /\ success \in [Task -> {"none", "ok", "fail"}]
        /\ pc \in [Task -> {"idle", "switch", "wait"}]
        /\ closed \in BOOLEAN /\ wild \in BOOLEAN
    BY DEF Init
  <2> QED
    BY <1>1, <1>2, <2>2, <2>3, <2>4 DEF TypeOK
<1>4. Scheduled /\ Needed /\ \A t \in Task : Phase(t)
  BY <1>1, SuspensionAssumption
     DEF Init, SuspensionInit, Sched!Init, Scheduled, Needed, Phase
<1>5. Entries(wq) /\ Entries(rq)
  BY <1>1, EmptySeq DEF Entries
<1> QED
  BY <1>3, <1>4, <1>5 DEF ChInv

\* A task that calls the channel is runnable and has no entry in a queue.
LEMMA CallerFacts ==
  ASSUME ChInv, NEW t \in Sched!Executing, pc[t] = "idle"
  PROVE  /\ t \in Task /\ t \notin parked /\ state[t] = "runnable"
         /\ \A i \in 1 .. Len(wq) : wq[i] # t
         /\ \A i \in 1 .. Len(rq) : rq[i] # t
  BY SuspensionAssumption
     DEF ChInv, TypeOK, SuspensionTypeOK, Scheduled, Phase, Entries, Sched!Executing

\* Whatever leaves the coroutines and the queues as they are keeps the
\* invariant; the answer of a running caller may change.
LEMMA StillKeeps ==
  ASSUME ChInv, TypeOK', Needed', UNCHANGED <<suspensionVars, wq, rq, isTimeOut, pc>>,
         \A u \in Task : success'[u] = success[u] \/ state[u] = "runnable"
  PROVE  ChInv'
<1>1. Scheduled'
  BY DEF ChInv, Scheduled, suspensionVars
<1>2. \A u \in Task : Phase(u)'
  BY DEF ChInv, Phase, suspensionVars
<1>3. Entries(wq)' /\ Entries(rq)'
  BY DEF ChInv, Entries, suspensionVars
<1> QED
  BY <1>1, <1>2, <1>3 DEF ChInv

\* A failed call, and what is undefined.
LEMMA FailKeeps ==
  ASSUME ChInv, Undefined \/ \E t \in Task : Calls(t) /\ Fail(t)
  PROVE  ChInv'
<1>1. CASE Undefined
  <2>1. TypeOK' /\ Needed'
    BY <1>1 DEF ChInv, TypeOK, SuspensionTypeOK, Needed, Undefined, suspensionVars
  <2> QED
    BY <1>1, <2>1, StillKeeps DEF Undefined
<1>2. ASSUME NEW t \in Task, Calls(t), Fail(t)
      PROVE  ChInv'
  <2>1. TypeOK' /\ Needed'
    BY <1>2 DEF ChInv, TypeOK, SuspensionTypeOK, Needed, Fail, suspensionVars
  <2>2. state[t] = "runnable"
    BY <1>2, CallerFacts DEF Calls
  <2>3. \A u \in Task : success'[u] = success[u] \/ u = t
    BY <1>2 DEF ChInv, TypeOK, Fail
  <2> QED
    BY <1>2, <2>1, <2>2, <2>3, StillKeeps DEF Fail
<1> QED
  BY <1>1, <1>2

\* A value goes into the buffer or comes out of it and nobody waits.
LEMMA BufferKeeps ==
  ASSUME ChInv, NEW t \in Task, Calls(t),
         PopBuffered(t) \/ \E v \in Value : PushBuffers(t, v)
  PROVE  ChInv'
<1>1. state[t] = "runnable"
  BY CallerFacts DEF Calls
<1>2. \A u \in Task : success'[u] = success[u] \/ u = t
  BY DEF ChInv, TypeOK, PopBuffered, PushBuffers, Done
<1>3. success' \in [Task -> {"none", "ok", "fail"}]
  BY DEF ChInv, TypeOK, PopBuffered, PushBuffers, Done
<1>4. UNCHANGED <<suspensionVars, wq, rq, isTimeOut, pc>>
  BY DEF PopBuffered, PushBuffers
<1>5. SuspensionTypeOK'
  BY <1>4 DEF ChInv, TypeOK, SuspensionTypeOK, suspensionVars
<1>6. TypeOK' /\ Needed'
  <2>1. CASE PopBuffered(t)
    <3>1. /\ Tail(buf) \in Seq(Value) /\ Len(Tail(buf)) = Len(buf) - 1
          /\ Head(buf) \in Value /\ Len(buf) \in Nat
      BY <2>1, TailElements DEF PopBuffered, ChInv, TypeOK
    <3>2. wq = <<>> /\ rq = <<>>
      BY <2>1 DEF PopBuffered, ChInv, Needed
    <3>3. got' \in [Task -> Value] /\ buf' = Tail(buf) /\ Len(buf') <= capacity
      <4>1. got' = [got EXCEPT ![t] = Head(buf)] /\ buf' = Tail(buf)
        BY <2>1 DEF PopBuffered
      <4>2. capacity \in Nat /\ Len(buf) <= capacity /\ got \in [Task -> Value]
        BY FastChannelAssumption DEF ChInv, TypeOK
      <4> QED
        BY <3>1, <4>1, <4>2
    <3>4. UNCHANGED <<capacity, closed, wq, rq, slot, timer, isTimeOut, pc, wild>>
      BY <2>1 DEF PopBuffered
    <3>5. TypeOK'
      BY <1>3, <1>5, <3>1, <3>3, <3>4 DEF ChInv, TypeOK
    <3> QED
      BY <1>4, <3>2, <3>5 DEF Needed
  <2>2. ASSUME NEW v \in Value, PushBuffers(t, v)
        PROVE  TypeOK' /\ Needed'
    <3>1. /\ Append(buf, v) \in Seq(Value) /\ Len(Append(buf, v)) = Len(buf) + 1
          /\ Len(buf) \in Nat
      BY AppendElements DEF ChInv, TypeOK
    <3>2. capacity \in Nat
      BY FastChannelAssumption DEF ChInv, TypeOK
    <3>3. wq = <<>> /\ rq = <<>>
      BY <2>2, <3>1, <3>2 DEF PushBuffers, ChInv, Needed
    <3>4. buf' = Append(buf, v) /\ Len(buf') <= capacity
      BY <2>2, <3>1, <3>2 DEF PushBuffers
    <3>5. TypeOK'
      BY <1>3, <1>5, <2>2, <3>1, <3>4 DEF PushBuffers, ChInv, TypeOK
    <3> QED
      BY <1>4, <3>3, <3>5 DEF Needed
  <2> QED
    BY <2>1, <2>2
<1> QED
  BY <1>1, <1>2, <1>4, <1>6, StillKeeps
\* A wakeup: the tasks of W leave parked, or do not get there.
LEMMA WakeKeeps ==
  ASSUME ChInv, TypeOK', Needed', NEW W \in SUBSET Task,
         WakeupBySelfIO(W), UNCHANGED pc,
         \A u \in Task : u \in W \/ success'[u] = success[u] \/ state[u] = "runnable",
         Entries(wq)', Entries(rq)'
  PROVE  ChInv'
<1>1. Scheduled'
  BY DEF ChInv, Scheduled, WakeupBySelfIO
<1>2. \A u \in Task : Phase(u)'
  BY DEF ChInv, TypeOK, SuspensionTypeOK, Phase, WakeupBySelfIO
<1> QED
  BY <1>1, <1>2 DEF ChInv

\* The state the scheduler keeps is well typed after a wakeup.
LEMMA WakeType ==
  ASSUME TypeOK, NEW W \in SUBSET Task, WakeupBySelfIO(W)
  PROVE  SuspensionTypeOK'
  BY DEF TypeOK, SuspensionTypeOK, WakeupBySelfIO

\* ReadNotifyOne: the reader that has waited longest gets the value.
LEMMA PushHandsOverKeeps ==
  ASSUME ChInv, NEW t \in Task, Calls(t), NEW v \in Value, PushHandsOver(t, v),
         ~ Undefined
  PROVE  ChInv'
<1> DEFINE h == Head(rq)
<1>1. /\ rq # <<>> /\ buf = <<>> /\ rq' = Tail(rq) /\ h # NoTask /\ MayWake({h})
      /\ WakeupBySelfIO({h}) /\ success' = Done({t, h})
      /\ got' = [got EXCEPT ![h] = v]
      /\ UNCHANGED <<capacity, closed, buf, wq, slot, timer, isTimeOut, pc, wild>>
  BY DEF PushHandsOver, Notifiable
<1>2. /\ Tail(rq) \in Seq(Task \union {NoTask}) /\ Len(Tail(rq)) = Len(rq) - 1
      /\ \A i \in 1 .. Len(rq) - 1 : Tail(rq)[i] = rq[1 + i]
      /\ h = rq[1] /\ h \in Task /\ Len(rq) \in Nat /\ 1 \in 1 .. Len(rq)
  BY <1>1, TailElements DEF ChInv, TypeOK
<1> HIDE DEF h
<1>3. wq = <<>>
  BY <1>1 DEF ChInv, Needed
<1>4. success' \in [Task -> {"none", "ok", "fail"}]
      /\ \A u \in Task : u \in {h} \/ success'[u] = success[u] \/ state[u] = "runnable"
  BY <1>1, CallerFacts DEF Done, ChInv, TypeOK, Calls
<1>5. TypeOK'
  <2>1. SuspensionTypeOK'
    BY <1>1, <1>2, WakeType DEF ChInv
  <2>2. got' \in [Task -> Value]
    BY <1>1, <1>2 DEF ChInv, TypeOK
  <2> QED
    BY <1>1, <1>2, <1>4, <2>1, <2>2 DEF ChInv, TypeOK
<1>6. Needed'
  BY <1>1, <1>3 DEF Needed
<1>7. Entries(wq)'
  BY <1>1, <1>3, EmptySeq DEF Entries
<1>8. Entries(rq)'
  BY <1>1, <1>2 DEF ChInv, TypeOK, SuspensionTypeOK, Entries, WakeupBySelfIO
<1> QED
  BY <1>1, <1>2, <1>4, <1>5, <1>6, <1>7, <1>8, WakeKeeps

\* WriteNotifyOne: the value of the writer that has waited longest takes the
\* place that has become free.
LEMMA PopWakesWriterKeeps ==
  ASSUME ChInv, NEW t \in Task, Calls(t), PopWakesWriter(t), ~ Undefined
  PROVE  ChInv'
<1> DEFINE h   == Head(wq)
           all == Append(buf, slot[h])
<1>1. /\ wq # <<>> /\ wq' = Tail(wq) /\ h # NoTask /\ MayWake({h})
      /\ WakeupBySelfIO({h}) /\ success' = Done({t, h})
      /\ got' = [got EXCEPT ![t] = Head(all)] /\ buf' = Tail(all)
      /\ UNCHANGED <<capacity, closed, rq, slot, timer, isTimeOut, pc, wild>>
  BY DEF PopWakesWriter, Notifiable
<1>2. /\ Tail(wq) \in Seq(Task \union {NoTask}) /\ Len(Tail(wq)) = Len(wq) - 1
      /\ \A i \in 1 .. Len(wq) - 1 : Tail(wq)[i] = wq[1 + i]
      /\ h = wq[1] /\ h \in Task /\ Len(wq) \in Nat /\ 1 \in 1 .. Len(wq)
  BY <1>1, TailElements DEF ChInv, TypeOK
<1> HIDE DEF h
<1>3. slot[h] \in Value
  BY <1>2 DEF ChInv, TypeOK
<1>4. all \in Seq(Value) /\ all # <<>> /\ Len(all) = Len(buf) + 1 /\ Len(buf) \in Nat
  BY <1>3, AppendElements DEF ChInv, TypeOK
<1> HIDE DEF all
<1>5. buf' \in Seq(Value) /\ Len(buf') = Len(buf) /\ Head(all) \in Value
  BY <1>1, <1>4, TailElements
<1>6. rq = <<>>
  BY <1>1 DEF ChInv, Needed
<1>7. success' \in [Task -> {"none", "ok", "fail"}]
      /\ \A u \in Task : u \in {h} \/ success'[u] = success[u] \/ state[u] = "runnable"
  BY <1>1, CallerFacts DEF Done, ChInv, TypeOK, Calls
<1>8. TypeOK'
  <2>1. SuspensionTypeOK'
    BY <1>1, <1>2, WakeType DEF ChInv
  <2>2. got' \in [Task -> Value]
    BY <1>1, <1>5 DEF ChInv, TypeOK
  <2> QED
    BY <1>1, <1>2, <1>5, <1>7, <2>1, <2>2 DEF ChInv, TypeOK
<1>9. Needed'
  BY <1>1, <1>5, <1>6 DEF ChInv, Needed
<1>10. Entries(rq)'
  BY <1>1, <1>6, EmptySeq DEF Entries
<1>11. Entries(wq)'
  BY <1>1, <1>2 DEF ChInv, TypeOK, SuspensionTypeOK, Entries, WakeupBySelfIO
<1> QED
  BY <1>1, <1>2, <1>7, <1>8, <1>9, <1>10, <1>11, WakeKeeps

\* Close: everybody who waits is woken and both queues are empty.
LEMMA CloseKeeps ==
  ASSUME ChInv, NEW t \in Task, Close(t), ~ Undefined
  PROVE  ChInv'
<1> DEFINE waiting == Range(rq \o wq)
<1>1. /\ \A u \in waiting : u # NoTask
      /\ closed' = TRUE /\ rq' = <<>> /\ wq' = <<>>
      /\ success' = [u \in Task |-> IF u \in waiting THEN "fail" ELSE success[u]]
      /\ WakeupBySelfIO(waiting)
      /\ UNCHANGED <<capacity, buf, slot, got, timer, isTimeOut, pc, wild>>
  BY DEF Close, Notifiable
<1>2. waiting \in SUBSET (Task \union {NoTask})
  BY ConcatToSet, InToSet DEF ChInv, TypeOK, Range, ToSet
<1> HIDE DEF waiting
<1>3. waiting \in SUBSET Task
  BY <1>1, <1>2
<1>4. /\ success' \in [Task -> {"none", "ok", "fail"}]
      /\ \A u \in Task : u \in waiting \/ success'[u] = success[u]
  BY <1>1 DEF ChInv, TypeOK
<1>5. rq' \in Seq(Task \union {NoTask}) /\ wq' \in Seq(Task \union {NoTask})
  BY <1>1, EmptySeq
<1>6. TypeOK'
  BY <1>1, <1>3, <1>4, <1>5, WakeType DEF ChInv, TypeOK
<1>7. Needed' /\ Entries(wq)' /\ Entries(rq)'
  BY <1>1, EmptySeq DEF Needed, Entries
<1> QED
  BY <1>1, <1>3, <1>4, <1>6, <1>7, WakeKeeps

\* The timer's callback: the entry stays in its queue.
LEMMA TimerFiresKeeps ==
  ASSUME ChInv, NEW t \in Task, TimerFires(t), ~ Undefined
  PROVE  ChInv'
<1>1. /\ isTimeOut' = isTimeOut \union {t} /\ timer' = [timer EXCEPT ![t] = NoTask]
      /\ success' = [success EXCEPT ![t] = "fail"] /\ WakeupBySelfIO({t})
      /\ UNCHANGED <<capacity, closed, buf, wq, rq, slot, got, pc, wild>>
  BY DEF TimerFires
<1>2. TypeOK'
  BY <1>1, WakeType DEF ChInv, TypeOK
<1>3. Needed'
  BY <1>1 DEF ChInv, Needed
<1>4. \A u \in Task : u \in {t} \/ success'[u] = success[u]
  BY <1>1 DEF ChInv, TypeOK
<1>5. /\ \A i \in 1 .. Len(wq) :
            wq[i] # NoTask => state'[wq[i]] = state[wq[i]] \/ wq[i] = t
      /\ \A i \in 1 .. Len(rq) :
            rq[i] # NoTask => state'[rq[i]] = state[rq[i]] \/ rq[i] = t
  BY <1>1, ElementOfSeq DEF ChInv, TypeOK, WakeupBySelfIO
<1>6. Entries(wq)' /\ Entries(rq)'
  <2>1. UNCHANGED <<wq, rq, pc>> /\ isTimeOut' = isTimeOut \union {t}
    BY <1>1
  <2> QED
    BY <1>5, <2>1 DEF ChInv, Entries
<1>7. {t} \in SUBSET Task /\ WakeupBySelfIO({t}) /\ UNCHANGED pc
  BY <1>1
<1> QED
  BY <1>2, <1>3, <1>4, <1>6, <1>7, WakeKeeps

\* A call blocks: the task suspends itself and puts its entry at the end.
LEMMA WaitKeeps ==
  ASSUME ChInv, NEW t \in Task, Calls(t), NEW timeout, Wait(t, timeout), Needed',
         slot' \in [Task -> Value],
         \/ rq' = rq /\ wq' = Append(wq, t)
         \/ wq' = wq /\ rq' = Append(rq, t)
  PROVE  ChInv'
<1>1. /\ state' = [state EXCEPT ![t] = "block"]
      /\ success' = [success EXCEPT ![t] = "none"]
      /\ pc' = [pc EXCEPT ![t] = "switch"]
      /\ timer' \in [Task -> Proc \union {NoTask}]
      /\ UNCHANGED <<alive, parked, on, capacity, closed, buf, got, isTimeOut, wild>>
  BY DEF Wait, SuspendBySelfIO, ChInv, TypeOK
<1>2. /\ t \notin parked /\ state[t] = "runnable"
      /\ \A i \in 1 .. Len(wq) : wq[i] # t
      /\ \A i \in 1 .. Len(rq) : rq[i] # t
  BY CallerFacts DEF Calls
<1>3. \A q \in {wq, rq} :
         /\ Append(q, t) \in Seq(Task \union {NoTask})
         /\ Len(Append(q, t)) = Len(q) + 1 /\ Len(q) \in Nat
         /\ \A i \in 1 .. Len(q) : Append(q, t)[i] = q[i]
         /\ Append(q, t)[Len(q) + 1] = t
  BY AppendElements DEF ChInv, TypeOK
<1>4. TypeOK'
  BY <1>1, <1>3 DEF ChInv, TypeOK, SuspensionTypeOK
<1>5. Scheduled' /\ \A u \in Task : Phase(u)'
  BY <1>1, <1>2 DEF ChInv, TypeOK, SuspensionTypeOK, Scheduled, Phase
<1>6. /\ \A i \in 1 .. Len(wq) : wq[i] \in Task \union {NoTask}
      /\ \A i \in 1 .. Len(rq) : rq[i] \in Task \union {NoTask}
  BY ElementOfSeq DEF ChInv, TypeOK
<1>7. Entries(wq)'
  <2>1. CASE wq' = wq
    BY <1>1, <1>2, <1>6, <2>1 DEF ChInv, TypeOK, SuspensionTypeOK, Entries
  <2>2. CASE wq' = Append(wq, t)
    BY <1>1, <1>2, <1>3, <1>6, <2>2 DEF ChInv, TypeOK, SuspensionTypeOK, Entries
  <2> QED
    BY <2>1, <2>2
<1>8. Entries(rq)'
  <2>1. CASE rq' = rq
    BY <1>1, <1>2, <1>6, <2>1 DEF ChInv, TypeOK, SuspensionTypeOK, Entries
  <2>2. CASE rq' = Append(rq, t)
    BY <1>1, <1>2, <1>3, <1>6, <2>2 DEF ChInv, TypeOK, SuspensionTypeOK, Entries
  <2> QED
    BY <2>1, <2>2
<1> QED
  BY <1>4, <1>5, <1>7, <1>8 DEF ChInv

\* A writer blocks behind a full buffer only, a reader at an empty one.
LEMMA BlockingKeeps ==
  ASSUME ChInv, NEW t \in Task, Calls(t), NEW timeout,
         ReadWaite(t, timeout) \/ \E v \in Value : WriteWaite(t, v, timeout)
  PROVE  ChInv'
<1>1. capacity \in Nat /\ Len(buf) \in Nat /\ Len(buf) <= capacity
  BY FastChannelAssumption, LenProperties DEF ChInv, TypeOK
<1>2. CASE ReadWaite(t, timeout)
  <2>1. /\ Wait(t, timeout) /\ rq' = Append(rq, t) /\ UNCHANGED <<wq, slot, buf>>
        /\ buf = <<>> /\ (wq = <<>> \/ capacity > 0)
    BY <1>2 DEF ReadWaite, Wait, PopCannot
  <2>2. wq = <<>>
    BY <1>1, <2>1, EmptySeq DEF ChInv, Needed
  <2>3. Needed' /\ slot' \in [Task -> Value]
    BY <2>1, <2>2 DEF ChInv, TypeOK, Needed
  <2> QED
    BY <2>1, <2>3, WaitKeeps
<1>3. ASSUME NEW v \in Value, WriteWaite(t, v, timeout)
      PROVE  ChInv'
  <2>1. /\ Wait(t, timeout) /\ wq' = Append(wq, t) /\ UNCHANGED <<rq, buf, capacity>>
        /\ slot' = [slot EXCEPT ![t] = v]
        /\ Len(buf) >= capacity /\ (buf # <<>> \/ rq = <<>>)
    BY <1>3 DEF WriteWaite, Wait, PushCannot
  <2>2. rq = <<>> /\ Len(buf) = capacity
    BY <1>1, <2>1 DEF ChInv, Needed
  <2>3. Needed' /\ slot' \in [Task -> Value]
    BY <2>1, <2>2 DEF ChInv, TypeOK, Needed
  <2> QED
    BY <2>1, <2>3, WaitKeeps
<1> QED
  BY <1>2, <1>3

\* The blocked caller swaps out; woken meanwhile, it stays ready.
LEMMA SwitchKeeps ==
  ASSUME ChInv, NEW p \in Proc, Switch(p)
  PROVE  ChInv'
<1> DEFINE t == on[p]
<1>1. /\ t # NoTask /\ pc[t] = "switch" /\ pc' = [pc EXCEPT ![t] = "wait"]
      /\ on' = [on EXCEPT ![p] = NoTask]
      /\ parked' = IF state[t] = "block" THEN parked \union {t} ELSE parked
      /\ UNCHANGED <<alive, state, capacity, closed, buf, wq, rq, slot, got,
                     success, timer, isTimeOut, wild>>
  BY DEF Switch, SwapOut, Sched!Park, Sched!Yield, Sched!Leave
<1>2. t \in Task /\ t \notin parked /\ \A q \in Proc : on[q] = t => q = p
  BY <1>1 DEF ChInv, TypeOK, SuspensionTypeOK, Scheduled
<1> HIDE DEF t
<1>3. TypeOK'
  BY <1>1, <1>2 DEF ChInv, TypeOK, SuspensionTypeOK
<1>4. Needed'
  BY <1>1 DEF ChInv, Needed
<1>5. Scheduled'
  BY <1>1, <1>2, <1>3, SuspensionAssumption DEF ChInv, TypeOK, SuspensionTypeOK, Scheduled
<1>6. \A u \in Task : Phase(u)'
  BY <1>1, <1>2 DEF ChInv, TypeOK, Phase
<1>7. \A u \in Task : pc[u] # "idle" => pc'[u] # "idle"
  BY <1>1 DEF ChInv, TypeOK
<1>8. Entries(wq)' /\ Entries(rq)'
  BY <1>1, <1>7, ElementOfSeq DEF ChInv, TypeOK, Entries
<1> QED
  BY <1>3, <1>4, <1>5, <1>6, <1>8 DEF ChInv

\* A task comes to a thread or leaves it between two calls.
LEMMA RunKeeps ==
  ASSUME ChInv, NEW p \in Proc, UserYield(p) \/ \E t \in Task : Running(p, t)
  PROVE  ChInv'
<1>1. UNCHANGED <<alive, parked, state, chanVars>>
  BY DEF UserYield, Running, Yield, Resume, Sched!Yield, Sched!Resume, Sched!Leave
<1>2. Needed' /\ Entries(wq)' /\ Entries(rq)' /\ \A u \in Task : Phase(u)'
  BY <1>1 DEF ChInv, Needed, Entries, Phase, chanVars
<1>3. CASE UserYield(p)
  <2>1. on' = [on EXCEPT ![p] = NoTask]
    BY <1>3 DEF UserYield, Yield, Sched!Yield, Sched!Leave
  <2>2. TypeOK' /\ Scheduled'
    BY <1>1, <2>1, SuspensionAssumption
       DEF ChInv, TypeOK, SuspensionTypeOK, Scheduled, chanVars
  <2> QED
    BY <1>2, <2>2 DEF ChInv
<1>4. ASSUME NEW t \in Task, Running(p, t)
      PROVE  ChInv'
  <2>1. on' = [on EXCEPT ![p] = t] /\ t \notin parked /\ \A q \in Proc : on[q] # t
    BY <1>4, SuspensionAssumption
       DEF Running, Resume, Sched!Resume, Sched!Ready, Sched!Executing
  <2>2. TypeOK' /\ Scheduled'
    BY <1>1, <2>1, SuspensionAssumption
       DEF ChInv, TypeOK, SuspensionTypeOK, Scheduled, chanVars
  <2> QED
    BY <1>2, <2>2 DEF ChInv
<1> QED
  BY <1>3, <1>4

\* An entry whose frame is gone is still in its queue, without its task.
LEMMA OrphanElements ==
  ASSUME NEW q \in Seq(Task \union {NoTask}), NEW t
  PROVE  /\ Orphan(q, t) \in Seq(Task \union {NoTask})
         /\ Len(Orphan(q, t)) = Len(q) /\ Len(q) \in Nat
         /\ Orphan(q, t) = <<>> <=> q = <<>>
         /\ \A i \in 1 .. Len(q) :
              /\ q[i] \in Task \union {NoTask}
              /\ Orphan(q, t)[i] = IF q[i] = t THEN NoTask ELSE q[i]
<1>1. Len(q) \in Nat /\ DOMAIN q = 1 .. Len(q)
  BY LenProperties
<1>2. \A i \in 1 .. Len(q) : q[i] \in Task \union {NoTask}
  BY ElementOfSeq
<1>3. Orphan(q, t) = [i \in 1 .. Len(q) |-> IF q[i] = t THEN NoTask ELSE q[i]]
  BY <1>1 DEF Orphan
<1>4. Orphan(q, t) \in Seq(Task \union {NoTask}) /\ Len(Orphan(q, t)) = Len(q)
  BY <1>1, <1>2, <1>3, SeqDef, LenProperties
<1> QED
  BY <1>1, <1>2, <1>3, <1>4, EmptySeq

\* The call returns: it was woken, so it is runnable, and no entry names it.
LEMMA ReturnKeeps ==
  ASSUME ChInv, NEW t \in Task, Return(t)
  PROVE  ChInv'
<1>1. /\ pc' = [pc EXCEPT ![t] = "idle"] /\ timer' = [timer EXCEPT ![t] = NoTask]
      /\ isTimeOut' = isTimeOut \ {t}
      /\ wq' = Orphan(wq, t) /\ rq' = Orphan(rq, t)
      /\ UNCHANGED <<alive, parked, on, state, capacity, closed, buf, slot, got,
                     success, wild>>
  BY DEF Return, suspensionVars
<1>2. t \notin parked /\ state[t] = "runnable"
  BY DEF Return, ChInv, TypeOK, SuspensionTypeOK, Scheduled, Phase, Sched!Executing
<1>3. \A q \in {wq, rq} :
         /\ Orphan(q, t) \in Seq(Task \union {NoTask})
         /\ Len(Orphan(q, t)) = Len(q) /\ Len(q) \in Nat
         /\ Orphan(q, t) = <<>> <=> q = <<>>
         /\ \A i \in 1 .. Len(q) :
              /\ q[i] \in Task \union {NoTask}
              /\ Orphan(q, t)[i] = IF q[i] = t THEN NoTask ELSE q[i]
  BY OrphanElements DEF ChInv, TypeOK
<1>4. TypeOK'
  BY <1>1, <1>3 DEF ChInv, TypeOK, SuspensionTypeOK
<1>5. Needed' /\ Scheduled'
  BY <1>1, <1>3 DEF ChInv, Needed, Scheduled
<1>6. \A u \in Task : Phase(u)'
  BY <1>1, <1>2 DEF ChInv, TypeOK, Phase
<1>7. Entries(wq)' /\ Entries(rq)'
  BY <1>1, <1>3 DEF ChInv, TypeOK, Entries
<1> QED
  BY <1>4, <1>5, <1>6, <1>7 DEF ChInv
-----------------------------------------------------------------------------
\* Every step keeps the invariant.
LEMMA NextChInv == ChInv /\ [Next]_vars => ChInv'
<1> SUFFICES ASSUME ChInv, [Next]_vars PROVE ChInv'
  OBVIOUS
<1>1. CASE UNCHANGED vars
  BY <1>1 DEF ChInv, TypeOK, SuspensionTypeOK, Scheduled, Needed, Phase, Entries,
              vars, suspensionVars, chanVars
<1>2. CASE Undefined
  BY <1>2, FailKeeps
<1>3. ASSUME ~ Undefined, NEW t \in Task, NEW timeout \in Timeouts, Pop(t, timeout)
      PROVE  ChInv'
  BY <1>3, PopWakesWriterKeeps, BufferKeeps, FailKeeps, BlockingKeeps
     DEF Pop, PopFails
<1>4. ASSUME ~ Undefined, NEW t \in Task, NEW timeout \in Timeouts, NEW v \in Value,
             Push(t, v, timeout)
      PROVE  ChInv'
  BY <1>4, PushHandsOverKeeps, BufferKeeps, FailKeeps, BlockingKeeps
     DEF Push, PushFails
<1> QED
  BY <1>1, <1>2, <1>3, <1>4, CloseKeeps, TimerFiresKeeps, ReturnKeeps, SwitchKeeps,
     RunKeeps DEF Next

\* The invariant holds.
LEMMA ChannelInvariant == Spec => []ChInv
  BY InitChInv, NextChInv, PTL DEF Spec

\* For every set of coroutines, threads and values and every capacity: who is in
\* wq_ or rq_ and has not timed out is suspended and can be handed its result,
\* and nobody waits for what is there (fast_channel_impl.h:69, 83 and 121).
THEOREM WaitersNotifiable == Spec => []EntriesWait
<1>1. ChInv => EntriesWait
  <2> SUFFICES ASSUME ChInv,
                      NEW t \in Range(wq \o rq) \ (isTimeOut \union {NoTask})
               PROVE  Notifiable(t)
    BY DEF ChInv, EntriesWait, Needed
  <2>1. \/ \E i \in 1 .. Len(wq) : wq[i] = t
        \/ \E i \in 1 .. Len(rq) : rq[i] = t
    BY InBoth DEF ChInv, TypeOK
  <2> QED
    BY <2>1 DEF ChInv, Entries, Notifiable, MayWake
<1> QED
  BY <1>1, ChannelInvariant, PTL

\* A call whose success_ is decided is not left suspended, wherever between
\* lock.unlock() and StaticCoYield the notification came.
THEOREM AnsweredReturns == Spec => []AnsweredIsReady
<1>1. ChInv => AnsweredIsReady
  BY DEF ChInv, Phase, AnsweredIsReady
<1> QED
  BY <1>1, ChannelInvariant, PTL
-----------------------------------------------------------------------------
\* ImplementsChannel.  What Keep keeps of a queue.

\* What the function of Keep says of its values up to n.
KeepsTo(k, q, S, n) ==
    /\ k[0] = <<>>
    /\ \A i \in 1 .. n :
          k[i] = IF q[i] \in S THEN Append(k[i - 1], q[i]) ELSE k[i - 1]

\* There is such a function.
LEMMA KeepExists ==
  ASSUME NEW T, NEW q \in Seq(T), NEW S, NEW n \in Nat, n <= Len(q)
  PROVE  \E k \in [0 .. n -> Seq(T)] : KeepsTo(k, q, S, n)
<1> DEFINE Good == {m \in Nat : m <= Len(q) =>
                      \E k \in [0 .. m -> Seq(T)] : KeepsTo(k, q, S, m)}
<1>1. Len(q) \in Nat /\ \A i \in 1 .. Len(q) : q[i] \in T
  BY LenProperties, ElementOfSeq
<1>2. 0 \in Good
  <2> DEFINE k == [i \in 0 .. 0 |-> <<>>]
  <2>1. k \in [0 .. 0 -> Seq(T)] /\ KeepsTo(k, q, S, 0)
    BY EmptySeq DEF KeepsTo
  <2> QED
    BY <2>1
<1>3. ASSUME NEW m \in Nat, m \in Good PROVE m + 1 \in Good
  <2> SUFFICES ASSUME m + 1 <= Len(q)
               PROVE  \E k \in [0 .. m + 1 -> Seq(T)] : KeepsTo(k, q, S, m + 1)
    OBVIOUS
  <2>1. PICK k \in [0 .. m -> Seq(T)] : KeepsTo(k, q, S, m)
    BY <1>1, <1>3
  <2> DEFINE last == IF q[m + 1] \in S THEN Append(k[m], q[m + 1]) ELSE k[m]
             l == [i \in 0 .. m + 1 |-> IF i <= m THEN k[i] ELSE last]
  <2>2. q[m + 1] \in T /\ k[m] \in Seq(T)
    BY <1>1, <2>1
  <2>3. last \in Seq(T)
    BY <2>2, AppendProperties
  <2> HIDE DEF last
  <2>4. l \in [0 .. m + 1 -> Seq(T)]
    BY <2>1, <2>3
  <2>5. l[m + 1] = last /\ \A i \in 0 .. m : l[i] = k[i]
    OBVIOUS
  <2> HIDE DEF l
  <2>6. ASSUME NEW i \in 1 .. m + 1
        PROVE  l[i] = IF q[i] \in S THEN Append(l[i - 1], q[i]) ELSE l[i - 1]
    <3>1. CASE i <= m
      <4>1. i \in 1 .. m /\ l[i] = k[i] /\ l[i - 1] = k[i - 1]
        BY <2>5, <3>1
      <4> QED
        BY <2>1, <4>1 DEF KeepsTo
    <3>2. CASE i = m + 1
      <4>1. i - 1 = m /\ l[i - 1] = k[m]
        BY <2>5, <3>2
      <4> QED
        BY <2>5, <3>2, <4>1 DEF last
    <3> QED
      BY <3>1, <3>2
  <2>7. KeepsTo(l, q, S, m + 1)
    BY <2>1, <2>5, <2>6 DEF KeepsTo
  <2> QED
    BY <2>4, <2>7
<1>4. Nat \subseteq Good
  <2> HIDE DEF Good
  <2> QED
    BY <1>2, <1>3, SetInduction
<1> QED
  BY <1>4

\* Keep is the last value of one.
LEMMA KeepIs ==
  ASSUME NEW T, NEW q \in Seq(T), NEW S
  PROVE  \E k : KeepsTo(k, q, S, Len(q)) /\ Keep(q, S) = k[Len(q)]
<1> DEFINE N == Len(q)
           Body(k) == [i \in 0 .. N |->
                     IF i = 0 THEN <<>>
                     ELSE IF q[i] \in S THEN Append(k[i - 1], q[i]) ELSE k[i - 1]]
           c == CHOOSE k : k = Body(k)
<1>1. N \in Nat /\ N <= N
  BY LenProperties
<1>2. PICK k \in [0 .. N -> Seq(T)] : KeepsTo(k, q, S, N)
  BY <1>1, KeepExists
<1>3. k = Body(k)
  <2>1. k = [i \in 0 .. N |-> k[i]]
    BY <1>2
  <2>2. ASSUME NEW i \in 0 .. N
        PROVE  k[i] = IF i = 0 THEN <<>>
                      ELSE IF q[i] \in S THEN Append(k[i - 1], q[i]) ELSE k[i - 1]
    <3>1. CASE i = 0
      BY <1>2, <3>1 DEF KeepsTo
    <3>2. CASE i # 0
      <4>1. i \in 1 .. N
        BY <3>2
      <4> QED
        BY <1>2, <3>2, <4>1 DEF KeepsTo
    <3> QED
      BY <3>1, <3>2
  <2> QED
    BY <2>1, <2>2
<1>4. c = Body(c)
  BY <1>3
<1>5. Keep(q, S) = c[N]
  BY DEF Keep
<1>6. KeepsTo(c, q, S, N)
  <2> HIDE DEF c
  <2>1. \A i \in 0 .. N : c[i] = Body(c)[i]
    BY <1>4
  <2> QED
    BY <1>1, <2>1 DEF KeepsTo
<1> QED
  BY <1>5, <1>6

\* Keep, an element at a time.
LEMMA KeepAppend ==
  ASSUME NEW T, NEW q \in Seq(T), NEW e \in T, NEW S
  PROVE  /\ Keep(<<>>, S) = <<>>
         /\ Keep(Append(q, e), S) = IF e \in S THEN Append(Keep(q, S), e) ELSE Keep(q, S)
<1> DEFINE N == Len(q)  r == Append(q, e)
<1>1. Keep(<<>>, S) = <<>>
  <2>1. <<>> \in Seq(T) /\ Len(<<>>) = 0
    BY EmptySeq
  <2>2. PICK k : KeepsTo(k, <<>>, S, Len(<<>>)) /\ Keep(<<>>, S) = k[Len(<<>>)]
    BY <2>1, KeepIs
  <2> QED
    BY <2>1, <2>2 DEF KeepsTo
<1>2. /\ N \in Nat /\ r \in Seq(T) /\ Len(r) = N + 1 /\ r[N + 1] = e
      /\ \A i \in 1 .. N : r[i] = q[i]
  BY LenProperties, AppendProperties
<1>3. PICK c : KeepsTo(c, q, S, N) /\ Keep(q, S) = c[N]
  BY KeepIs
<1>4. PICK k : KeepsTo(k, r, S, N + 1) /\ Keep(r, S) = k[N + 1]
  BY <1>2, KeepIs
<1> HIDE DEF r
<1> DEFINE Good == {n \in Nat : n <= N => k[n] = c[n]}
<1>5. 0 \in Good
  BY <1>3, <1>4 DEF KeepsTo
<1>6. ASSUME NEW n \in Nat, n \in Good PROVE n + 1 \in Good
  <2> SUFFICES ASSUME n + 1 <= N PROVE k[n + 1] = c[n + 1]
    OBVIOUS
  <2>1. n + 1 \in 1 .. N /\ n + 1 \in 1 .. N + 1 /\ (n + 1) - 1 = n /\ n <= N
    BY <1>2
  <2>2. k[n] = c[n]
    BY <1>6, <2>1
  <2>3. /\ k[n + 1] = IF r[n + 1] \in S THEN Append(k[n], r[n + 1]) ELSE k[n]
        /\ c[n + 1] = IF q[n + 1] \in S THEN Append(c[n], q[n + 1]) ELSE c[n]
    BY <1>3, <1>4, <2>1 DEF KeepsTo
  <2> QED
    BY <1>2, <2>1, <2>2, <2>3
<1>7. Nat \subseteq Good
  <2> HIDE DEF Good
  <2> QED
    BY <1>5, <1>6, SetInduction
<1>8. k[N] = c[N]
  BY <1>2, <1>7
<1>9. k[N + 1] = IF e \in S THEN Append(k[N], e) ELSE k[N]
  <2>1. N + 1 \in 1 .. N + 1 /\ (N + 1) - 1 = N
    BY <1>2
  <2> QED
    BY <1>2, <1>4, <2>1 DEF KeepsTo
<1> QED
  BY <1>1, <1>3, <1>4, <1>8, <1>9 DEF r

\* What is kept.
LEMMA KeepType ==
  ASSUME NEW T, NEW q \in Seq(T), NEW S
  PROVE  Keep(q, S) \in Seq(T \cap S)
<1> DEFINE P == {r \in Seq(T) : Keep(r, S) \in Seq(T \cap S)}
<1>1. <<>> \in P
  <2>1. <<>> \in Seq(T) /\ <<>> \in Seq(T \cap S)
    BY EmptySeq
  <2>2. Keep(<<>>, S) = <<>>
    <3>1. <<>> \in Seq({0}) /\ 0 \in {0}
      BY EmptySeq
    <3> QED
      BY <3>1, KeepAppend
  <2> QED
    BY <2>1, <2>2
<1>2. ASSUME NEW r \in Seq(T), NEW e \in T, r \in P PROVE Append(r, e) \in P
  <2>1. Append(r, e) \in Seq(T)
    BY AppendProperties
  <2>2. Keep(Append(r, e), S) = IF e \in S THEN Append(Keep(r, S), e) ELSE Keep(r, S)
    BY KeepAppend
  <2>3. Keep(r, S) \in Seq(T \cap S)
    BY <1>2
  <2>4. e \in S => Append(Keep(r, S), e) \in Seq(T \cap S)
    <3> HAVE e \in S
    <3>1. e \in T \cap S
      OBVIOUS
    <3> QED
      BY <2>3, <3>1, AppendProperties
  <2> QED
    BY <2>1, <2>2, <2>3, <2>4
<1>3. Seq(T) \subseteq P
  <2> HIDE DEF P
  <2> QED
    BY <1>1, <1>2, SeqInduction
<1> QED
  BY <1>3

\* Two sequences that differ where neither has an element to keep.
LEMMA KeepSame ==
  ASSUME NEW T, NEW q \in Seq(T), NEW r \in Seq(T), Len(r) = Len(q), NEW S, NEW R,
         \A i \in 1 .. Len(q) :
            IF q[i] \in S THEN r[i] \in R /\ r[i] = q[i] ELSE r[i] \notin R
  PROVE  Keep(r, R) = Keep(q, S)
<1> DEFINE N == Len(q)
<1>1. N \in Nat
  BY LenProperties
<1>2. PICK c : KeepsTo(c, q, S, N) /\ Keep(q, S) = c[N]
  BY KeepIs
<1>3. PICK k : KeepsTo(k, r, R, N) /\ Keep(r, R) = k[N]
  BY KeepIs
<1> DEFINE Good == {n \in Nat : n <= N => k[n] = c[n]}
<1>4. 0 \in Good
  BY <1>2, <1>3 DEF KeepsTo
<1>5. ASSUME NEW n \in Nat, n \in Good PROVE n + 1 \in Good
  <2> SUFFICES ASSUME n + 1 <= N PROVE k[n + 1] = c[n + 1]
    OBVIOUS
  <2>1. n + 1 \in 1 .. N /\ (n + 1) - 1 = n /\ n <= N
    BY <1>1
  <2>2. k[n] = c[n]
    BY <1>5, <2>1
  <2>3. /\ k[n + 1] = IF r[n + 1] \in R THEN Append(k[n], r[n + 1]) ELSE k[n]
        /\ c[n + 1] = IF q[n + 1] \in S THEN Append(c[n], q[n + 1]) ELSE c[n]
    BY <1>2, <1>3, <2>1 DEF KeepsTo
  <2> QED
    BY <2>1, <2>2, <2>3
<1>6. Nat \subseteq Good
  <2> HIDE DEF Good
  <2> QED
    BY <1>4, <1>5, SetInduction
<1> QED
  BY <1>1, <1>2, <1>3, <1>6

\* Two sets that agree on what is in a sequence.
LEMMA KeepOnly ==
  ASSUME NEW T, NEW q \in Seq(T), NEW S, NEW R,
         \A i \in 1 .. Len(q) : q[i] \in S <=> q[i] \in R
  PROVE  Keep(q, R) = Keep(q, S)
<1>1. ASSUME NEW r \in Seq(T), r = q PROVE Keep(r, R) = Keep(q, S)
  BY <1>1, KeepSame
<1> QED
  BY <1>1

\* All of a sequence is kept.
LEMMA KeepAll ==
  ASSUME NEW T, NEW q \in Seq(T), NEW S, \A i \in 1 .. Len(q) : q[i] \in S
  PROVE  Keep(q, S) = q
<1> DEFINE P == {r \in Seq(T) : Keep(r, T) = r}
<1>1. <<>> \in P
  <2>1. <<>> \in Seq(T) /\ <<>> \in Seq({0}) /\ 0 \in {0}
    BY EmptySeq
  <2> QED
    BY <2>1, KeepAppend
<1>2. ASSUME NEW r \in Seq(T), NEW e \in T, r \in P PROVE Append(r, e) \in P
  BY <1>2, KeepAppend, AppendProperties
<1>3. Seq(T) \subseteq P
  <2> HIDE DEF P
  <2> QED
    BY <1>1, <1>2, SeqInduction
<1>4. Keep(q, T) = q
  BY <1>3
<1>5. Keep(q, S) = Keep(q, T)
  <2>1. \A i \in 1 .. Len(q) : q[i] \in T
    BY ElementOfSeq
  <2> QED
    BY <2>1, KeepOnly
<1> QED
  BY <1>4, <1>5

\* The first of a list, when it is kept.
LEMMA KeepFirst ==
  ASSUME NEW T, NEW q \in Seq(T), NEW S, q # <<>>, Head(q) \in S
  PROVE  /\ Keep(q, S) # <<>> /\ Head(Keep(q, S)) = Head(q)
         /\ Tail(Keep(q, S)) = Keep(Tail(q), S)
<1> DEFINE First(r) == /\ Keep(r, S) # <<>> /\ Head(Keep(r, S)) = Head(r)
                       /\ Tail(Keep(r, S)) = Keep(Tail(r), S)
           P == {r \in Seq(T) : r # <<>> /\ Head(r) \in S => First(r)}
<1>0. Keep(<<>>, S) = <<>> /\ <<>> \in Seq(T)
  <2>1. <<>> \in Seq(T) /\ <<>> \in Seq({0}) /\ 0 \in {0}
    BY EmptySeq
  <2> QED
    BY <2>1, KeepAppend
<1>1. <<>> \in P
  BY <1>0
<1>2. ASSUME NEW r \in Seq(T), NEW e \in T, r \in P PROVE Append(r, e) \in P
  <2> DEFINE a == Append(r, e)
  <2>1. a \in Seq(T)
    BY AppendProperties
  <2>2. Keep(a, S) = IF e \in S THEN Append(Keep(r, S), e) ELSE Keep(r, S)
    BY KeepAppend
  <2>3. /\ r = <<>> => Tail(a) = <<>> /\ Head(a) = e
        /\ r # <<>> => Tail(a) = Append(Tail(r), e) /\ Head(a) = Head(r)
    BY HeadTailAppend
  <2> HIDE DEF a
  <2> SUFFICES ASSUME Head(a) \in S PROVE First(a)
    BY <2>1 DEF a
  <2>4. CASE r = <<>>
    <3>1. e \in S /\ Keep(a, S) = Append(<<>>, e)
      BY <1>0, <2>2, <2>3, <2>4
    <3>2. Append(<<>>, e) # <<>> /\ Head(Append(<<>>, e)) = e /\ Tail(Append(<<>>, e)) = <<>>
      BY <1>0, AppendProperties, HeadTailAppend, EmptySeq
    <3> QED
      BY <1>0, <2>3, <2>4, <3>1, <3>2
  <2>5. CASE r # <<>>
    <3>1. First(r)
      BY <1>2, <2>3, <2>5
    <3>2. Keep(r, S) \in Seq(T)
      <4>1. Keep(r, S) \in Seq(T \cap S) /\ T \cap S \subseteq T
        BY KeepType
      <4> QED
        BY <4>1, SeqMonotonic
    <3>3. Tail(r) \in Seq(T)
      BY <2>5, HeadTailProperties
    <3>4. Keep(Append(Tail(r), e), S) =
            IF e \in S THEN Append(Keep(Tail(r), S), e) ELSE Keep(Tail(r), S)
      BY <3>3, KeepAppend
    <3>5. CASE e \in S
      <4>1. /\ Append(Keep(r, S), e) # <<>>
            /\ Tail(Append(Keep(r, S), e)) = Append(Tail(Keep(r, S)), e)
            /\ Head(Append(Keep(r, S), e)) = Head(Keep(r, S))
        BY <3>1, <3>2, HeadTailAppend, AppendProperties, EmptySeq
      <4> QED
        BY <2>2, <2>3, <2>5, <3>1, <3>4, <3>5, <4>1
    <3>6. CASE e \notin S
      BY <2>2, <2>3, <2>5, <3>1, <3>4, <3>6
    <3> QED
      BY <3>5, <3>6
  <2> QED
    BY <2>4, <2>5
<1>3. Seq(T) \subseteq P
  <2> HIDE DEF P
  <2> QED
    BY <1>1, <1>2, SeqInduction
<1> QED
  BY <1>3

\* Whoever is no longer to be kept leaves the list; the others stay in order.
LEMMA KeepRemove ==
  ASSUME NEW T, NEW q \in Seq(T), NEW S, NEW t \in S, NEW m \in 1 .. Len(q), q[m] = t,
         \A i, j \in 1 .. Len(q) : q[i] = t /\ q[j] = t => i = j
  PROVE  \E k \in 1 .. Len(Keep(q, S)) :
           /\ Keep(q, S)[k] = t
           /\ Keep(q, S \ {t}) = RemoveAt(Keep(q, S), k)
<1> DEFINE Once(r) == /\ \A i, j \in 1 .. Len(r) : r[i] = t /\ r[j] = t => i = j
                      /\ \E i \in 1 .. Len(r) : r[i] = t
           Out(r) == \E k \in 1 .. Len(Keep(r, S)) :
                       /\ Keep(r, S)[k] = t
                       /\ Keep(r, S \ {t}) = RemoveAt(Keep(r, S), k)
           P == {r \in Seq(T) : Once(r) => Out(r)}
<1>1. <<>> \in P
  <2>1. <<>> \in Seq(T) /\ Len(<<>>) = 0
    BY EmptySeq
  <2> QED
    BY <2>1
<1>2. ASSUME NEW r \in Seq(T), NEW e \in T, r \in P PROVE Append(r, e) \in P
  <2> DEFINE a == Append(r, e)  K == Keep(r, S)
  <2>1. /\ a \in Seq(T) /\ Len(a) = Len(r) + 1 /\ Len(r) \in Nat
        /\ \A i \in 1 .. Len(r) : a[i] = r[i]
        /\ a[Len(r) + 1] = e
    BY AppendProperties, LenProperties
  <2>2. /\ Keep(a, S) = IF e \in S THEN Append(K, e) ELSE K
        /\ Keep(a, S \ {t}) = IF e \in S \ {t} THEN Append(Keep(r, S \ {t}), e)
                              ELSE Keep(r, S \ {t})
    BY KeepAppend
  <2>3. K \in Seq(T)
    <3>1. Keep(r, S) \in Seq(T \cap S) /\ T \cap S \subseteq T
      BY KeepType
    <3> QED
      BY <3>1, SeqMonotonic
  <2>4. /\ Append(K, e) \in Seq(T) /\ Len(Append(K, e)) = Len(K) + 1 /\ Len(K) \in Nat
        /\ \A i \in 1 .. Len(K) : Append(K, e)[i] = K[i]
        /\ Append(K, e)[Len(K) + 1] = e
    BY <2>3, AppendProperties, LenProperties
  <2> HIDE DEF a, K
  <2> SUFFICES ASSUME Once(a) PROVE Out(a)
    BY <2>1 DEF a
  <2>5. CASE e = t
    <3>1. \A i \in 1 .. Len(r) : r[i] # t
      <4> SUFFICES ASSUME NEW i \in 1 .. Len(r), r[i] = t PROVE FALSE
        OBVIOUS
      <4>1. i \in 1 .. Len(a) /\ Len(r) + 1 \in 1 .. Len(a) /\ i # Len(r) + 1
        BY <2>1
      <4> QED
        BY <2>1, <2>5, <4>1
    <3>2. Keep(r, S \ {t}) = K
      <4>1. \A i \in 1 .. Len(r) : r[i] \in S <=> r[i] \in S \ {t}
        BY <3>1
      <4> QED
        BY <4>1, KeepOnly DEF K
    <3>3. Keep(a, S) = Append(K, e) /\ Keep(a, S \ {t}) = K
      BY <2>2, <2>5, <3>2
    <3>4. /\ RemoveAt(Append(K, e), Len(K) + 1) \in Seq(T)
          /\ Len(RemoveAt(Append(K, e), Len(K) + 1)) = Len(K)
          /\ \A j \in 1 .. Len(K) : RemoveAt(Append(K, e), Len(K) + 1)[j] = K[j]
      <4> DEFINE p == Append(K, e)  n == Len(K) + 1
      <4>1. p \in Seq(T) /\ n \in 1 .. Len(p) /\ Len(p) - 1 = Len(K)
        BY <2>4
      <4> HIDE DEF p, n
      <4>2. /\ RemoveAt(p, n) \in Seq(T) /\ Len(RemoveAt(p, n)) = Len(K)
            /\ \A j \in 1 .. Len(K) : RemoveAt(p, n)[j] = IF j < n THEN p[j] ELSE p[j + 1]
        BY <4>1, RemoveAtElements
      <4> QED
        BY <2>4, <4>2 DEF p, n
    <3>5. RemoveAt(Append(K, e), Len(K) + 1) = K
      BY <2>3, <3>4, SeqEqual
    <3>6. Len(K) + 1 \in 1 .. Len(Append(K, e))
      BY <2>4
    <3> QED
      BY <2>4, <2>5, <3>3, <3>5, <3>6
  <2>6. CASE e # t
    <3>1. Once(r)
      <4>1. \A i, j \in 1 .. Len(r) : r[i] = t /\ r[j] = t => i = j
        <5>1. \A i \in 1 .. Len(r) : i \in 1 .. Len(a) /\ a[i] = r[i]
          BY <2>1
        <5> QED
          BY <5>1
      <4>2. PICK i \in 1 .. Len(a) : a[i] = t
        OBVIOUS
      <4>3. i \in 1 .. Len(r) /\ r[i] = t
        BY <2>1, <2>6, <4>2
      <4> QED
        BY <4>1, <4>3
    <3>2. PICK k \in 1 .. Len(K) : K[k] = t /\ Keep(r, S \ {t}) = RemoveAt(K, k)
      BY <1>2, <3>1 DEF K
    <3>3. CASE e \notin S
      BY <2>2, <3>2, <3>3
    <3>4. CASE e \in S
      <4> DEFINE p == Append(K, e)
      <4>1. /\ RemoveAt(K, k) \in Seq(T) /\ Len(RemoveAt(K, k)) = Len(K) - 1
            /\ \A j \in 1 .. Len(K) - 1 :
                 RemoveAt(K, k)[j] = IF j < k THEN K[j] ELSE K[j + 1]
        BY <2>3, RemoveAtElements
      <4>2. k \in 1 .. Len(p) /\ p[k] = t /\ Len(p) - 1 = Len(K) /\ p \in Seq(T)
        BY <2>4, <3>2
      <4>3. /\ RemoveAt(p, k) \in Seq(T) /\ Len(RemoveAt(p, k)) = Len(K)
            /\ \A j \in 1 .. Len(K) :
                 RemoveAt(p, k)[j] = IF j < k THEN p[j] ELSE p[j + 1]
        <5> HIDE DEF p
        <5> QED
          <6>1. k \in 1 .. Len(p) /\ p \in Seq(T)
            BY <4>2
          <6>2. /\ RemoveAt(p, k) \in Seq(T) /\ Len(RemoveAt(p, k)) = Len(p) - 1
                /\ \A j \in 1 .. Len(p) - 1 :
                     RemoveAt(p, k)[j] = IF j < k THEN p[j] ELSE p[j + 1]
            BY <6>1, RemoveAtElements
          <6> QED
            BY <4>2, <6>2
      <4> DEFINE f == RemoveAt(K, k)  g == RemoveAt(p, k)  h == Append(f, e)
      <4> HIDE DEF f, g
      <4>4. /\ h \in Seq(T) /\ Len(h) = Len(K)
            /\ \A j \in 1 .. Len(K) - 1 : h[j] = f[j]
            /\ h[Len(K)] = e
        <5>1. Len(f) + 1 = Len(K) /\ f \in Seq(T)
          BY <2>4, <4>1 DEF f
        <5> QED
          BY <4>1, <5>1, AppendProperties DEF f
      <4> HIDE DEF h
      <4>5. ASSUME NEW j \in 1 .. Len(K) PROVE h[j] = g[j]
        <5>1. CASE j = Len(K)
          <6>1. ~ (j < k) /\ p[j + 1] = e
            BY <2>4, <5>1
          <6> QED
            BY <4>3, <4>4, <5>1, <6>1 DEF g
        <5>2. CASE j # Len(K)
          <6>1. j \in 1 .. Len(K) - 1 /\ j + 1 \in 1 .. Len(K)
            BY <2>4, <5>2
          <6> QED
            BY <2>4, <4>1, <4>3, <4>4, <6>1 DEF f, g
        <5> QED
          BY <5>1, <5>2
      <4>6. h = g
        BY <4>3, <4>4, <4>5, SeqEqual DEF g
      <4> QED
        BY <2>2, <2>6, <3>2, <3>4, <4>2, <4>6 DEF f, g, h
    <3> QED
      BY <3>3, <3>4
  <2> QED
    BY <2>5, <2>6
<1>3. Seq(T) \subseteq P
  <2> HIDE DEF P
  <2> QED
    BY <1>1, <1>2, SeqInduction
<1> QED
  BY <1>3
-----------------------------------------------------------------------------
\* The values of some entries.
LEMMA PushedElements ==
  ASSUME NEW q \in Seq(Task), NEW values \in [Task -> Value]
  PROVE  /\ Pushed(q, values) \in Seq(Value) /\ Len(Pushed(q, values)) = Len(q)
         /\ Len(q) \in Nat
         /\ \A i \in 1 .. Len(q) : Pushed(q, values)[i] = values[q[i]] /\ q[i] \in Task
         /\ Pushed(<<>>, values) = <<>>
<1>1. Len(q) \in Nat /\ DOMAIN q = 1 .. Len(q) /\ \A i \in 1 .. Len(q) : q[i] \in Task
  BY LenProperties, ElementOfSeq
<1>2. Pushed(q, values) = [i \in 1 .. Len(q) |-> values[q[i]]]
  BY <1>1 DEF Pushed
<1>3. Pushed(q, values) \in [1 .. Len(q) -> Value]
  BY <1>1, <1>2
<1>4. Pushed(q, values) \in Seq(Value) /\ Len(Pushed(q, values)) = Len(q)
  BY <1>1, <1>3, SeqDef, LenProperties
<1>5. Pushed(<<>>, values) = <<>>
  <2>1. <<>> \in Seq({}) /\ Len(<<>>) = 0 /\ DOMAIN <<>> = {}
    OBVIOUS
  <2> QED
    BY <2>1 DEF Pushed
<1> QED
  BY <1>1, <1>2, <1>4, <1>5

\* They join, leave and are taken out with the entries.
LEMMA PushedAppend ==
  ASSUME NEW q \in Seq(Task), NEW values \in [Task -> Value], NEW t \in Task, NEW v \in Value,
         \A i \in 1 .. Len(q) : q[i] # t
  PROVE  Pushed(Append(q, t), [values EXCEPT ![t] = v]) = Append(Pushed(q, values), v)
<1> DEFINE a == Append(q, t)  w == [values EXCEPT ![t] = v]  b == Pushed(q, values)
<1>1. /\ a \in Seq(Task) /\ Len(a) = Len(q) + 1 /\ a[Len(q) + 1] = t
      /\ \A i \in 1 .. Len(q) : a[i] = q[i]
  BY AppendProperties
<1>2. w \in [Task -> Value] /\ w[t] = v /\ \A u \in Task : u # t => w[u] = values[u]
  OBVIOUS
<1>3. /\ b \in Seq(Value) /\ Len(b) = Len(q) /\ Len(q) \in Nat
      /\ \A i \in 1 .. Len(q) : b[i] = values[q[i]] /\ q[i] \in Task
  BY PushedElements
<1> HIDE DEF a, w, b
<1>4. /\ Pushed(a, w) \in Seq(Value) /\ Len(Pushed(a, w)) = Len(a)
      /\ \A i \in 1 .. Len(a) : Pushed(a, w)[i] = w[a[i]]
  BY <1>1, <1>2, PushedElements
<1>5. /\ Append(b, v) \in Seq(Value) /\ Len(Append(b, v)) = Len(b) + 1
      /\ \A i \in 1 .. Len(b) : Append(b, v)[i] = b[i]
      /\ Append(b, v)[Len(b) + 1] = v
  BY <1>3, AppendProperties
<1>6. ASSUME NEW i \in 1 .. Len(a) PROVE Pushed(a, w)[i] = Append(b, v)[i]
  <2>1. CASE i = Len(q) + 1
    BY <1>1, <1>2, <1>3, <1>4, <1>5, <2>1
  <2>2. CASE i # Len(q) + 1
    <3>1. i \in 1 .. Len(q)
      BY <1>1, <1>3, <2>2
    <3> QED
      BY <1>1, <1>2, <1>3, <1>4, <1>5, <3>1
  <2> QED
    BY <2>1, <2>2
<1>7. Len(Pushed(a, w)) = Len(Append(b, v))
  BY <1>1, <1>3, <1>4, <1>5
<1>8. Pushed(a, w) = Append(b, v)
  BY <1>4, <1>5, <1>6, <1>7, SeqEqual
<1> QED
  BY <1>8 DEF a, w, b

\* The first of them is the first entry's.
LEMMA PushedFirst ==
  ASSUME NEW q \in Seq(Task), NEW values \in [Task -> Value], q # <<>>
  PROVE  /\ Pushed(q, values) # <<>> /\ Head(Pushed(q, values)) = values[Head(q)]
         /\ Tail(Pushed(q, values)) = Pushed(Tail(q), values)
<1> DEFINE b == Pushed(q, values)  c == Pushed(Tail(q), values)
<1>1. /\ Tail(q) \in Seq(Task) /\ Len(Tail(q)) = Len(q) - 1 /\ Len(q) \in Nat \ {0}
      /\ Head(q) = q[1]
      /\ \A i \in 1 .. Len(q) - 1 : Tail(q)[i] = q[i + 1]
  BY HeadTailProperties, EmptySeq
<1>2. /\ b \in Seq(Value) /\ Len(b) = Len(q)
      /\ \A i \in 1 .. Len(q) : b[i] = values[q[i]]
  BY PushedElements
<1>3. /\ c \in Seq(Value) /\ Len(c) = Len(Tail(q))
      /\ \A i \in 1 .. Len(Tail(q)) : c[i] = values[Tail(q)[i]]
  BY <1>1, PushedElements
<1> HIDE DEF b, c
<1>4. b # <<>>
  BY <1>1, <1>2, EmptySeq
<1>5. /\ Tail(b) \in Seq(Value) /\ Len(Tail(b)) = Len(q) - 1 /\ Head(b) = b[1]
      /\ \A i \in 1 .. Len(q) - 1 : Tail(b)[i] = b[i + 1]
  BY <1>2, <1>4, HeadTailProperties
<1>6. ASSUME NEW i \in 1 .. Len(q) - 1 PROVE Tail(b)[i] = c[i]
  <2>1. i + 1 \in 1 .. Len(q)
    BY <1>1
  <2> QED
    BY <1>1, <1>2, <1>3, <1>5, <2>1
<1>7. Tail(b) = c
  BY <1>1, <1>3, <1>5, <1>6, SeqEqual
<1>8. Head(b) = values[Head(q)]
  <2>1. 1 \in 1 .. Len(q)
    BY <1>1
  <2> QED
    BY <1>1, <1>2, <1>5, <2>1
<1> QED
  BY <1>4, <1>7, <1>8 DEF b, c

\* In a buffer and the waiting values behind it, the one at i leaves.
LEMMA RemoveBehind ==
  ASSUME NEW p \in Seq(Value), NEW q \in Seq(Task), NEW values \in [Task -> Value],
         NEW i \in 1 .. Len(q)
  PROVE  RemoveAt(p \o Pushed(q, values), Len(p) + i) = p \o Pushed(RemoveAt(q, i), values)
<1> DEFINE n == Len(p)  m == Len(q)  b == Pushed(q, values)  d == RemoveAt(q, i)
           c == Pushed(d, values)  s == p \o b  r == RemoveAt(s, n + i)  e == p \o c
<1>1. n \in Nat /\ m \in Nat /\ i \in Nat /\ 1 <= i /\ i <= m
  BY LenProperties
<1>2. b \in Seq(Value) /\ Len(b) = m /\ \A j \in 1 .. m : b[j] = values[q[j]]
  BY PushedElements
<1>3. /\ d \in Seq(Task) /\ Len(d) = m - 1
      /\ \A j \in 1 .. m - 1 : d[j] = IF j < i THEN q[j] ELSE q[j + 1]
  BY RemoveAtElements
<1> HIDE DEF b, d
<1>4. c \in Seq(Value) /\ Len(c) = m - 1 /\ \A j \in 1 .. m - 1 : c[j] = values[d[j]]
  <2>1. d \in Seq(Task) /\ Len(d) = m - 1
    BY <1>3
  <2>2. c \in Seq(Value) /\ Len(c) = Len(d) /\ \A j \in 1 .. Len(d) : c[j] = values[d[j]]
    BY <2>1, PushedElements
  <2> QED
    BY <2>1, <2>2
<1> HIDE DEF n, m, c
<1>5. /\ s \in Seq(Value) /\ Len(s) = n + m
      /\ \A j \in 1 .. n + m : s[j] = IF j <= n THEN p[j] ELSE b[j - n]
  BY <1>2, ConcatProperties DEF n
<1>6. /\ e \in Seq(Value) /\ Len(e) = n + (m - 1)
      /\ \A j \in 1 .. n + (m - 1) : e[j] = IF j <= n THEN p[j] ELSE c[j - n]
  <2> DEFINE k == m - 1
  <2>1. Len(c) = k /\ Len(p) = n
    BY <1>4 DEF n
  <2> HIDE DEF k
  <2>2. /\ e \in Seq(Value) /\ Len(e) = n + k
        /\ \A j \in 1 .. n + k : e[j] = IF j <= n THEN p[j] ELSE c[j - n]
    BY <1>4, <2>1, ConcatProperties
  <2> QED
    BY <2>2 DEF k
<1> HIDE DEF s, e
<1>7. /\ r \in Seq(Value) /\ Len(r) = Len(s) - 1
      /\ \A j \in 1 .. Len(s) - 1 : r[j] = IF j < n + i THEN s[j] ELSE s[j + 1]
  <2> DEFINE k == n + i
  <2>1. k \in 1 .. Len(s)
    BY <1>1, <1>5
  <2> HIDE DEF k
  <2>2. /\ RemoveAt(s, k) \in Seq(Value) /\ Len(RemoveAt(s, k)) = Len(s) - 1
        /\ \A j \in 1 .. Len(s) - 1 :
             RemoveAt(s, k)[j] = IF j < k THEN s[j] ELSE s[j + 1]
    BY <1>5, <2>1, RemoveAtElements
  <2> QED
    BY <2>2 DEF k
<1> HIDE DEF r
<1>8. Len(r) = Len(e) /\ Len(e) = n + m - 1
  BY <1>1, <1>5, <1>6, <1>7
<1>9. ASSUME NEW j \in 1 .. n + m - 1 PROVE r[j] = e[j]
  <2>0. /\ j \in 1 .. Len(s) - 1 /\ j \in 1 .. n + m /\ j + 1 \in 1 .. n + m
        /\ j \in 1 .. n + (m - 1)
    BY <1>1, <1>5
  <2>1. CASE j <= n
    <3>1. j < n + i
      BY <1>1, <2>1
    <3>2. r[j] = s[j] /\ s[j] = p[j] /\ e[j] = p[j]
      BY <1>5, <1>6, <1>7, <2>0, <2>1, <3>1
    <3> QED
      BY <3>2
  <2>2. CASE n < j /\ j < n + i
    <3>1. j - n \in 1 .. m /\ j - n \in 1 .. m - 1 /\ j - n < i /\ ~ (j <= n)
      BY <1>1, <2>2
    <3>2. r[j] = b[j - n] /\ e[j] = c[j - n]
      BY <1>5, <1>6, <1>7, <2>0, <2>2, <3>1
    <3> QED
      BY <1>2, <1>3, <1>4, <3>1, <3>2
  <2>3. CASE n + i <= j
    <3>1. /\ j - n \in 1 .. m - 1 /\ (j - n) + 1 \in 1 .. m /\ ~ (j - n < i)
          /\ ~ (j <= n) /\ ~ (j + 1 <= n) /\ (j + 1) - n = (j - n) + 1
          /\ ~ (j < n + i)
      BY <1>1, <2>3
    <3>2. r[j] = b[(j - n) + 1] /\ e[j] = c[j - n]
      BY <1>5, <1>6, <1>7, <2>0, <3>1
    <3> QED
      BY <1>2, <1>3, <1>4, <3>1, <3>2
  <2> QED
    BY <1>1, <2>1, <2>2, <2>3
<1> QED
  BY <1>6, <1>7, <1>8, <1>9, SeqEqual DEF r, s, e, b, c, d, n
-----------------------------------------------------------------------------
\* What the mapping needs besides ChInv: a timer that has fired has woken its
\* call, which has not returned; and whoever is suspended has an entry.
TimedOut == \A t \in isTimeOut : pc[t] # "idle" /\ state[t] = "runnable"
Blocked ==
    \A t \in Task : state[t] = "block" =>
        \/ \E i \in 1 .. Len(wq) : wq[i] = t
        \/ \E i \in 1 .. Len(rq) : rq[i] = t
RefInv == ChInv /\ TimedOut /\ Blocked

\* Nobody who is suspended or timed out loses its entry or returns to work.
LEMMA SameRefInv ==
  ASSUME RefInv, ChInv', UNCHANGED <<state, wq, rq, isTimeOut>>,
         \A u \in Task : pc[u] # "idle" => pc'[u] # "idle"
  PROVE  RefInv'
<1>1. TimedOut'
  BY DEF RefInv, ChInv, TypeOK, TimedOut
<1>2. Blocked'
  BY DEF RefInv, Blocked
<1> QED
  BY <1>1, <1>2 DEF RefInv

\* The first of a queue is woken and leaves it, and nobody else.
LEMMA WakeRefInv ==
  ASSUME RefInv, ChInv', UNCHANGED <<isTimeOut, pc>>, NEW h \in Task, WakeupBySelfIO({h}),
         \/ rq # <<>> /\ h = Head(rq) /\ rq' = Tail(rq) /\ wq' = wq
         \/ wq # <<>> /\ h = Head(wq) /\ wq' = Tail(wq) /\ rq' = rq
  PROVE  RefInv'
<1>1. \A u \in Task : state'[u] = IF u = h THEN "runnable" ELSE state[u]
  BY DEF WakeupBySelfIO
<1>2. TimedOut'
  BY <1>1 DEF RefInv, ChInv, TypeOK, TimedOut
<1>3. ASSUME NEW q \in Seq(Task \union {NoTask}), q # <<>>, h = Head(q),
             NEW u \in Task, u # h, NEW i \in 1 .. Len(q), q[i] = u
      PROVE  \E j \in 1 .. Len(Tail(q)) : Tail(q)[j] = u
  <2>1. /\ Len(Tail(q)) = Len(q) - 1 /\ Len(q) \in Nat /\ Head(q) = q[1]
        /\ \A j \in 1 .. Len(q) - 1 : Tail(q)[j] = q[1 + j]
    BY <1>3, TailElements
  <2>2. i # 1
    BY <1>3, <2>1
  <2>3. i - 1 \in 1 .. Len(q) - 1 /\ 1 + (i - 1) = i
    BY <2>1, <2>2
  <2> QED
    BY <1>3, <2>1, <2>3
<1>4. Blocked'
  <2> SUFFICES ASSUME NEW u \in Task, state'[u] = "block"
               PROVE  \/ \E i \in 1 .. Len(wq') : wq'[i] = u
                      \/ \E i \in 1 .. Len(rq') : rq'[i] = u
    BY DEF Blocked
  <2>1. u # h /\ state[u] = "block"
    BY <1>1
  <2>2. \/ \E i \in 1 .. Len(wq) : wq[i] = u
        \/ \E i \in 1 .. Len(rq) : rq[i] = u
    BY <2>1 DEF RefInv, Blocked
  <2>3. wq \in Seq(Task \union {NoTask}) /\ rq \in Seq(Task \union {NoTask})
    BY DEF RefInv, ChInv, TypeOK
  <2>4. CASE rq # <<>> /\ h = Head(rq) /\ rq' = Tail(rq) /\ wq' = wq
    BY <1>3, <2>1, <2>2, <2>3, <2>4
  <2>5. CASE wq # <<>> /\ h = Head(wq) /\ wq' = Tail(wq) /\ rq' = rq
    BY <1>3, <2>1, <2>2, <2>3, <2>5
  <2> QED
    BY <2>4, <2>5
<1> QED
  BY <1>2, <1>4 DEF RefInv

\* A blocked caller has its entry at the end.
LEMMA WaitRefInv ==
  ASSUME RefInv, ChInv', NEW t \in Task, Calls(t), NEW timeout, Wait(t, timeout),
         \/ rq' = rq /\ wq' = Append(wq, t)
         \/ wq' = wq /\ rq' = Append(rq, t)
  PROVE  RefInv'
<1>1. /\ state' = [state EXCEPT ![t] = "block"] /\ pc' = [pc EXCEPT ![t] = "switch"]
      /\ isTimeOut' = isTimeOut /\ pc[t] = "idle"
  BY DEF Wait, SuspendBySelfIO, Calls
<1>2. TimedOut'
  BY <1>1 DEF RefInv, ChInv, TypeOK, SuspensionTypeOK, TimedOut
<1>3. \A q \in {wq, rq} :
         /\ Len(Append(q, t)) = Len(q) + 1 /\ Len(q) \in Nat
         /\ \A i \in 1 .. Len(q) : Append(q, t)[i] = q[i]
         /\ Append(q, t)[Len(q) + 1] = t
  BY AppendElements DEF RefInv, ChInv, TypeOK
<1>4. Blocked'
  <2> SUFFICES ASSUME NEW u \in Task, state'[u] = "block"
               PROVE  \/ \E i \in 1 .. Len(wq') : wq'[i] = u
                      \/ \E i \in 1 .. Len(rq') : rq'[i] = u
    BY DEF Blocked
  <2>1. CASE u = t
    BY <1>3, <2>1
  <2>2. CASE u # t
    <3>1. \/ \E i \in 1 .. Len(wq) : wq[i] = u
          \/ \E i \in 1 .. Len(rq) : rq[i] = u
      <4>1. state[u] = "block"
        BY <1>1, <2>2 DEF RefInv, ChInv, TypeOK, SuspensionTypeOK
      <4> QED
        BY <4>1 DEF RefInv, Blocked
    <3>2. \A q \in {wq, rq} : \A i \in 1 .. Len(q) :
             i \in 1 .. Len(Append(q, t)) /\ Append(q, t)[i] = q[i]
      BY <1>3
    <3> QED
      BY <3>1, <3>2
  <2> QED
    BY <2>1, <2>2
<1> QED
  BY <1>2, <1>4 DEF RefInv

\* Close wakes everybody who has an entry.
LEMMA CloseRefInv ==
  ASSUME RefInv, ChInv', NEW t \in Task, Close(t), ~ Undefined
  PROVE  RefInv'
<1> DEFINE waiting == Range(rq \o wq)
<1>1. WakeupBySelfIO(waiting) /\ UNCHANGED <<isTimeOut, pc>>
  BY DEF Close
<1>2. waiting = {rq[i] : i \in 1 .. Len(rq)} \union {wq[i] : i \in 1 .. Len(wq)}
  BY InBoth DEF RefInv, ChInv, TypeOK
<1> HIDE DEF waiting
<1>3. \A u \in Task : state'[u] = IF u \in waiting THEN "runnable" ELSE state[u]
  BY <1>1 DEF WakeupBySelfIO
<1>4. TimedOut'
  BY <1>1, <1>3 DEF RefInv, ChInv, TypeOK, TimedOut
<1>5. Blocked'
  BY <1>2, <1>3 DEF RefInv, Blocked
<1> QED
  BY <1>4, <1>5 DEF RefInv

\* The callback of a timer wakes its task, which has not returned.
LEMMA TimerRefInv ==
  ASSUME RefInv, ChInv', NEW t \in Task, TimerFires(t), ~ Undefined
  PROVE  RefInv'
<1>1. /\ isTimeOut' = isTimeOut \union {t} /\ state[t] = "block"
      /\ WakeupBySelfIO({t}) /\ UNCHANGED <<wq, rq, pc>>
  BY DEF TimerFires, MayWake
<1>2. \A u \in Task : state'[u] = IF u = t THEN "runnable" ELSE state[u]
  BY <1>1 DEF WakeupBySelfIO
<1>3. pc[t] # "idle"
  BY <1>1 DEF RefInv, ChInv, Phase
<1>4. TimedOut'
  BY <1>1, <1>2, <1>3 DEF RefInv, ChInv, TypeOK, TimedOut
<1>5. Blocked'
  BY <1>1, <1>2 DEF RefInv, Blocked
<1> QED
  BY <1>4, <1>5 DEF RefInv

\* The call returns and takes its name out of its entry.
LEMMA ReturnRefInv ==
  ASSUME RefInv, ChInv', NEW t \in Task, Return(t)
  PROVE  RefInv'
<1>1. /\ isTimeOut' = isTimeOut \ {t} /\ pc' = [pc EXCEPT ![t] = "idle"]
      /\ wq' = Orphan(wq, t) /\ rq' = Orphan(rq, t) /\ state' = state
  BY DEF Return, suspensionVars
<1>2. state[t] = "runnable"
  BY <1>1 DEF ChInv, TypeOK, Phase
<1>3. TimedOut'
  BY <1>1 DEF RefInv, ChInv, TypeOK, TimedOut
<1>4. \A q \in {wq, rq} :
         /\ Len(Orphan(q, t)) = Len(q)
         /\ \A i \in 1 .. Len(q) :
              Orphan(q, t)[i] = IF q[i] = t THEN NoTask ELSE q[i]
  <2>1. wq \in Seq(Task \union {NoTask}) /\ rq \in Seq(Task \union {NoTask})
    BY DEF RefInv, ChInv, TypeOK
  <2> QED
    BY <2>1, OrphanElements
<1>5. Blocked'
  <2> SUFFICES ASSUME NEW u \in Task, state'[u] = "block"
               PROVE  \/ \E i \in 1 .. Len(wq') : wq'[i] = u
                      \/ \E i \in 1 .. Len(rq') : rq'[i] = u
    BY DEF Blocked
  <2>1. u # t
    BY <1>1, <1>2
  <2>2. \/ \E i \in 1 .. Len(wq) : wq[i] = u
        \/ \E i \in 1 .. Len(rq) : rq[i] = u
    BY <1>1 DEF RefInv, Blocked
  <2> QED
    BY <1>1, <1>4, <2>1, <2>2
<1> QED
  BY <1>3, <1>5 DEF RefInv

\* What is added to the invariant holds throughout.
LEMMA RefInvariant == Spec => []RefInv
<1>1. Init => RefInv
  <2> SUFFICES ASSUME Init PROVE RefInv
    OBVIOUS
  <2>1. ChInv
    BY InitChInv
  <2>2. TimedOut /\ Blocked
    BY DEF Init, SuspensionInit, TimedOut, Blocked
  <2> QED
    BY <2>1, <2>2 DEF RefInv
<1>2. RefInv /\ [Next]_vars => RefInv'
  <2> SUFFICES ASSUME RefInv, [Next]_vars PROVE RefInv'
    OBVIOUS
  <2>1. ChInv /\ ChInv'
    BY NextChInv DEF RefInv
  <2>2. CASE UNCHANGED vars \/ Undefined
    <3>1. UNCHANGED <<state, wq, rq, isTimeOut, pc>>
      BY <2>2 DEF vars, chanVars, suspensionVars, Undefined
    <3> QED
      BY <2>1, <3>1, SameRefInv
  <2>3. ASSUME ~ Undefined, NEW t \in Task, NEW timeout \in Timeouts, Pop(t, timeout)
        PROVE  RefInv'
    <3>1. CASE PopBuffered(t) \/ PopFails(t, timeout)
      <4>1. UNCHANGED <<state, wq, rq, isTimeOut, pc>>
        BY <3>1 DEF PopBuffered, PopFails, Fail, suspensionVars
      <4> QED
        BY <2>1, <4>1, SameRefInv
    <3>2. CASE PopWakesWriter(t)
      <4>1. /\ wq # <<>> /\ wq' = Tail(wq) /\ Head(wq) # NoTask
            /\ WakeupBySelfIO({Head(wq)}) /\ UNCHANGED <<rq, isTimeOut, pc>>
        BY <2>3, <3>2 DEF PopWakesWriter, Notifiable
      <4>2. Head(wq) \in Task
        BY <2>1, <4>1, TailElements DEF ChInv, TypeOK
      <4> QED
        BY <2>1, <4>1, <4>2, WakeRefInv
    <3>3. CASE ReadWaite(t, timeout)
      BY <2>1, <2>3, <3>3, WaitRefInv DEF ReadWaite, Pop
    <3> QED
      BY <2>3, <3>1, <3>2, <3>3 DEF Pop
  <2>4. ASSUME ~ Undefined, NEW t \in Task, NEW timeout \in Timeouts, NEW v \in Value,
               Push(t, v, timeout)
        PROVE  RefInv'
    <3>1. CASE PushBuffers(t, v) \/ PushFails(t, timeout)
      <4>1. UNCHANGED <<state, wq, rq, isTimeOut, pc>>
        BY <3>1 DEF PushBuffers, PushFails, Fail, suspensionVars
      <4> QED
        BY <2>1, <4>1, SameRefInv
    <3>2. CASE PushHandsOver(t, v)
      <4>1. /\ rq # <<>> /\ rq' = Tail(rq) /\ Head(rq) # NoTask
            /\ WakeupBySelfIO({Head(rq)}) /\ UNCHANGED <<wq, isTimeOut, pc>>
        BY <2>4, <3>2 DEF PushHandsOver, Notifiable
      <4>2. Head(rq) \in Task
        BY <2>1, <4>1, TailElements DEF ChInv, TypeOK
      <4> QED
        BY <2>1, <4>1, <4>2, WakeRefInv
    <3>3. CASE WriteWaite(t, v, timeout)
      BY <2>1, <2>4, <3>3, WaitRefInv DEF WriteWaite, Push
    <3> QED
      BY <2>4, <3>1, <3>2, <3>3 DEF Push
  <2>5. ASSUME NEW p \in Proc, Switch(p) PROVE RefInv'
    <3>1. /\ pc' = [pc EXCEPT ![on[p]] = "wait"]
          /\ UNCHANGED <<state, wq, rq, isTimeOut>>
      BY <2>5 DEF Switch, SwapOut
    <3>2. \A u \in Task : pc[u] # "idle" => pc'[u] # "idle"
      BY <2>1, <3>1 DEF ChInv, TypeOK
    <3> QED
      BY <2>1, <3>1, <3>2, SameRefInv
  <2>6. ASSUME NEW p \in Proc, UserYield(p) \/ \E t \in Task : Running(p, t) PROVE RefInv'
    <3>1. UNCHANGED <<state, wq, rq, isTimeOut, pc>>
      BY <2>6 DEF UserYield, Running, Yield, Resume, chanVars
    <3> QED
      BY <2>1, <3>1, SameRefInv
  <2> QED
    BY <2>1, <2>2, <2>3, <2>4, <2>5, <2>6, CloseRefInv, TimerRefInv, ReturnRefInv
       DEF Next
<1> QED
  BY <1>1, <1>2, PTL DEF Spec
-----------------------------------------------------------------------------
\* What the mapping makes of the state.
LEMMA LiveFacts ==
  ASSUME RefInv
  PROVE  /\ wq \in Seq(Task \union {NoTask}) /\ rq \in Seq(Task \union {NoTask})
         /\ Live(wq) \in Seq(Task) /\ Live(rq) \in Seq(Task)
         /\ wq = <<>> => Live(wq) = <<>> /\ Pushed(Live(wq), slot) = <<>>
         /\ rq = <<>> => Live(rq) = <<>>
         /\ Pushed(Live(wq), slot) \in Seq(Value)
         /\ Len(Pushed(Live(wq), slot)) = Len(Live(wq))
         /\ buf \in Seq(Value) /\ slot \in [Task -> Value]
         /\ Len(buf \o Pushed(Live(wq), slot)) = Len(buf) + Len(Live(wq))
         /\ Len(buf) \in Nat /\ Len(Live(wq)) \in Nat
         /\ capacity \in Nat /\ Len(buf) <= capacity
<1>1. /\ wq \in Seq(Task \union {NoTask}) /\ rq \in Seq(Task \union {NoTask})
      /\ buf \in Seq(Value) /\ slot \in [Task -> Value]
      /\ capacity \in Nat /\ Len(buf) <= capacity
  BY FastChannelAssumption DEF RefInv, ChInv, TypeOK
<1>2. ASSUME NEW q \in Seq(Task \union {NoTask})
      PROVE  Live(q) \in Seq(Task) /\ (q = <<>> => Live(q) = <<>>)
  <2> DEFINE T == Task \union {NoTask}  S == Task \ isTimeOut
  <2>1. Live(q) = Keep(q, S)
    BY DEF Live
  <2>2. Keep(q, S) \in Seq(T \cap S) /\ T \cap S \subseteq Task
    BY KeepType
  <2>3. Keep(q, S) \in Seq(Task)
    BY <2>2, SeqMonotonic
  <2>4. Keep(<<>>, S) = <<>>
    BY <1>2, KeepAppend
  <2> QED
    BY <2>1, <2>3, <2>4
<1> DEFINE L == Live(wq)  P == Pushed(L, slot)
<1>3. L \in Seq(Task) /\ (wq = <<>> => L = <<>>)
  BY <1>1, <1>2
<1>4. Live(rq) \in Seq(Task) /\ (rq = <<>> => Live(rq) = <<>>)
  BY <1>1, <1>2
<1> HIDE DEF L
<1>5. /\ P \in Seq(Value) /\ Len(P) = Len(L) /\ Len(L) \in Nat
      /\ L = <<>> => P = <<>>
  BY <1>1, <1>3, PushedElements
<1> HIDE DEF P
<1>6. Len(buf \o P) = Len(buf) + Len(L) /\ Len(buf) \in Nat
  <2>1. buf \in Seq(Value) /\ P \in Seq(Value)
    BY <1>1, <1>5
  <2>2. Len(buf \o P) = Len(buf) + Len(P) /\ Len(buf) \in Nat
    BY <2>1, ConcatProperties, LenProperties
  <2> QED
    BY <1>5, <2>2
<1> QED
  BY <1>1, <1>3, <1>4, <1>5, <1>6 DEF P, L

\* Who waits in the abstract channel.
LEMMA WaitingIs ==
  ASSUME RefInv
  PROVE  Abstract!Waiting = {Live(wq)[i] : i \in 1 .. Len(Live(wq))}
                              \union {Live(rq)[i] : i \in 1 .. Len(Live(rq))}
<1>1. DOMAIN Live(wq) = 1 .. Len(Live(wq)) /\ DOMAIN Live(rq) = 1 .. Len(Live(rq))
  BY LiveFacts, LenProperties
<1> QED
  BY <1>1 DEF Abstract!Waiting, Abstract!Range

\* A caller does not wait.
LEMMA CallerNotWaiting ==
  ASSUME RefInv, NEW t \in Sched!Executing, pc[t] = "idle"
  PROVE  /\ t \notin Abstract!Waiting /\ t \notin isTimeOut
         /\ \A i \in 1 .. Len(Live(wq)) : Live(wq)[i] # t
<1> DEFINE T == (Task \union {NoTask}) \ {t}  S == Task \ isTimeOut
<1>1. /\ \A i \in 1 .. Len(wq) : wq[i] # t
      /\ \A i \in 1 .. Len(rq) : rq[i] # t
  BY CallerFacts DEF RefInv
<1>2. ASSUME NEW q \in Seq(Task \union {NoTask}), \A i \in 1 .. Len(q) : q[i] # t
      PROVE  \A i \in 1 .. Len(Live(q)) : Live(q)[i] # t
  <2>1. \A i \in 1 .. Len(q) : q[i] \in T
    BY <1>2, ElementOfSeq
  <2>2. q \in Seq(T)
    BY <2>1, LenProperties, SeqDef
  <2>3. Keep(q, S) \in Seq(T \cap S)
    BY <2>2, KeepType
  <2>4. \A i \in 1 .. Len(Keep(q, S)) : Keep(q, S)[i] \in T \cap S
    BY <2>3, ElementOfSeq
  <2> QED
    BY <2>4 DEF Live
<1>3. /\ \A i \in 1 .. Len(Live(wq)) : Live(wq)[i] # t
      /\ \A i \in 1 .. Len(Live(rq)) : Live(rq)[i] # t
  BY <1>1, <1>2, LiveFacts
<1>4. t \notin isTimeOut
  BY DEF RefInv, TimedOut
<1> QED
  BY <1>3, <1>4, WaitingIs

\* A suspended task at the front of a queue is the first that waits.
LEMMA FirstWaits ==
  ASSUME RefInv, NEW q \in Seq(Task \union {NoTask}), q # <<>>, Notifiable(Head(q))
  PROVE  /\ Head(q) \in Task /\ Live(q) # <<>> /\ Head(Live(q)) = Head(q)
         /\ Tail(Live(q)) = Live(Tail(q))
<1>1. Head(q) # NoTask /\ state[Head(q)] = "block" /\ Head(q) \in Task
  BY TailElements DEF Notifiable, MayWake
<1>2. Head(q) \in Task \ isTimeOut
  BY <1>1 DEF RefInv, TimedOut
<1> QED
  BY <1>2, KeepFirst DEF Live

\* Nothing happens to what the mapping reads.
LEMMA Stutters ==
  ASSUME UNCHANGED <<capacity, closed, buf, wq, rq, slot, got, success, isTimeOut>>
  PROVE  UNCHANGED Abstract!vars
<1>1. UNCHANGED <<Live(wq), Live(rq), Pushed(Live(wq), slot)>>
  BY DEF Live
<1> QED
  BY <1>1 DEF Abstract!vars

\* A refused call.
LEMMA FailRefines ==
  ASSUME RefInv, NEW t \in Task, Calls(t), NEW timeout,
         PushFails(t, timeout) \/ PopFails(t, timeout)
  PROVE  Abstract!Next
<1>1. t \notin Abstract!Waiting
  BY CallerNotWaiting DEF Calls
<1>2. UNCHANGED <<capacity, closed, buf, wq, rq, slot, got, isTimeOut>>
      /\ success' = [success EXCEPT ![t] = "fail"]
      /\ (closed \/ PushCannot \/ PopCannot)
  BY DEF PushFails, PopFails, Fail
<1>3. UNCHANGED <<Live(wq), Live(rq), Pushed(Live(wq), slot)>>
  BY <1>2 DEF Live
<1>4. \/ closed
      \/ Live(rq) = <<>> /\ Len(buf \o Pushed(Live(wq), slot)) >= capacity
      \/ buf \o Pushed(Live(wq), slot) = <<>>
  <2>1. CASE PushCannot
    <3>1. rq = <<>> /\ Len(buf) >= capacity
      BY <2>1 DEF PushCannot, RefInv, ChInv, Needed
    <3> QED
      BY <3>1, LiveFacts
  <2>2. CASE PopCannot
    <3>1. buf = <<>> /\ wq = <<>>
      BY <2>2, LiveFacts DEF PopCannot, RefInv, ChInv, Needed
    <3>2. <<>> \o <<>> = <<>>
      OBVIOUS
    <3> QED
      BY <3>1, <3>2, LiveFacts
  <2> QED
    BY <1>2, <2>1, <2>2
<1>5. Abstract!Answer({t}, "fail")
  BY <1>2 DEF Abstract!Answer, RefInv, ChInv, TypeOK
<1>6. Abstract!Refuse(t)
  BY <1>2, <1>3, <1>4, <1>5 DEF Abstract!Refuse
<1> QED
  BY <1>1, <1>6 DEF Abstract!Next, Abstract!Call

\* A push with room.
LEMMA PushBuffersRefines ==
  ASSUME RefInv, NEW t \in Task, Calls(t), NEW v \in Value, PushBuffers(t, v)
  PROVE  Abstract!Next
<1>1. t \notin Abstract!Waiting
  BY CallerNotWaiting DEF Calls
<1>2. /\ UNCHANGED <<capacity, closed, wq, rq, slot, got, isTimeOut>>
      /\ ~ closed /\ buf' = Append(buf, v) /\ success' = Done({t}) /\ Len(buf) < capacity
      /\ (buf # <<>> \/ rq = <<>>)
  BY DEF PushBuffers
<1>3. rq = <<>> /\ wq = <<>>
  BY <1>2, LiveFacts DEF RefInv, ChInv, Needed
<1>4. Live(rq) = <<>> /\ Live(wq) = <<>> /\ Pushed(Live(wq), slot) = <<>>
  BY <1>3, LiveFacts
<1>5. UNCHANGED <<Live(wq), Live(rq), Pushed(Live(wq), slot)>>
  BY <1>2 DEF Live
<1>6. buf \o <<>> = buf /\ Append(buf, v) \o <<>> = Append(buf, v)
  BY LiveFacts, AppendProperties, ConcatEmptySeq
<1>7. Abstract!Answer({t}, "ok")
  BY <1>2 DEF Abstract!Answer, Done
<1>8. Abstract!Send(t, v)
  BY <1>2, <1>4, <1>5, <1>6, <1>7 DEF Abstract!Send
<1> QED
  BY <1>1, <1>8 DEF Abstract!Next, Abstract!Call

\* A push with a reader waiting.
LEMMA PushHandsOverRefines ==
  ASSUME RefInv, NEW t \in Task, Calls(t), NEW v \in Value, PushHandsOver(t, v),
         ~ Undefined
  PROVE  Abstract!Next
<1>1. t \notin Abstract!Waiting
  BY CallerNotWaiting DEF Calls
<1>2. /\ UNCHANGED <<capacity, closed, buf, wq, slot, isTimeOut>>
      /\ ~ closed /\ rq # <<>> /\ rq' = Tail(rq) /\ Notifiable(Head(rq))
      /\ got' = [got EXCEPT ![Head(rq)] = v] /\ success' = Done({t, Head(rq)})
  BY DEF PushHandsOver
<1>3. Live(rq) # <<>> /\ Head(Live(rq)) = Head(rq) /\ Tail(Live(rq)) = Live(Tail(rq))
  BY <1>2, LiveFacts, FirstWaits
<1>4. Live(rq)' = Tail(Live(rq)) /\ UNCHANGED <<Live(wq), Pushed(Live(wq), slot)>>
  BY <1>2, <1>3 DEF Live
<1>5. Abstract!Answer({t, Head(Live(rq))}, "ok")
  BY <1>2, <1>3 DEF Abstract!Answer, Done
<1>6. Abstract!SendMeets(t, v)
  BY <1>2, <1>3, <1>4, <1>5 DEF Abstract!SendMeets
<1> QED
  BY <1>1, <1>6 DEF Abstract!Next, Abstract!Call

\* A push that waits: its value is behind those of the writers before it.
LEMMA WriteWaiteRefines ==
  ASSUME RefInv, NEW t \in Task, Calls(t), NEW timeout, NEW v \in Value,
         WriteWaite(t, v, timeout)
  PROVE  Abstract!Next
<1> DEFINE S == Task \ isTimeOut
<1>1. /\ t \notin Abstract!Waiting /\ t \in S
      /\ \A i \in 1 .. Len(Live(wq)) : Live(wq)[i] # t
  BY CallerNotWaiting DEF Calls
<1>2. /\ UNCHANGED <<capacity, closed, buf, rq, got, isTimeOut>>
      /\ wq' = Append(wq, t) /\ slot' = [slot EXCEPT ![t] = v]
      /\ success' = [success EXCEPT ![t] = "none"]
      /\ PushCannot
  BY DEF WriteWaite, Wait
<1>3. ~ closed /\ rq = <<>> /\ Len(buf) >= capacity
  BY <1>2 DEF PushCannot, RefInv, ChInv, Needed
<1>4. Live(rq) = <<>> /\ ~ (Len(buf \o Pushed(Live(wq), slot)) < capacity)
  BY <1>3, LiveFacts
<1>5. Live(rq)' = Live(rq)
  BY <1>2 DEF Live
<1>6. Live(wq)' = Append(Live(wq), t)
  <2>1. Keep(Append(wq, t), S) = Append(Keep(wq, S), t)
    <3>1. wq \in Seq(Task \union {NoTask}) /\ t \in Task \union {NoTask} /\ t \in S
      BY <1>1, LiveFacts
    <3> HIDE DEF S
    <3> QED
      BY <3>1, KeepAppend
  <2> QED
    BY <1>2, <2>1 DEF Live
<1> DEFINE L == Live(wq)  P == Pushed(L, slot)
<1>7. Pushed(Live(wq), slot)' = Append(P, v)
  <2>1. Pushed(Append(L, t), [slot EXCEPT ![t] = v]) = Append(P, v)
    <3>1. /\ L \in Seq(Task) /\ slot \in [Task -> Value]
          /\ \A i \in 1 .. Len(L) : L[i] # t
      BY <1>1, LiveFacts
    <3> HIDE DEF L
    <3> QED
      BY <3>1, PushedAppend
  <2> QED
    BY <1>2, <1>6, <2>1
<1>8. buf \o Append(P, v) = Append(buf \o P, v)
  <2>1. buf \in Seq(Value) /\ P \in Seq(Value)
    BY LiveFacts
  <2> HIDE DEF P
  <2> QED
    BY <2>1, ConcatLast
<1>9. Abstract!Answer({t}, "none")
  BY <1>2 DEF Abstract!Answer, RefInv, ChInv, TypeOK
<1> HIDE DEF S
<1>10. Abstract!Send(t, v)
  BY <1>2, <1>3, <1>4, <1>5, <1>6, <1>7, <1>8, <1>9 DEF Abstract!Send
<1> QED
  BY <1>1, <1>10 DEF Abstract!Next, Abstract!Call

\* A pop that waits.
LEMMA ReadWaiteRefines ==
  ASSUME RefInv, NEW t \in Task, Calls(t), NEW timeout, ReadWaite(t, timeout)
  PROVE  Abstract!Next
<1> DEFINE S == Task \ isTimeOut
<1>1. t \notin Abstract!Waiting /\ t \in S
  BY CallerNotWaiting DEF Calls
<1>2. /\ UNCHANGED <<capacity, closed, buf, wq, slot, got, isTimeOut>>
      /\ rq' = Append(rq, t) /\ success' = [success EXCEPT ![t] = "none"]
      /\ PopCannot
  BY DEF ReadWaite, Wait
<1>3. ~ closed /\ buf = <<>> /\ wq = <<>>
  BY <1>2, LiveFacts DEF PopCannot, RefInv, ChInv, Needed
<1>4. buf \o Pushed(Live(wq), slot) = <<>>
  <2>1. <<>> \o <<>> = <<>>
    OBVIOUS
  <2> QED
    BY <1>3, <2>1, LiveFacts
<1>5. UNCHANGED <<Live(wq), Pushed(Live(wq), slot)>>
  BY <1>2 DEF Live
<1>6. Live(rq)' = Append(Live(rq), t)
  <2>1. Keep(Append(rq, t), S) = Append(Keep(rq, S), t)
    <3>1. rq \in Seq(Task \union {NoTask}) /\ t \in Task \union {NoTask} /\ t \in S
      BY <1>1, LiveFacts
    <3> HIDE DEF S
    <3> QED
      BY <3>1, KeepAppend
  <2> QED
    BY <1>2, <2>1 DEF Live
<1>7. Abstract!Answer({t}, "none")
  BY <1>2 DEF Abstract!Answer, RefInv, ChInv, TypeOK
<1>8. Abstract!ReceiveWaits(t)
  BY <1>2, <1>3, <1>4, <1>5, <1>6, <1>7 DEF Abstract!ReceiveWaits
<1> QED
  BY <1>1, <1>8 DEF Abstract!Next, Abstract!Call

\* A pop with nobody waiting for room.
LEMMA PopBufferedRefines ==
  ASSUME RefInv, NEW t \in Task, Calls(t), PopBuffered(t)
  PROVE  Abstract!Next
<1>1. t \notin Abstract!Waiting
  BY CallerNotWaiting DEF Calls
<1>2. /\ UNCHANGED <<capacity, closed, wq, rq, slot, isTimeOut>>
      /\ ~ closed /\ buf # <<>> /\ buf' = Tail(buf) /\ success' = Done({t})
      /\ got' = [got EXCEPT ![t] = Head(buf)]
  BY DEF PopBuffered
<1>3. wq = <<>>
  BY DEF PopBuffered, RefInv, ChInv, Needed
<1>4. Live(wq) = <<>> /\ Pushed(Live(wq), slot) = <<>>
  BY <1>3, LiveFacts
<1>5. UNCHANGED <<Live(wq), Live(rq), Pushed(Live(wq), slot)>>
  BY <1>2 DEF Live
<1>6. buf \o <<>> = buf /\ Tail(buf) \o <<>> = Tail(buf)
  BY <1>2, LiveFacts, HeadTailProperties, ConcatEmptySeq
<1>7. Abstract!Answer({t}, "ok")
  BY <1>2 DEF Abstract!Answer, Done
<1>8. Abstract!Receive(t)
  BY <1>2, <1>4, <1>5, <1>6, <1>7 DEF Abstract!Receive
<1> QED
  BY <1>1, <1>8 DEF Abstract!Next, Abstract!Call

\* A pop that makes room: the first writer's value is in the buffer now.
LEMMA PopWakesWriterRefines ==
  ASSUME RefInv, NEW t \in Task, Calls(t), PopWakesWriter(t), ~ Undefined
  PROVE  Abstract!Next
<1> DEFINE h == Head(wq)  L == Live(wq)  P == Pushed(L, slot)
           all == Append(buf, slot[h])  rest == Pushed(Tail(L), slot)
<1>1. t \notin Abstract!Waiting
  BY CallerNotWaiting DEF Calls
<1>2. /\ UNCHANGED <<capacity, closed, rq, slot, isTimeOut>>
      /\ ~ closed /\ wq # <<>> /\ wq' = Tail(wq) /\ Notifiable(h)
      /\ success' = Done({t, h})
      /\ buf' = Tail(all) /\ got' = [got EXCEPT ![t] = Head(all)]
  BY DEF PopWakesWriter
<1>3. h \in Task /\ L # <<>> /\ Head(L) = h /\ Tail(L) = Live(Tail(wq))
  BY <1>2, LiveFacts, FirstWaits
<1>4. Live(wq)' = Tail(L) /\ Live(rq)' = Live(rq) /\ Pushed(Live(wq), slot)' = rest
  BY <1>2, <1>3 DEF Live
<1>5. /\ L \in Seq(Task) /\ slot \in [Task -> Value] /\ buf \in Seq(Value)
      /\ P \in Seq(Value)
  BY LiveFacts
<1> HIDE DEF L
<1>6. P # <<>> /\ Head(P) = slot[h] /\ Tail(P) = rest
  BY <1>3, <1>5, PushedFirst
<1>7. rest \in Seq(Value) /\ slot[h] \in Value
  BY <1>3, <1>5, <1>6, HeadTailProperties
<1> HIDE DEF h, P, rest
<1>8. buf \o P = all \o rest
  BY <1>5, <1>6, ConcatMove
<1>9. all \in Seq(Value) /\ all # <<>>
  BY <1>5, <1>7, AppendProperties
<1> HIDE DEF all
<1>10. /\ buf \o P # <<>> /\ Head(buf \o P) = Head(all)
       /\ Tail(buf \o P) = Tail(all) \o rest
  BY <1>7, <1>8, <1>9, ConcatFirst
<1>11. Abstract!Answer({t, Head(L)}, "ok")
  BY <1>2, <1>3 DEF Abstract!Answer, Done
<1>12. Abstract!Receive(t)
  <2>1. P = Pushed(Live(wq), slot) /\ L = Live(wq)
    BY DEF P, L
  <2> QED
    BY <1>2, <1>3, <1>4, <1>10, <1>11, <2>1 DEF Abstract!Receive
<1> QED
  BY <1>1, <1>12 DEF Abstract!Next, Abstract!Call

\* Close: everybody in the queues waits, and the values of the writers go.
LEMMA CloseRefines ==
  ASSUME RefInv, NEW t \in Task, Close(t), ~ Undefined
  PROVE  Abstract!Next
<1> DEFINE waiting == Range(rq \o wq)  S == Task \ isTimeOut
<1>1. /\ ~ closed /\ closed' = TRUE /\ rq' = <<>> /\ wq' = <<>>
      /\ \A u \in waiting : Notifiable(u)
      /\ success' = [u \in Task |-> IF u \in waiting THEN "fail" ELSE success[u]]
      /\ UNCHANGED <<capacity, buf, slot, got, isTimeOut>>
  BY DEF Close
<1>2. waiting = {rq[i] : i \in 1 .. Len(rq)} \union {wq[i] : i \in 1 .. Len(wq)}
  <2>1. wq \in Seq(Task \union {NoTask}) /\ rq \in Seq(Task \union {NoTask})
    BY LiveFacts
  <2> QED
    BY <2>1, InBoth
<1> HIDE DEF waiting
<1>3. ASSUME NEW q \in Seq(Task \union {NoTask}),
             \A i \in 1 .. Len(q) : q[i] \in waiting
      PROVE  Live(q) = q
  <2>1. \A i \in 1 .. Len(q) : q[i] \in Task \union {NoTask}
    BY ElementOfSeq
  <2>2. \A i \in 1 .. Len(q) : q[i] \in S
    BY <1>1, <1>3, <2>1 DEF Notifiable, MayWake, RefInv, TimedOut
  <2> HIDE DEF S
  <2>3. Keep(q, S) = q
    BY <2>2, KeepAll
  <2> QED
    BY <2>3 DEF Live, S
<1>4. Live(wq) = wq /\ Live(rq) = rq
  BY <1>2, <1>3, LiveFacts
<1>5. Live(wq)' = <<>> /\ Live(rq)' = <<>>
  <2>1. Keep(<<>>, S) = <<>>
    BY LiveFacts, KeepAppend, SuspensionAssumption
  <2> QED
    BY <1>1, <2>1 DEF Live
<1>6. Pushed(Live(wq), slot)' = <<>>
  <2>1. Pushed(<<>>, slot) = <<>>
    BY LiveFacts, PushedElements
  <2> QED
    BY <1>1, <1>5, <2>1
<1>7. (buf \o Pushed(Live(wq), slot))' = buf
  BY <1>1, <1>6, LiveFacts, ConcatEmptySeq
<1>8. SubSeq(buf \o Pushed(Live(wq), slot), 1,
             Len(buf \o Pushed(Live(wq), slot)) - Len(Live(wq))) = buf
  <2>1. Len(buf \o Pushed(Live(wq), slot)) - Len(Live(wq)) = Len(buf)
    BY LiveFacts
  <2>2. buf \in Seq(Value) /\ Pushed(Live(wq), slot) \in Seq(Value)
    BY LiveFacts
  <2> QED
    BY <2>1, <2>2, ConcatFront
<1>9. Abstract!Answer(Abstract!Waiting, "fail")
  <2>1. Abstract!Waiting = waiting
    BY <1>2, <1>4, WaitingIs
  <2> QED
    BY <1>1, <2>1 DEF Abstract!Answer
<1>10. Abstract!Close
  BY <1>1, <1>5, <1>7, <1>8, <1>9 DEF Abstract!Close
<1> QED
  BY <1>10 DEF Abstract!Next

\* A timer fires: its call waits, and no longer.
LEMMA TimerFiresRefines ==
  ASSUME RefInv, NEW t \in Task, TimerFires(t), ~ Undefined
  PROVE  Abstract!Next
<1> DEFINE S == Task \ isTimeOut
<1>1. /\ isTimeOut' = isTimeOut \union {t} /\ state[t] = "block"
      /\ success' = [success EXCEPT ![t] = "fail"]
      /\ UNCHANGED <<capacity, closed, buf, wq, rq, slot, got>>
  BY DEF TimerFires, MayWake
<1>2. t \in S /\ Task \ isTimeOut' = S \ {t}
  BY <1>1 DEF RefInv, TimedOut
<1>3. ASSUME NEW q \in Seq(Task \union {NoTask}), NEW m \in 1 .. Len(q), q[m] = t,
             Entries(q)
      PROVE  \E k \in 1 .. Len(Live(q)) :
               Live(q)[k] = t /\ Keep(q, S \ {t}) = RemoveAt(Live(q), k)
  <2>1. \A i, j \in 1 .. Len(q) : q[i] = t /\ q[j] = t => i = j
    BY <1>3, SuspensionAssumption DEF Entries
  <2> HIDE DEF S
  <2>2. \E k \in 1 .. Len(Keep(q, S)) :
          /\ Keep(q, S)[k] = t
          /\ Keep(q, S \ {t}) = RemoveAt(Keep(q, S), k)
    <3>1. t \in S
      BY <1>2
    <3> QED
      BY <1>3, <2>1, <3>1, KeepRemove
  <2> QED
    BY <2>2 DEF Live, S
<1>4. Live(wq)' = Keep(wq, S \ {t}) /\ Live(rq)' = Keep(rq, S \ {t})
  BY <1>1, <1>2 DEF Live
<1>5. Keep(<<>>, S \ {t}) = <<>>
  BY LiveFacts, KeepAppend
<1>6. Abstract!Answer({t}, "fail")
  BY <1>1 DEF Abstract!Answer, RefInv, ChInv, TypeOK
<1> HIDE DEF S
<1>7. CASE \E m \in 1 .. Len(wq) : wq[m] = t
  <2>1. wq # <<>> /\ rq = <<>> /\ Len(buf) = capacity
    BY <1>7, EmptySeq DEF RefInv, ChInv, Needed
  <2>2. PICK k \in 1 .. Len(Live(wq)) :
          Live(wq)[k] = t /\ Keep(wq, S \ {t}) = RemoveAt(Live(wq), k)
    BY <1>3, <1>7, LiveFacts DEF RefInv, ChInv
  <2>3. t \in Abstract!Waiting
    BY <2>2, WaitingIs
  <2>4. Live(wq)' = RemoveAt(Live(wq), k) /\ Live(rq)' = Live(rq)
    BY <1>4, <1>5, <2>1, <2>2, LiveFacts
  <2> DEFINE L == Live(wq)  P == Pushed(L, slot)
  <2>5. L \in Seq(Task) /\ slot \in [Task -> Value] /\ buf \in Seq(Value) /\ k \in 1 .. Len(L)
    BY LiveFacts
  <2>6. DOMAIN Live(wq) = 1 .. Len(Live(wq))
    BY <2>5, LenProperties
  <2>7. Pushed(Live(wq), slot)' = Pushed(RemoveAt(L, k), slot)
    BY <1>1, <2>4
  <2> HIDE DEF L
  <2>8. RemoveAt(buf \o P, capacity + k) = buf \o Pushed(RemoveAt(L, k), slot)
    BY <2>1, <2>5, RemoveBehind
  <2>9. Abstract!Expire(t)
    BY <1>1, <1>6, <2>2, <2>3, <2>4, <2>6, <2>7, <2>8
       DEF Abstract!Expire, Abstract!RemoveAt, RemoveAt, L
  <2> QED
    BY <2>9 DEF Abstract!Next
<1>8. CASE \E m \in 1 .. Len(rq) : rq[m] = t
  <2>1. wq = <<>>
    BY <1>8, EmptySeq DEF RefInv, ChInv, Needed
  <2>2. PICK k \in 1 .. Len(Live(rq)) :
          Live(rq)[k] = t /\ Keep(rq, S \ {t}) = RemoveAt(Live(rq), k)
    BY <1>3, <1>8, LiveFacts DEF RefInv, ChInv
  <2>3. t \in Abstract!Waiting
    BY <2>2, WaitingIs
  <2>4. Live(rq)' = RemoveAt(Live(rq), k) /\ Live(wq)' = Live(wq)
    BY <1>4, <1>5, <2>1, <2>2, LiveFacts
  <2>5. UNCHANGED Pushed(Live(wq), slot)
    BY <1>1, <2>4
  <2>6. DOMAIN Live(rq) = 1 .. Len(Live(rq))
    BY LiveFacts, LenProperties
  <2>7. Abstract!Expire(t)
    BY <1>1, <1>6, <2>2, <2>3, <2>4, <2>5, <2>6
       DEF Abstract!Expire, Abstract!RemoveAt, RemoveAt
  <2> QED
    BY <2>7 DEF Abstract!Next
<1> QED
  BY <1>1, <1>7, <1>8 DEF RefInv, Blocked

\* A call returns: an entry that still had its name had timed out.
LEMMA ReturnRefines ==
  ASSUME RefInv, NEW t \in Task, Return(t)
  PROVE  UNCHANGED Abstract!vars
<1> DEFINE S == Task \ isTimeOut  R == Task \ isTimeOut'
<1>1. /\ isTimeOut' = isTimeOut \ {t}
      /\ wq' = Orphan(wq, t) /\ rq' = Orphan(rq, t)
      /\ UNCHANGED <<capacity, closed, buf, slot, got, success>>
  BY DEF Return
<1>2. state[t] = "runnable"
  BY DEF Return, RefInv, ChInv, TypeOK, SuspensionTypeOK, Scheduled, Phase,
         Sched!Executing
<1>3. ASSUME NEW q \in Seq(Task \union {NoTask}), Entries(q)
      PROVE  Keep(Orphan(q, t), R) = Keep(q, S)
  <2>1. /\ Orphan(q, t) \in Seq(Task \union {NoTask}) /\ Len(Orphan(q, t)) = Len(q)
        /\ \A i \in 1 .. Len(q) :
             Orphan(q, t)[i] = IF q[i] = t THEN NoTask ELSE q[i]
    BY OrphanElements
  <2>2. \A i \in 1 .. Len(q) : q[i] = t => t \in isTimeOut
    BY <1>2, <1>3, SuspensionAssumption DEF Entries
  <2>3. \A i \in 1 .. Len(q) :
          IF q[i] \in S THEN Orphan(q, t)[i] \in R /\ Orphan(q, t)[i] = q[i]
                        ELSE Orphan(q, t)[i] \notin R
    BY <1>1, <2>1, <2>2, SuspensionAssumption
  <2> HIDE DEF S, R
  <2> QED
    BY <2>1, <2>3, KeepSame
<1>4. UNCHANGED <<Live(wq), Live(rq)>>
  BY <1>1, <1>3, LiveFacts DEF Live, RefInv, ChInv
<1>5. UNCHANGED Pushed(Live(wq), slot)
  BY <1>1, <1>4
<1> QED
  BY <1>1, <1>4, <1>5 DEF Abstract!vars

\* Every step of the channel is one the abstract channel may take, or none.
LEMMA NextRefines == RefInv /\ [Next]_vars => [Abstract!Next]_(Abstract!vars)
<1> SUFFICES ASSUME RefInv, [Next]_vars
             PROVE  Abstract!Next \/ UNCHANGED Abstract!vars
  OBVIOUS
<1>1. CASE UNCHANGED vars \/ Undefined
  BY <1>1, Stutters DEF vars, chanVars, Undefined
<1>2. ASSUME ~ Undefined, NEW t \in Task, NEW timeout \in Timeouts, Pop(t, timeout)
      PROVE  Abstract!Next
  BY <1>2, PopWakesWriterRefines, PopBufferedRefines, FailRefines, ReadWaiteRefines
     DEF Pop
<1>3. ASSUME ~ Undefined, NEW t \in Task, NEW timeout \in Timeouts, NEW v \in Value,
             Push(t, v, timeout)
      PROVE  Abstract!Next
  BY <1>3, PushHandsOverRefines, PushBuffersRefines, FailRefines, WriteWaiteRefines
     DEF Push
<1>4. ASSUME NEW p \in Proc,
             Switch(p) \/ UserYield(p) \/ \E t \in Task : Running(p, t)
      PROVE  UNCHANGED Abstract!vars
  BY <1>4, Stutters DEF Switch, UserYield, Running, chanVars
<1> QED
  BY <1>1, <1>2, <1>3, <1>4, CloseRefines, TimerFiresRefines, ReturnRefines DEF Next

\* The channel starts empty.
LEMMA InitRefines == Init => Abstract!Init
<1> SUFFICES ASSUME Init PROVE Abstract!Init
  OBVIOUS
<1>1. RefInv
  <2>1. ChInv
    BY InitChInv
  <2>2. TimedOut /\ Blocked
    BY DEF Init, SuspensionInit, TimedOut, Blocked
  <2> QED
    BY <2>1, <2>2 DEF RefInv
<1>2. /\ capacity \in Capacities /\ closed = FALSE /\ buf = <<>> /\ wq = <<>> /\ rq = <<>>
      /\ success \in [Task -> {"ok"}]
  BY DEF Init
<1>3. Live(wq) = <<>> /\ Live(rq) = <<>> /\ buf \o Pushed(Live(wq), slot) = <<>>
  <2>1. <<>> \o <<>> = <<>>
    OBVIOUS
  <2> QED
    BY <1>1, <1>2, <2>1, LiveFacts
<1>4. got \in [Task -> Value]
  BY <1>1 DEF RefInv, ChInv, TypeOK
<1> QED
  BY <1>2, <1>3, <1>4 DEF Abstract!Init

\* For every set of coroutines, threads and values, every capacity and every
\* kind of timeout the channel is the one the user is promised: each value pushed
\* is popped once and in the order of the pushes, those of writers that block
\* behind a full buffer included, a call that times out moves no value, and Close
\* answers exactly those that wait (fast_channel_impl.h:63-185).  This holds up to
\* the first step that answers the entry of a call that has timed out.
THEOREM ChannelRefines == Spec => ImplementsChannel
  BY InitRefines, RefInvariant, NextRefines, PTL
     DEF Spec, ImplementsChannel, Abstract!Spec
-----------------------------------------------------------------------------
\* The ring buffer.  What decides who waits: capacity_ + 1 slots, and a size that is the number of
\* values.
RingInv(cap) ==
    Ring(cap)!TypeOK /\ Ring(cap)!SizeRight

\* The counters' difference, either way round.
LEMMA SizeIs ==
  ASSUME NEW cap \in Nat, Ring(cap)!Mod \in Nat, Ring(cap)!TypeOK
  PROVE  /\ rwrite \in Nat /\ rwrite < Ring(cap)!Mod
         /\ rread \in Nat /\ rread < Ring(cap)!Mod
         /\ Ring(cap)!size = IF rwrite >= rread THEN rwrite - rread
                             ELSE rwrite - rread + Ring(cap)!Mod
<1> DEFINE M == Ring(cap)!Mod
<1>1. M \in Nat /\ rwrite \in 0 .. M - 1 /\ rread \in 0 .. M - 1
  BY DEF Ring!TypeOK
<1>2. Ring(cap)!size = (rwrite - rread) % M
  BY DEF Ring!size
<1> HIDE DEF M
<1>3. rwrite - rread \in -M .. M - 1 /\ M \in Nat \ {0} /\ rwrite - rread \in Int
  BY <1>1
<1>4. (rwrite - rread) % M = IF rwrite >= rread THEN rwrite - rread
                             ELSE rwrite - rread + M
  <2> DEFINE r == IF rwrite >= rread THEN rwrite - rread
                  ELSE rwrite - rread + M
  <2>1. /\ r \in 0 .. M - 1
        /\ rwrite - rread = r \/ rwrite - rread = r - M
    BY <1>1
  <2> HIDE DEF r
  <2>2. (rwrite - rread) % M = r
    BY <1>3, <2>1, RemainderIs
  <2> QED
    BY <2>2 DEF r
<1> QED
  BY <1>1, <1>2, <1>4 DEF M

\* Where the counters go when write_ is advanced.
LEMMA WrappedIs ==
  ASSUME NEW cap \in Nat, Ring(cap)!Mod \in Nat, cap + 1 < Ring(cap)!Mod,
         Ring(cap)!TypeOK
  PROVE  LET w == Ring(cap)!Wrapped  M == Ring(cap)!Mod IN
         /\ rwrite + 1 < M => w.write = rwrite + 1 /\ w.read = rread
         /\ rwrite + 1 = M =>
              /\ w.write = cap + 1
              /\ w.read = IF rread + cap + 1 < M THEN rread + cap + 1
                          ELSE rread + cap + 1 - M
<1> DEFINE M == Ring(cap)!Mod
<1>1. /\ M \in Nat \ {0} /\ cap + 1 < M
      /\ rwrite \in 0 .. M - 1 /\ rread \in 0 .. M - 1
  BY DEF Ring!TypeOK
<1>2. Ring(cap)!Wrapped =
        IF (rwrite + 1) % M = 0
        THEN [write |-> cap + 1, read |-> (rread + cap + 1) % M]
        ELSE [write |-> (rwrite + 1) % M, read |-> rread]
  BY DEF Ring!Wrapped
<1> HIDE DEF M
<1>3. rwrite + 1 < M => (rwrite + 1) % M = rwrite + 1
  <2>1. rwrite + 1 \in Int /\ 0 <= rwrite + 1
    BY <1>1
  <2> QED
    BY <1>1, <2>1, SmallRemainder
<1>4. rwrite + 1 = M => (rwrite + 1) % M = 0
  <2>1. M <= M /\ M < M + M /\ M - M = 0 /\ M \in Int
    BY <1>1
  <2> QED
    BY <1>1, <2>1, SmallRemainder
<1>5. (rread + cap + 1) % M = IF rread + cap + 1 < M THEN rread + cap + 1
                              ELSE rread + cap + 1 - M
  <2> DEFINE r == IF rread + cap + 1 < M THEN rread + cap + 1
                  ELSE rread + cap + 1 - M
  <2>1. /\ r \in 0 .. M - 1 /\ rread + cap + 1 \in Int
        /\ rread + cap + 1 = r \/ rread + cap + 1 = r + M
    BY <1>1
  <2> HIDE DEF r
  <2>2. (rread + cap + 1) % M = r
    BY <1>1, <2>1, RemainderIs
  <2> QED
    BY <2>2 DEF r
<1>6. rwrite + 1 # 0
  BY <1>1
<1> QED
  BY <1>2, <1>3, <1>4, <1>5, <1>6 DEF M

\* A push stores behind the last value.
LEMMA RingPush ==
  ASSUME NEW cap \in Nat, Ring(cap)!Mod \in Nat, cap + 1 < Ring(cap)!Mod,
         RingInv(cap), NEW v \in Value, Ring(cap)!push(v)
  PROVE  RingInv(cap)'
<1> DEFINE M == Ring(cap)!Mod  L == Len(rflow)
<1>1. /\ rwrite \in 0 .. M - 1 /\ rread \in 0 .. M - 1 /\ M \in Nat \ {0}
      /\ L \in Nat /\ L < cap /\ cap + 1 < M
      /\ L = IF rwrite >= rread THEN rwrite - rread
             ELSE rwrite - rread + M
  <2>1. /\ Ring(cap)!size = L /\ Ring(cap)!size # cap /\ Ring(cap)!size <= cap
        /\ rflow \in Seq(Value) /\ rwrite \in 0 .. M - 1
    BY DEF RingInv, Ring!SizeRight, Ring!push, Ring!TypeOK
  <2>2. L \in Nat
    BY <2>1, LenProperties
  <2> QED
    BY <2>1, <2>2, SizeIs DEF RingInv
<1>2. Ring(cap)!TypeOK
  BY DEF RingInv
<1>3. rwrite' = Ring(cap)!Wrapped.write /\ rread' = Ring(cap)!Wrapped.read
  BY DEF Ring!push
<1>4. /\ rwrite + 1 < M => rwrite' = rwrite + 1 /\ rread' = rread
      /\ rwrite + 1 = M =>
           /\ rwrite' = cap + 1
           /\ rread' = IF rread + cap + 1 < M THEN rread + cap + 1
                       ELSE rread + cap + 1 - M
  BY <1>2, <1>3, WrappedIs
<1> HIDE DEF M, L
<1>5. /\ rwrite' \in 0 .. M - 1 /\ rread' \in 0 .. M - 1
      /\ \/ rwrite' - rread' = L + 1
         \/ rwrite' - rread' = (L + 1) - M
  BY <1>1, <1>4
<1>6. (rwrite' - rread') % M = L + 1
  <2> DEFINE d == rwrite' - rread'  r == L + 1
  <2>1. d \in Int /\ r \in 0 .. M - 1
    BY <1>1, <1>5
  <2>2. d = r \/ d = r - M
    BY <1>1, <1>5
  <2> HIDE DEF d, r
  <2>3. d % M = r
    BY <1>1, <2>1, <2>2, RemainderIs
  <2> QED
    BY <2>3 DEF d, r
<1>7. /\ rflow' = Append(rflow, v) /\ rflow \in Seq(Value)
      /\ rbuf' = [rbuf EXCEPT ![rwrite % (cap + 1)] = v]
      /\ rbuf \in [0 .. cap -> Value \union {NoTask}]
  BY <1>2 DEF Ring!push, Ring!TypeOK, Ring!Slot
<1>8. rflow' \in Seq(Value) /\ Len(rflow') = L + 1
  BY <1>7, AppendProperties DEF L
<1>9. rbuf' \in [0 .. cap -> Value \union {NoTask}]
  BY <1>7
<1> QED
  <2>1. Ring(cap)!size' = L + 1
    BY <1>6 DEF Ring!size, M, Ring!Mod
  <2>2. Ring(cap)!TypeOK'
    BY <1>5, <1>8, <1>9 DEF Ring!TypeOK, Ring!Slot, Ring!Mod, M
  <2> QED
    BY <1>8, <2>1, <2>2 DEF RingInv, Ring!SizeRight

\* A pop takes the value at the front.
LEMMA RingPop ==
  ASSUME NEW cap \in Nat, Ring(cap)!Mod \in Nat, cap + 1 < Ring(cap)!Mod,
         RingInv(cap), Ring(cap)!pop
  PROVE  RingInv(cap)'
<1> DEFINE M == Ring(cap)!Mod  L == Len(rflow)
<1>1. Ring(cap)!TypeOK /\ Ring(cap)!size = L /\ Ring(cap)!size # 0
  BY DEF RingInv, Ring!SizeRight, Ring!pop
<1>2. rflow \in Seq(Value) /\ rflow # <<>> /\ L \in Nat \ {0} /\ L <= cap
  <2>1. rflow \in Seq(Value) /\ Ring(cap)!size <= cap
    BY <1>1 DEF Ring!TypeOK
  <2>2. L \in Nat
    BY <2>1, LenProperties
  <2>3. L # 0 /\ L <= cap
    BY <1>1, <2>1
  <2> QED
    BY <2>1, <2>2, <2>3, EmptySeq
<1>3. /\ rwrite \in 0 .. M - 1 /\ rread \in 0 .. M - 1 /\ M \in Nat \ {0}
      /\ L = IF rwrite >= rread THEN rwrite - rread
             ELSE rwrite - rread + M
  <2>1. rwrite \in 0 .. M - 1
    BY <1>1 DEF Ring!TypeOK
  <2> QED
    BY <1>1, <2>1, SizeIs DEF RingInv
<1>4. /\ rwrite' = rwrite /\ rread' = (rread + 1) % M
      /\ rbuf' = [rbuf EXCEPT ![rread % (cap + 1)] = NoTask]
      /\ rbuf \in [0 .. cap -> Value \union {NoTask}]
      /\ rflow' = Tail(rflow)
  BY <1>1 DEF Ring!pop, Ring!TypeOK, Ring!Slot
<1>5. rflow' \in Seq(Value) /\ Len(rflow') = L - 1
  BY <1>2, <1>4, HeadTailProperties
<1>6. rbuf' \in [0 .. cap -> Value \union {NoTask}]
  BY <1>4
<1> HIDE DEF M, L
<1>7. rread' = IF rread + 1 < M THEN rread + 1 ELSE 0
  <2> DEFINE r == IF rread + 1 < M THEN rread + 1 ELSE 0  a == rread + 1
  <2>1. r \in 0 .. M - 1 /\ a \in Int /\ (a = r \/ a = r + M)
    BY <1>3
  <2> HIDE DEF r, a
  <2>2. a % M = r
    BY <1>3, <2>1, RemainderIs
  <2> QED
    BY <1>4, <2>2 DEF a, r
<1>8. (rwrite' - rread') % M = L - 1
  <2> DEFINE d == rwrite' - rread'  r == L - 1
  <2>1. d \in Int /\ r \in 0 .. M - 1
    BY <1>2, <1>3, <1>4, <1>7
  <2>2. d = r \/ d = r - M
    BY <1>2, <1>3, <1>4, <1>7
  <2> HIDE DEF d, r
  <2>3. d % M = r
    BY <1>3, <2>1, <2>2, RemainderIs
  <2> QED
    BY <2>3 DEF d, r
<1> QED
  <2>1. Ring(cap)!size' = L - 1
    BY <1>8 DEF Ring!size, M, Ring!Mod
  <2>2. rwrite' \in 0 .. M - 1 /\ rread' \in 0 .. M - 1 /\ L - 1 <= cap
    BY <1>2, <1>3, <1>4, <1>7
  <2> QED
    BY <1>5, <1>6, <2>1, <2>2
       DEF RingInv, Ring!TypeOK, Ring!SizeRight, Ring!Slot, Ring!Mod, M

\* Where capacity_ + 1 divides the range of size_t: write_ stands for the slot
\* behind the last value, and the wrap of push moves no slot.
LEMMA WriteSlot ==
  ASSUME NEW cap \in Nat, Ring(cap)!Mod \in Nat, cap + 1 < Ring(cap)!Mod,
         Ring(cap)!Mod % (cap + 1) = 0, RingInv(cap), NEW r,
         r = rread % (cap + 1), NEW L, L = Len(rflow)
  PROVE  /\ r \in 0 .. cap /\ L \in 0 .. cap
         /\ rwrite % (cap + 1) = IF r + L <= cap THEN r + L
                                 ELSE r + L - (cap + 1)
<1> DEFINE M == Ring(cap)!Mod  n == cap + 1
<1>1. /\ rwrite \in 0 .. M - 1 /\ rread \in 0 .. M - 1 /\ M \in Nat \ {0}
      /\ L \in 0 .. cap
      /\ L = IF rwrite >= rread THEN rwrite - rread
             ELSE rwrite - rread + M
  <2>1. /\ Ring(cap)!size = L /\ Ring(cap)!size <= cap
        /\ rflow \in Seq(Value) /\ rwrite \in 0 .. M - 1
    BY DEF RingInv, Ring!SizeRight, Ring!TypeOK
  <2>2. L \in Nat
    BY <2>1, LenProperties
  <2> QED
    BY <2>1, <2>2, SizeIs DEF RingInv
<1>2. n \in Nat \ {0} /\ M % n = 0 /\ L \in 0 .. n
  BY <1>1
<1>3. r \in 0 .. cap /\ r = rread % n
  BY <1>1, <1>2, Remainder
<1> HIDE DEF M, n
<1>4. rwrite = (rread + L) % M
  <2> DEFINE a == rread + L
  <2>1. a \in Int /\ (a = rwrite \/ a = rwrite + M)
    BY <1>1
  <2> HIDE DEF a
  <2>2. a % M = rwrite
    BY <1>1, <2>1, RemainderIs
  <2> QED
    BY <2>2 DEF a
<1>5. rread + L \in Int /\ rread \in Int
  BY <1>1
<1>6. rwrite % n = (rread + L) % n
  BY <1>1, <1>2, <1>4, <1>5, Divides
<1>7. (rread + L) % n = IF r + L < n THEN r + L ELSE r + L - n
  <2>1. n \in Nat \ {0} /\ rread \in Int /\ r = rread % n /\ L \in 0 .. n
    BY <1>2, <1>3, <1>5
  <2> QED
    BY <2>1, SlotAhead, Zenon
<1>8. rwrite % n = IF r + L < n THEN r + L ELSE r + L - n
  BY <1>6, <1>7
<1>9. r + L < n <=> r + L <= cap
  BY <1>1, <1>3 DEF n
<1> QED
  BY <1>1, <1>3, <1>8, <1>9 DEF n

\* The slots of a ring whose number divides the range of size_t.
RingFifoInv(cap) == RingInv(cap) /\ Ring(cap)!FifoSlots

\* Slot s holds the value at the distance of s from read_.
LEMMA FifoSlotsIs ==
  ASSUME NEW cap \in Nat, Ring(cap)!TypeOK, NEW r, r = rread % (cap + 1)
  PROVE  /\ r \in 0 .. cap
         /\ Ring(cap)!FifoSlots <=>
              \A s \in 0 .. cap :
                LET d == IF s >= r THEN s - r ELSE s - r + (cap + 1)
                IN  rbuf[s] = IF d < Len(rflow) THEN rflow[d + 1] ELSE NoTask
<1> DEFINE n == cap + 1
<1>1. /\ n \in Nat \ {0} /\ rread \in Int /\ 0 .. n - 1 = 0 .. cap
      /\ r = rread % n
  BY DEF Ring!TypeOK
<1>2. r \in 0 .. cap
  BY <1>1, Remainder
<1>4. Ring(cap)!FifoSlots <=>
        \A s \in 0 .. cap :
          rbuf[s] = IF (s - rread) % n < Len(rflow)
                    THEN rflow[((s - rread) % n) + 1] ELSE NoTask
  BY DEF Ring!FifoSlots, Ring!Slot
<1> HIDE DEF n
<1>2a. \A s \in 0 .. n - 1 :
        (s - rread) % n = IF s >= r THEN s - r ELSE s - r + n
  BY <1>1, SlotBehind, Zenon
<1>3. \A s \in 0 .. cap :
        (s - rread) % n = IF s >= r THEN s - r ELSE s - r + n
  BY <1>1, <1>2a, Zenon
<1>5. Ring(cap)!FifoSlots <=>
        \A s \in 0 .. cap :
          LET d == IF s >= r THEN s - r ELSE s - r + n
          IN  rbuf[s] = IF d < Len(rflow) THEN rflow[d + 1] ELSE NoTask
  BY <1>3, <1>4
<1> QED
  BY <1>2, <1>5 DEF n

\* A push fills the slot behind the last value and moves no other.
LEMMA FifoPush ==
  ASSUME NEW cap \in Nat, Ring(cap)!Mod \in Nat, cap + 1 < Ring(cap)!Mod,
         Ring(cap)!Mod % (cap + 1) = 0, RingFifoInv(cap),
         NEW v \in Value, Ring(cap)!push(v)
  PROVE  RingFifoInv(cap)'
<1> DEFINE n == cap + 1  M == Ring(cap)!Mod  r == rread % n  L == Len(rflow)
<1>1. RingInv(cap) /\ RingInv(cap)' /\ Ring(cap)!TypeOK /\ Ring(cap)!TypeOK'
  BY RingPush DEF RingFifoInv, RingInv
<1>2. /\ r \in 0 .. cap /\ L \in 0 .. cap
      /\ rwrite % n = IF r + L <= cap THEN r + L ELSE r + L - (cap + 1)
  BY <1>1, WriteSlot
<1>3. L < cap
  <2>1. Ring(cap)!size = L
    BY <1>1 DEF RingInv, Ring!SizeRight
  <2>2. Ring(cap)!size # cap
    BY DEF Ring!push
  <2>3. L # cap
    BY <2>1, <2>2
  <2> HIDE DEF L
  <2> QED
    BY <1>2, <2>3
<1>4. rread' % n = r
  <2>0. n \in Nat \ {0} /\ rread \in Int /\ M \in Nat \ {0} /\ M % n = 0
    BY <1>1 DEF Ring!TypeOK
  <2>1. rread' = rread \/ rread' = (rread + cap + 1) % M
    <3>1. rread' = Ring(cap)!Wrapped.read
      BY DEF Ring!push
    <3>2. Ring(cap)!Wrapped.read = rread \/ Ring(cap)!Wrapped.read = (rread + cap + 1) % M
      BY DEF Ring!Wrapped
    <3> QED
      BY <3>1, <3>2
  <2>2. CASE rread' = (rread + cap + 1) % M
    <3>1. rread + cap + 1 = rread + n
      BY <2>0
    <3> HIDE DEF n, M, r, L
    <3>2. ((rread + n) % M) % n = rread % n
      BY <2>0, RoundMovesNothing
    <3> QED
      BY <2>2, <3>1, <3>2 DEF r
  <2> QED
    BY <2>1, <2>2
<1>5. /\ rflow' = Append(rflow, v) /\ rflow \in Seq(Value)
      /\ rbuf' = [rbuf EXCEPT ![rwrite % n] = v]
      /\ rbuf \in [0 .. cap -> Value \union {NoTask}]
  BY <1>1 DEF Ring!push, Ring!TypeOK, Ring!Slot
<1>6. /\ Len(rflow') = L + 1 /\ rflow'[L + 1] = v
      /\ \A i \in 1 .. L : rflow'[i] = rflow[i]
  BY <1>5, AppendProperties
<1>7. \A s \in 0 .. cap :
        LET d == IF s >= r THEN s - r ELSE s - r + (cap + 1)
        IN  rbuf[s] = IF d < L THEN rflow[d + 1] ELSE NoTask
  <2>1. Ring(cap)!FifoSlots
    BY DEF RingFifoInv
  <2> QED
    BY <1>1, <2>1, FifoSlotsIs
<1> HIDE DEF n, r, L
<1>8. \A s \in 0 .. cap :
        LET d == IF s >= r THEN s - r ELSE s - r + (cap + 1)
        IN  rbuf'[s] = IF d < L + 1 THEN rflow'[d + 1] ELSE NoTask
  <2> SUFFICES ASSUME NEW s \in 0 .. cap, NEW d,
                      d = IF s >= r THEN s - r ELSE s - r + (cap + 1)
               PROVE  rbuf'[s] = IF d < L + 1 THEN rflow'[d + 1] ELSE NoTask
    OBVIOUS
  <2>1. d \in 0 .. cap /\ (s = rwrite % n <=> d = L)
    BY <1>2, <1>3
  <2>2. rbuf[s] = IF d < L THEN rflow[d + 1] ELSE NoTask
    BY <1>7
  <2>3. rbuf'[s] = IF s = rwrite % n THEN v ELSE rbuf[s]
    BY <1>5
  <2>4. d \in Nat /\ L \in Nat
    BY <1>2, <2>1
  <2>5. CASE d = L
    BY <1>6, <2>1, <2>3, <2>4, <2>5
  <2>6. CASE d < L
    <3>1. d + 1 \in 1 .. L /\ d < L + 1 /\ d # L
      BY <2>4, <2>6
    <3> QED
      BY <1>6, <2>1, <2>2, <2>3, <2>6, <3>1
  <2>7. CASE d > L
    <3>1. ~ (d < L) /\ ~ (d < L + 1) /\ d # L
      BY <2>4, <2>7
    <3> QED
      BY <2>1, <2>2, <2>3, <3>1
  <2> QED
    BY <2>4, <2>5, <2>6, <2>7
<1>9. Ring(cap)!FifoSlots'
  <2>1. n \in Nat \ {0} /\ rread' \in Int /\ 0 .. n - 1 = 0 .. cap /\ r = rread' % n
    BY <1>1, <1>4 DEF Ring!TypeOK, n
  <2>2. \A s \in 0 .. n - 1 :
          (s - rread') % n = IF s >= r THEN s - r ELSE s - r + n
    BY <2>1, SlotBehind, Zenon
  <2>3. \A s \in 0 .. cap :
          rbuf'[s] = IF (s - rread') % n < Len(rflow')
                     THEN rflow'[((s - rread') % n) + 1] ELSE NoTask
    <3> SUFFICES ASSUME NEW s \in 0 .. cap, NEW d, d = (s - rread') % n
                 PROVE  rbuf'[s] = IF d < Len(rflow') THEN rflow'[d + 1] ELSE NoTask
      BY Zenon
    <3>1. d = IF s >= r THEN s - r ELSE s - r + n
      BY <2>1, <2>2
    <3> QED
      BY <1>6, <1>8, <3>1 DEF n
  <2> QED
    BY <2>3 DEF Ring!FifoSlots, Ring!Slot, n
<1> QED
  BY <1>1, <1>9 DEF RingFifoInv

\* A pop empties the slot of the first value and moves no other.
LEMMA FifoPop ==
  ASSUME NEW cap \in Nat, Ring(cap)!Mod \in Nat, cap + 1 < Ring(cap)!Mod,
         Ring(cap)!Mod % (cap + 1) = 0, RingFifoInv(cap), Ring(cap)!pop
  PROVE  RingFifoInv(cap)'
<1> DEFINE n == cap + 1  M == Ring(cap)!Mod  r == rread % n  L == Len(rflow)
           q == IF r < cap THEN r + 1 ELSE 0
<1>1. RingInv(cap) /\ RingInv(cap)' /\ Ring(cap)!TypeOK /\ Ring(cap)!TypeOK'
  BY RingPop DEF RingFifoInv, RingInv
<1>2. r \in 0 .. cap /\ L \in 0 .. cap
  BY <1>1, WriteSlot
<1>3. L # 0 /\ rflow \in Seq(Value) /\ rflow # <<>>
  <2>1. Ring(cap)!size = L
    BY <1>1 DEF RingInv, Ring!SizeRight
  <2>2. Ring(cap)!size # 0
    BY DEF Ring!pop
  <2>3. L # 0
    BY <2>1, <2>2
  <2>4. rflow \in Seq(Value)
    BY <1>1 DEF Ring!TypeOK
  <2> QED
    BY <2>3, <2>4, EmptySeq
<1>4. rread' % n = q
  <2>0. /\ n \in Nat \ {0} /\ rread \in Int /\ M \in Nat \ {0} /\ M % n = 0
        /\ rread + 1 \in Int /\ 1 \in 0 .. n /\ rread' = (rread + 1) % M
    BY <1>1 DEF Ring!TypeOK, Ring!pop
  <2>1. (rread + 1) % n = IF r + 1 < n THEN r + 1 ELSE r + 1 - n
    <3> HIDE DEF n, M, r
    <3>1. /\ n \in Nat \ {0} /\ rread \in Int /\ r = rread % n /\ 1 \in 0 .. n
      BY <2>0 DEF r
    <3> QED
      BY <3>1, SlotAhead, ZenonT(60)
  <2>2. (IF r + 1 < n THEN r + 1 ELSE r + 1 - n) = q
    <3> HIDE DEF r
    <3>1. r + 1 < n <=> r < cap
      BY <1>2
    <3>2. r = cap => r + 1 - n = 0
      BY <1>2
    <3> QED
      BY <1>2, <3>1, <3>2
  <2> HIDE DEF n, M, r, L, q
  <2>3. ((rread + 1) % M) % n = (rread + 1) % n
    BY <2>0, Divides
  <2> QED
    BY <2>0, <2>1, <2>2, <2>3
<1>5. /\ rflow' = Tail(rflow)
      /\ rbuf' = [rbuf EXCEPT ![r] = NoTask]
      /\ rbuf \in [0 .. cap -> Value \union {NoTask}]
  BY <1>1 DEF Ring!pop, Ring!TypeOK, Ring!Slot
<1>6. /\ Len(rflow') = L - 1
      /\ \A i \in 1 .. L - 1 : rflow'[i] = rflow[i + 1]
  BY <1>3, <1>5, HeadTailProperties
<1>7. \A s \in 0 .. cap :
        LET d == IF s >= r THEN s - r ELSE s - r + (cap + 1)
        IN  rbuf[s] = IF d < L THEN rflow[d + 1] ELSE NoTask
  <2>1. Ring(cap)!FifoSlots
    BY DEF RingFifoInv
  <2> QED
    BY <1>1, <2>1, FifoSlotsIs
<1> HIDE DEF n, r, L
<1>8. \A s \in 0 .. cap :
        LET d == IF s >= q THEN s - q ELSE s - q + (cap + 1)
        IN  rbuf'[s] = IF d < L - 1 THEN rflow'[d + 1] ELSE NoTask
  <2> SUFFICES ASSUME NEW s \in 0 .. cap, NEW d,
                      d = IF s >= q THEN s - q ELSE s - q + (cap + 1)
               PROVE  rbuf'[s] = IF d < L - 1 THEN rflow'[d + 1] ELSE NoTask
    OBVIOUS
  <2>1. /\ d \in 0 .. cap /\ (s = r <=> d = cap)
        /\ s # r => (IF s >= r THEN s - r ELSE s - r + (cap + 1)) = d + 1
    BY <1>2
  <2>2. s # r => rbuf[s] = IF d + 1 < L THEN rflow[d + 2] ELSE NoTask
    <3>1. s # r => rbuf[s] = IF d + 1 < L THEN rflow[(d + 1) + 1] ELSE NoTask
      BY <1>7, <2>1
    <3>2. (d + 1) + 1 = d + 2
      BY <2>1
    <3> QED
      BY <3>1, <3>2
  <2>3. rbuf'[s] = IF s = r THEN NoTask ELSE rbuf[s]
    BY <1>5
  <2>4. d < L - 1 => rflow'[d + 1] = rflow[d + 2]
    <3> HAVE d < L - 1
    <3>1. d + 1 \in 1 .. L - 1 /\ (d + 1) + 1 = d + 2
      BY <1>2, <2>1
    <3> QED
      BY <1>6, <3>1
  <2> QED
    BY <1>2, <2>1, <2>2, <2>3, <2>4
<1>9. Ring(cap)!FifoSlots'
  <2>1. n \in Nat \ {0} /\ rread' \in Int /\ 0 .. n - 1 = 0 .. cap /\ q = rread' % n
    BY <1>1, <1>4 DEF Ring!TypeOK, n
  <2>2. \A s \in 0 .. n - 1 :
          (s - rread') % n = IF s >= q THEN s - q ELSE s - q + n
    <3> HIDE DEF q
    <3> QED
      BY <2>1, SlotBehind, Zenon
  <2>3. \A s \in 0 .. cap :
          rbuf'[s] = IF (s - rread') % n < Len(rflow')
                     THEN rflow'[((s - rread') % n) + 1] ELSE NoTask
    <3> SUFFICES ASSUME NEW s \in 0 .. cap, NEW d, d = (s - rread') % n
                 PROVE  rbuf'[s] = IF d < Len(rflow') THEN rflow'[d + 1] ELSE NoTask
      BY Zenon
    <3> HIDE DEF q
    <3>1. d = IF s >= q THEN s - q ELSE s - q + n
      BY <2>1, <2>2
    <3> QED
      BY <1>6, <1>8, <3>1 DEF n
  <2> QED
    BY <2>3 DEF Ring!FifoSlots, Ring!Slot, n
<1> QED
  BY <1>1, <1>9 DEF RingFifoInv

\* A new ring holds nothing.
LEMMA RingStart ==
  ASSUME NEW cap \in Nat, Ring(cap)!Mod \in Nat, cap + 1 < Ring(cap)!Mod,
         Ring(cap)!Init
  PROVE  RingFifoInv(cap)
<1> DEFINE M == Ring(cap)!Mod
<1>1. /\ rbuf = [s \in 0 .. cap |-> NoTask] /\ rwrite = 0 /\ rread = 0
      /\ rflow = <<>>
  BY DEF Ring!Init, Ring!Slot
<1>2. Ring(cap)!size = 0
  <2>1. Ring(cap)!size = (0 - 0) % M
    BY <1>1 DEF Ring!size
  <2>2. M \in Nat \ {0} /\ 0 \in 0 .. M - 1 /\ 0 - 0 = 0 /\ 0 \in Int
    OBVIOUS
  <2> HIDE DEF M
  <2>3. (0 - 0) % M = 0
    BY <2>2, RemainderIs
  <2> QED
    BY <2>1, <2>3
<1>3. rflow \in Seq(Value) /\ Len(rflow) = 0
  BY <1>1
<1>4. RingInv(cap)
  BY <1>1, <1>2, <1>3 DEF RingInv, Ring!TypeOK, Ring!SizeRight, Ring!Slot
<1>5. Ring(cap)!FifoSlots
  <2> SUFFICES ASSUME NEW s \in 0 .. cap
               PROVE  ~ ((s - rread) % (cap + 1) < 0) /\ rbuf[s] = NoTask
    BY <1>3 DEF Ring!FifoSlots, Ring!Slot
  <2> DEFINE n == cap + 1  a == s - rread
  <2>1. n \in Nat \ {0} /\ a \in Int
    BY <1>1
  <2> HIDE DEF a, n
  <2>2. a % n \in 0 .. n - 1
    BY <2>1, Remainder
  <2>3. ~ (a % n < 0)
    BY <2>1, <2>2
  <2> QED
    BY <1>1, <2>3 DEF a, n
<1> QED
  BY <1>4, <1>5 DEF RingFifoInv

\* The steps of a ring, and those of anything else.
LEMMA RingNext ==
  ASSUME NEW cap \in Nat, Ring(cap)!Mod \in Nat, cap + 1 < Ring(cap)!Mod,
         RingInv(cap), Ring(cap)!Next
  PROVE  /\ RingInv(cap)'
         /\ Ring(cap)!Mod % (cap + 1) = 0 /\ RingFifoInv(cap) => RingFifoInv(cap)'
<1>1. CASE Ring(cap)!pop
  BY <1>1, RingPop, FifoPop
<1>2. ASSUME NEW v \in Value, Ring(cap)!push(v)
      PROVE  /\ RingInv(cap)'
             /\ Ring(cap)!Mod % (cap + 1) = 0 /\ RingFifoInv(cap) => RingFifoInv(cap)'
  BY <1>2, RingPush, FifoPush
<1> QED
  BY <1>1, <1>2 DEF Ring!Next

LEMMA RingStill ==
  ASSUME NEW cap \in Nat, UNCHANGED ringVars
  PROVE  RingInv(cap) => RingInv(cap)' /\ (RingFifoInv(cap) => RingFifoInv(cap)')
  BY DEF ringVars, RingInv, RingFifoInv, Ring!TypeOK, Ring!SizeRight, Ring!FifoSlots,
         Ring!Slot, Ring!size, Ring!Mod

\* The ring buffer, whichever of the two steps.
RingsInv ==
    IF what = "odd ring" THEN RingInv(OddCapacity) ELSE RingFifoInv(RingCapacity)

\* For every capacity and every width of size_t: size() is the number of values,
\* and where capacity_ + 1 divides the range of size_t the slots from read_ on hold
\* the values in the order of their push, across the wrap of write_ too
\* (ringbuffer.h:29-60).
THEOREM RingInOrder == MCSpec => []RingFifo
<1>0. /\ RingCapacity \in Nat /\ RingCapacity + 1 < Ring(RingCapacity)!Mod
      /\ Ring(RingCapacity)!Mod \in Nat
      /\ Ring(RingCapacity)!Mod % (RingCapacity + 1) = 0
      /\ OddCapacity \in Nat /\ OddCapacity + 1 < Ring(OddCapacity)!Mod
      /\ Ring(OddCapacity)!Mod \in Nat
  BY RingAssumption DEF Ring!Mod
<1>1. MCInit => RingsInv
  <2> SUFFICES ASSUME MCInit PROVE RingsInv
    OBVIOUS
  <2>1. CASE what = "odd ring"
    BY <1>0, <2>1, RingStart DEF MCInit, RingsInv, RingFifoInv
  <2>2. CASE what # "odd ring"
    BY <1>0, <2>2, RingStart DEF MCInit, RingsInv
  <2> QED
    BY <2>1, <2>2
<1>2. RingsInv /\ [MCNext]_mcVars => RingsInv'
  <2> SUFFICES ASSUME RingsInv, [MCNext]_mcVars PROVE RingsInv'
    OBVIOUS
  <2>1. CASE UNCHANGED ringVars /\ UNCHANGED what
    BY <1>0, <2>1, RingStill DEF RingsInv, RingFifoInv
  <2>2. CASE what = "ring" /\ Ring(RingCapacity)!Next /\ UNCHANGED what
    BY <1>0, <2>2, RingNext DEF RingsInv, RingFifoInv
  <2>3. CASE what = "odd ring" /\ Ring(OddCapacity)!Next /\ UNCHANGED what
    BY <1>0, <2>3, RingNext DEF RingsInv
  <2> QED
    BY <2>1, <2>2, <2>3 DEF MCNext, mcVars
<1>3. RingsInv => RingFifo
  BY DEF RingsInv, RingInv, RingFifoInv, RingFifo
<1> QED
  BY <1>1, <1>2, <1>3, PTL DEF MCSpec
-----------------------------------------------------------------------------
\* The lock-free ring.  The slot behind s, the slot before it, and how far s is behind a.
After(cap, s) == IF s = cap THEN 0 ELSE s + 1
Before(cap, s) == IF s = 0 THEN cap ELSE s - 1
Behind(cap, s, a) == IF s >= a THEN s - a ELSE s - a + (cap + 1)

\* A slot is claimed and not yet published, by a push and by a pop; what can be
\* popped.
Pushing == lpc[Producer] \in {"move", "look", "publish"}
Popping == lpc[Consumer] \in {"move", "publish"}
Held(cap) == Behind(cap, lreadable, lread)
One(b) == IF b THEN 1 ELSE 0

\* The program counter and the locals of the producer ...
PairPush(cap) ==
    /\ lwrite = IF Pushing THEN After(cap, lreadable) ELSE lreadable
    /\ lpc[Producer] \in {"bound", "claim"} => lslot[Producer] = lwrite
    /\ lpc[Producer] = "claim" => Held(cap) + One(Popping) < cap
    /\ Pushing => lslot[Producer] = lreadable
    /\ lpc[Producer] = "publish" => llimit[Producer] = lreadable

\* ... and those of the consumer.
PairPop(cap) ==
    /\ lpc[Consumer] # "look"
    /\ lwritable = IF Popping THEN Before(cap, Before(cap, lread)) ELSE Before(cap, lread)
    /\ lpc[Consumer] \in {"bound", "claim"} => lslot[Consumer] = lread
    /\ lpc[Consumer] = "claim" => Held(cap) > 0
    /\ lpc[Consumer] = "move" => lslot[Consumer] = Before(cap, lread)
    /\ lpc[Consumer] = "publish" =>
         llimit[Consumer] = Before(cap, lread) /\ lslot[Consumer] = lwritable

\* What is stored, claimed to be stored and claimed to be taken leaves one slot.
PairRoom(cap) == Held(cap) + One(Pushing) + One(Popping) <= cap

\* The slots that hold an object.
PairStored(cap) ==
    LET first == IF lpc[Consumer] = "move" THEN Before(cap, lread) ELSE lread
        count == Held(cap) + One(lpc[Consumer] = "move")
                   + One(lpc[Producer] \in {"look", "publish"})
    IN  \A s \in 0 .. cap : lbuffer[s] <=> Behind(cap, s, first) < count

PairInv(cap) ==
    /\ LockFree({Producer}, {Consumer}, cap)!TypeOK
    /\ PairPush(cap) /\ PairPop(cap) /\ PairRoom(cap) /\ PairStored(cap)

\* Producers alone.
AloneInv(cap) ==
    /\ LockFree(Producers, {}, cap)!TypeOK
    /\ lwritable = cap
    /\ \A s \in 0 .. cap : lbuffer[s] => s < lwrite
    /\ \A t \in Producers :
         /\ lpc[t] = "claim" => lslot[t] # cap
         /\ lpc[t] = "move" => lslot[t] < lwrite /\ ~ lbuffer[lslot[t]]
    /\ \A t, u \in Producers :
         lpc[t] = "move" /\ lpc[u] = "move" /\ lslot[t] = lslot[u] => t = u

\* mod on the slots, without a remainder.
LEMMA SlotSteps ==
  ASSUME NEW cap \in Nat, NEW i \in 0 .. cap
  PROVE  /\ (i + 1) % (cap + 1) = After(cap, i)
         /\ (i + (cap + 1) - 1) % (cap + 1) = Before(cap, i)
         /\ \A s \in 0 .. cap : (s - i) % (cap + 1) = Behind(cap, s, i)
         /\ After(cap, i) \in 0 .. cap /\ Before(cap, i) \in 0 .. cap
<1> DEFINE n == cap + 1
<1>1. /\ n \in Nat \ {0} /\ After(cap, i) \in 0 .. n - 1 /\ Before(cap, i) \in 0 .. n - 1
      /\ \A s \in 0 .. cap : Behind(cap, s, i) \in 0 .. n - 1
      /\ 0 .. n - 1 = 0 .. cap
  BY DEF After, Before, Behind
<1>2. (i + 1) % n = After(cap, i)
  <2>1. i + 1 \in Int /\ (i + 1 = After(cap, i) \/ i + 1 = After(cap, i) + n)
    BY DEF After
  <2> HIDE DEF n
  <2> QED
    BY <1>1, <2>1, RemainderIs
<1>3. (i + (cap + 1) - 1) % n = Before(cap, i)
  <2> DEFINE a == i + (cap + 1) - 1
  <2>1. a \in Int /\ (a = Before(cap, i) \/ a = Before(cap, i) + n)
    BY DEF Before
  <2> HIDE DEF n, a
  <2>2. a % n = Before(cap, i)
    BY <1>1, <2>1, RemainderIs
  <2> QED
    BY <2>2 DEF a
<1>4. ASSUME NEW s \in 0 .. cap PROVE (s - i) % n = Behind(cap, s, i)
  <2> DEFINE a == s - i
  <2>1. /\ a \in Int /\ Behind(cap, s, i) \in 0 .. n - 1
        /\ a = Behind(cap, s, i) \/ a = Behind(cap, s, i) - n
    BY <1>1 DEF Behind
  <2> HIDE DEF n, a
  <2>2. a % n = Behind(cap, s, i)
    BY <1>1, <2>1, RemainderIs
  <2> QED
    BY <2>2 DEF a
<1> QED
  BY <1>1, <1>2, <1>3, <1>4

\* The types, without the instance.
LEMMA LockFreeTypes ==
  ASSUME NEW producers, NEW consumers, NEW cap \in Nat
  PROVE  LockFree(producers, consumers, cap)!TypeOK <=>
           /\ lbuffer \in [0 .. cap -> BOOLEAN]
           /\ lwrite \in 0 .. cap /\ lwritable \in 0 .. cap
           /\ lread \in 0 .. cap /\ lreadable \in 0 .. cap
           /\ lpc \in [producers \union consumers ->
                         {"load", "bound", "claim", "move", "look", "publish"}]
           /\ lslot \in [producers \union consumers -> 0 .. cap]
           /\ llimit \in [producers \union consumers -> 0 .. cap]
  BY DEF LockFree!TypeOK, LockFree!Slot, LockFree!Thread

\* A new lock-free ring is empty.
LEMMA PairStart ==
  ASSUME NEW cap \in Nat, Producer # Consumer, LockFree({Producer}, {Consumer}, cap)!Init
  PROVE  PairInv(cap)
<1>1. /\ lbuffer = [s \in 0 .. cap |-> FALSE]
      /\ lwrite = 0 /\ lread = 0 /\ lreadable = 0 /\ lwritable = cap
      /\ lpc = [t \in {Producer, Consumer} |-> "load"]
      /\ lslot = [t \in {Producer, Consumer} |-> 0]
      /\ llimit = [t \in {Producer, Consumer} |-> 0]
  BY DEF LockFree!Init, LockFree!Slot, LockFree!Thread, LockFree!capacity_
<1>2. LockFree({Producer}, {Consumer}, cap)!TypeOK
  BY <1>1, LockFreeTypes
<1> QED
  BY <1>1, <1>2 DEF PairInv, PairPush, PairPop, PairRoom, PairStored, Pushing, Popping,
                    Held, Behind, Before, After, One

\* What the steps of the producer do ...
LEMMA ProducerStep ==
  ASSUME NEW cap \in Nat, Producer # Consumer, PairInv(cap),
         LockFree({Producer}, {Consumer}, cap)!Load(Producer)
         \/ LockFree({Producer}, {Consumer}, cap)!Bound(Producer)
         \/ LockFree({Producer}, {Consumer}, cap)!ClaimFails(Producer)
         \/ LockFree({Producer}, {Consumer}, cap)!ClaimWrite(Producer)
         \/ LockFree({Producer}, {Consumer}, cap)!Store(Producer)
         \/ LockFree({Producer}, {Consumer}, cap)!Look(Producer)
         \/ LockFree({Producer}, {Consumer}, cap)!PublishWrite(Producer)
  PROVE  PairInv(cap)'
<1> DEFINE P == Producer  C == Consumer
<1>1. /\ lbuffer \in [0 .. cap -> BOOLEAN]
      /\ lwrite \in 0 .. cap /\ lwritable \in 0 .. cap
      /\ lread \in 0 .. cap /\ lreadable \in 0 .. cap
      /\ lpc \in [{P, C} -> {"load", "bound", "claim", "move", "look", "publish"}]
      /\ lslot \in [{P, C} -> 0 .. cap]
      /\ llimit \in [{P, C} -> 0 .. cap]
      /\ P # C
  <2>1. {P} \union {C} = {P, C}
    OBVIOUS
  <2> QED
    BY <2>1, LockFreeTypes DEF PairInv
<1>2. /\ PairPush(cap) /\ PairPop(cap) /\ PairRoom(cap) /\ PairStored(cap)
  BY DEF PairInv
<1>3. /\ UNCHANGED <<lread, lwritable>> /\ lpc'[C] = lpc[C] /\ lslot'[C] = lslot[C]
      /\ llimit'[C] = llimit[C]
      /\ lpc' = [lpc EXCEPT ![P] = lpc'[P]]
      /\ lslot' = [lslot EXCEPT ![P] = lslot'[P]]
      /\ llimit' = [llimit EXCEPT ![P] = llimit'[P]]
  <2>1. /\ UNCHANGED <<lread, lwritable>>
        /\ \E v : lpc' = [lpc EXCEPT ![P] = v]
        /\ \E v : lslot' = [lslot EXCEPT ![P] = v]
        /\ \E v : llimit' = [llimit EXCEPT ![P] = v]
    <3>1. /\ lpc = [lpc EXCEPT ![P] = lpc[P]]
          /\ lslot = [lslot EXCEPT ![P] = lslot[P]]
          /\ llimit = [llimit EXCEPT ![P] = llimit[P]]
      BY <1>1
    <3> QED
      BY <3>1 DEF LockFree!Load, LockFree!Bound, LockFree!ClaimFails, LockFree!ClaimWrite,
              LockFree!Store, LockFree!Look, LockFree!PublishWrite, LockFree!Go
  <2> QED
    BY <1>1, <2>1
<1>4. \/ /\ lpc[P] = "load" /\ lpc'[P] = "bound" /\ lslot'[P] = lwrite
         /\ UNCHANGED <<lbuffer, lwrite, lreadable, llimit>>
      \/ /\ lpc[P] = "bound" /\ lpc'[P] = (IF lslot[P] = lwritable THEN "load" ELSE "claim")
         /\ llimit'[P] = lwritable
         /\ UNCHANGED <<lbuffer, lwrite, lreadable, lslot>>
      \/ /\ lpc[P] = "claim" /\ lpc'[P] = "move" /\ lwrite' = After(cap, lwrite)
         /\ UNCHANGED <<lbuffer, lreadable, lslot, llimit>>
      \/ /\ lpc[P] = "move" /\ lpc'[P] = "look"
         /\ lbuffer' = [lbuffer EXCEPT ![lreadable] = TRUE]
         /\ UNCHANGED <<lwrite, lreadable, lslot, llimit>>
      \/ /\ lpc[P] = "look" /\ lpc'[P] = "publish" /\ llimit'[P] = lreadable
         /\ UNCHANGED <<lbuffer, lwrite, lreadable, lslot>>
      \/ /\ lpc[P] = "publish" /\ lpc'[P] = "load" /\ lreadable' = After(cap, lreadable)
         /\ UNCHANGED <<lbuffer, lwrite, lslot, llimit>>
  <2>1. CASE LockFree({P}, {C}, cap)!Load(P)
    BY <1>1, <2>1 DEF LockFree!Load, LockFree!Go
  <2>2. CASE LockFree({P}, {C}, cap)!Bound(P)
    BY <1>1, <2>2 DEF LockFree!Bound, LockFree!Go
  <2>3. CASE LockFree({P}, {C}, cap)!ClaimFails(P)
    BY <1>1, <1>2, <2>3 DEF LockFree!ClaimFails, LockFree!Go, PairPush
  <2>4. CASE LockFree({P}, {C}, cap)!ClaimWrite(P)
    <3>1. (lwrite + 1) % (cap + 1) = After(cap, lwrite)
      BY <1>1, SlotSteps
    <3> QED
      BY <1>1, <2>4, <3>1 DEF LockFree!ClaimWrite, LockFree!Go, LockFree!mod, LockFree!capacity_
  <2>5. CASE LockFree({P}, {C}, cap)!Store(P)
    BY <1>1, <1>2, <2>5 DEF LockFree!Store, LockFree!Go, PairPush, Pushing
  <2>6. CASE LockFree({P}, {C}, cap)!Look(P)
    BY <1>1, <2>6 DEF LockFree!Look, LockFree!Go
  <2>7. CASE LockFree({P}, {C}, cap)!PublishWrite(P)
    <3>1. (lreadable + 1) % (cap + 1) = After(cap, lreadable)
      BY <1>1, SlotSteps
    <3>2. lpc[P] = "publish" /\ lslot[P] = lreadable /\ llimit[P] = lreadable
      BY <1>1, <1>2, <2>7 DEF LockFree!PublishWrite, LockFree!Go, PairPush, Pushing
    <3> QED
      BY <1>1, <2>7, <3>1, <3>2 DEF LockFree!PublishWrite, LockFree!Go, LockFree!mod, LockFree!capacity_
  <2> QED
    BY <2>1, <2>2, <2>3, <2>4, <2>5, <2>6, <2>7
<1>5. LockFree({P}, {C}, cap)!TypeOK'
  <2>1. After(cap, lwrite) \in 0 .. cap /\ After(cap, lreadable) \in 0 .. cap
    BY <1>1, SlotSteps
  <2>2. /\ lbuffer' \in [0 .. cap -> BOOLEAN]
      /\ lwrite' \in 0 .. cap /\ lwritable' \in 0 .. cap
      /\ lread' \in 0 .. cap /\ lreadable' \in 0 .. cap
    BY <1>1, <1>3, <1>4, <2>1
  <2>3. lpc'[P] \in {"load", "bound", "claim", "move", "look", "publish"}
    BY <1>4
  <2>4. lslot'[P] \in 0 .. cap /\ llimit'[P] \in 0 .. cap
    BY <1>1, <1>4
  <2>5. /\ lpc' \in [{P, C} -> {"load", "bound", "claim", "move", "look", "publish"}]
      /\ lslot' \in [{P, C} -> 0 .. cap]
      /\ llimit' \in [{P, C} -> 0 .. cap]
    BY <1>1, <1>3, <2>3, <2>4
  <2> QED
    BY <2>2, <2>5 DEF LockFree!TypeOK, LockFree!Slot, LockFree!Thread
<1>6. PairPush(cap)'
  <2>1. lwrite' = (IF Pushing THEN After(cap, lreadable) ELSE lreadable)'
    BY <1>1, <1>2, <1>4 DEF PairPush, Pushing
  <2>2. lpc'[P] \in {"bound", "claim"} => lslot'[P] = lwrite'
    BY <1>1, <1>2, <1>4 DEF PairPush
  <2>3. lpc'[P] = "claim" => Held(cap)' + One(Popping') < cap
    <3> HAVE lpc'[P] = "claim"
    <3>1. /\ lpc[P] = "bound" /\ lslot[P] # lwritable /\ UNCHANGED <<lread, lreadable>>
          /\ Popping' = Popping
      BY <1>3, <1>4 DEF Popping
    <3>2. lreadable # lwritable
      BY <1>2, <3>1 DEF PairPush, Pushing
    <3>3. Held(cap) + One(Popping) < cap
      BY SMTT(30), <1>1, <1>2, <3>2 DEF PairPop, PairRoom, Held, One, Behind, Before
    <3> QED
      BY <3>1, <3>3 DEF Held
  <2>4. Pushing' => lslot'[P] = lreadable'
    BY <1>1, <1>2, <1>4 DEF PairPush, Pushing
  <2>5. lpc'[P] = "publish" => llimit'[P] = lreadable'
    BY <1>1, <1>2, <1>4 DEF PairPush
  <2> QED
    BY <2>1, <2>2, <2>3, <2>4, <2>5 DEF PairPush
<1>7. PairPop(cap)'
  BY SMTT(30), <1>1, <1>2, <1>3, <1>4 DEF PairPush, PairPop, PairRoom, Pushing, Popping, Held, One,
     Behind, Before, After
<1>8. PairRoom(cap)'
  BY SMTT(30), <1>1, <1>2, <1>3, <1>4 DEF PairPush, PairPop, PairRoom, Pushing, Popping, Held, One,
     Behind, Before, After
<1>9. PairStored(cap)'
  <2> SUFFICES ASSUME NEW s \in 0 .. cap
               PROVE  lbuffer'[s] <=>
          Behind(cap, s, IF lpc'[C] = "move" THEN Before(cap, lread') ELSE lread')
            < Held(cap)' + One(lpc'[C] = "move") + One(lpc'[P] \in {"look", "publish"})
    BY DEF PairStored
  <2>1. lbuffer[s] <=>
          Behind(cap, s, IF lpc[C] = "move" THEN Before(cap, lread) ELSE lread)
            < Held(cap) + One(lpc[C] = "move") + One(lpc[P] \in {"look", "publish"})
    BY <1>2 DEF PairStored
  <2>2. CASE lpc[P] = "move"
    BY <1>1, <1>2, <1>3, <1>4, <2>1, <2>2 DEF PairRoom, Pushing, Popping, Held, One,
       Behind, Before, After
  <2>3. CASE lpc[P] = "publish"
    <3>1. /\ UNCHANGED <<lbuffer, lread>> /\ lreadable' = After(cap, lreadable)
          /\ lpc'[C] = lpc[C] /\ lpc'[P] = "load"
      BY <1>3, <1>4, <2>3
    <3>2. Held(cap) + 1 <= cap
      BY <1>1, <1>2, <2>3 DEF PairRoom, Pushing, Popping, Held, One, Behind
    <3>3. Held(cap)' = Held(cap) + 1
      BY <1>1, <3>1, <3>2 DEF Held, Behind, After
    <3>4. /\ One(lpc[P] \in {"look", "publish"}) = 1
          /\ One(lpc'[P] \in {"look", "publish"}) = 0
      BY <2>3, <3>1 DEF One
    <3>5. Held(cap) \in Nat /\ One(lpc[C] = "move") \in Nat
      BY <1>1 DEF Held, One, Behind
    <3> QED
      BY <2>1, <3>1, <3>3, <3>4, <3>5
  <2>4. CASE lpc[P] # "move" /\ lpc[P] # "publish"
    <3>1. UNCHANGED <<lbuffer, lread, lreadable>> /\ lpc'[C] = lpc[C]
      BY <1>3, <1>4, <2>4
    <3>2. lpc'[P] \in {"look", "publish"} <=> lpc[P] \in {"look", "publish"}
      BY <1>4, <2>4
    <3> QED
      BY <2>1, <3>1, <3>2 DEF Held, One
  <2> QED
    BY <2>2, <2>3, <2>4
<1> QED
  BY <1>5, <1>6, <1>7, <1>8, <1>9 DEF PairInv

\* ... and those of the consumer.
LEMMA ConsumerStep ==
  ASSUME NEW cap \in Nat, Producer # Consumer, PairInv(cap),
         LockFree({Producer}, {Consumer}, cap)!Load(Consumer)
         \/ LockFree({Producer}, {Consumer}, cap)!Bound(Consumer)
         \/ LockFree({Producer}, {Consumer}, cap)!ClaimFails(Consumer)
         \/ LockFree({Producer}, {Consumer}, cap)!ClaimRead(Consumer)
         \/ LockFree({Producer}, {Consumer}, cap)!Look(Consumer)
         \/ LockFree({Producer}, {Consumer}, cap)!Take(Consumer)
         \/ LockFree({Producer}, {Consumer}, cap)!PublishRead(Consumer)
  PROVE  PairInv(cap)'
<1> DEFINE P == Producer  C == Consumer
<1>1. /\ lbuffer \in [0 .. cap -> BOOLEAN]
      /\ lwrite \in 0 .. cap /\ lwritable \in 0 .. cap
      /\ lread \in 0 .. cap /\ lreadable \in 0 .. cap
      /\ lpc \in [{P, C} -> {"load", "bound", "claim", "move", "look", "publish"}]
      /\ lslot \in [{P, C} -> 0 .. cap]
      /\ llimit \in [{P, C} -> 0 .. cap]
      /\ P # C
  <2>1. {P} \union {C} = {P, C}
    OBVIOUS
  <2> QED
    BY <2>1, LockFreeTypes DEF PairInv
<1>2. /\ PairPush(cap) /\ PairPop(cap) /\ PairRoom(cap) /\ PairStored(cap)
  BY DEF PairInv
<1>3. /\ UNCHANGED <<lwrite, lreadable>> /\ lpc'[P] = lpc[P] /\ lslot'[P] = lslot[P]
      /\ llimit'[P] = llimit[P]
      /\ lpc' = [lpc EXCEPT ![C] = lpc'[C]]
      /\ lslot' = [lslot EXCEPT ![C] = lslot'[C]]
      /\ llimit' = [llimit EXCEPT ![C] = llimit'[C]]
  <2>1. /\ UNCHANGED <<lwrite, lreadable>>
        /\ \E v : lpc' = [lpc EXCEPT ![C] = v]
        /\ \E v : lslot' = [lslot EXCEPT ![C] = v]
        /\ \E v : llimit' = [llimit EXCEPT ![C] = v]
    <3>1. /\ lpc = [lpc EXCEPT ![C] = lpc[C]]
          /\ lslot = [lslot EXCEPT ![C] = lslot[C]]
          /\ llimit = [llimit EXCEPT ![C] = llimit[C]]
      BY <1>1
    <3> QED
      BY <3>1 DEF LockFree!Load, LockFree!Bound, LockFree!ClaimFails, LockFree!ClaimRead,
              LockFree!Take, LockFree!Look, LockFree!PublishRead, LockFree!Go
  <2> QED
    BY <1>1, <2>1
<1>4. \/ /\ lpc[C] = "load" /\ lpc'[C] = "bound" /\ lslot'[C] = lread
         /\ UNCHANGED <<lbuffer, lread, lwritable, llimit>>
      \/ /\ lpc[C] = "bound" /\ lpc'[C] = (IF lslot[C] = lreadable THEN "load" ELSE "claim")
         /\ llimit'[C] = lreadable
         /\ UNCHANGED <<lbuffer, lread, lwritable, lslot>>
      \/ /\ lpc[C] = "claim" /\ lpc'[C] = "move" /\ lread' = After(cap, lread)
         /\ UNCHANGED <<lbuffer, lwritable, lslot, llimit>>
      \/ /\ lpc[C] = "move" /\ lpc'[C] = "publish"
         /\ lbuffer' = [lbuffer EXCEPT ![Before(cap, lread)] = FALSE]
         /\ llimit'[C] = Before(cap, lread) /\ lslot'[C] = Before(cap, Before(cap, lread))
         /\ UNCHANGED <<lread, lwritable>>
      \/ /\ lpc[C] = "publish" /\ lpc'[C] = "load" /\ lwritable' = Before(cap, lread)
         /\ UNCHANGED <<lbuffer, lread, lslot, llimit>>
  <2>1. CASE LockFree({P}, {C}, cap)!Load(C)
    BY <1>1, <2>1 DEF LockFree!Load, LockFree!Go
  <2>2. CASE LockFree({P}, {C}, cap)!Bound(C)
    BY <1>1, <2>2 DEF LockFree!Bound, LockFree!Go
  <2>3. CASE LockFree({P}, {C}, cap)!ClaimFails(C)
    BY <1>1, <1>2, <2>3 DEF LockFree!ClaimFails, LockFree!Go, PairPop
  <2>4. CASE LockFree({P}, {C}, cap)!ClaimRead(C)
    <3>1. (lread + 1) % (cap + 1) = After(cap, lread)
      BY <1>1, SlotSteps
    <3> QED
      BY <1>1, <2>4, <3>1 DEF LockFree!ClaimRead, LockFree!Go, LockFree!mod, LockFree!capacity_
  <2>5. CASE LockFree({P}, {C}, cap)!Take(C)
    <3> DEFINE i == Before(cap, lread)
    <3>1. lpc[C] = "move" /\ lslot[C] = i /\ i \in 0 .. cap
      BY <1>1, <1>2, <2>5, SlotSteps DEF LockFree!Take, LockFree!Go, PairPop
    <3> HIDE DEF i
    <3>2. (i + (cap + 1) - 1) % (cap + 1) = Before(cap, i)
      BY <3>1, SlotSteps
    <3>3. /\ lpc' = [lpc EXCEPT ![C] = "publish"]
          /\ lbuffer' = [lbuffer EXCEPT ![i] = FALSE]
          /\ llimit' = [llimit EXCEPT ![C] = i]
          /\ lslot' = [lslot EXCEPT ![C] = Before(cap, i)]
          /\ UNCHANGED <<lread, lwritable>>
      BY <2>5, <3>1, <3>2 DEF LockFree!Take, LockFree!Go, LockFree!mod, LockFree!capacity_
    <3> QED
      BY <1>1, <3>1, <3>3 DEF i
  <2>6. CASE LockFree({P}, {C}, cap)!Look(C)
    BY <1>1, <1>2, <2>6 DEF LockFree!Look, LockFree!Go, PairPop
  <2>7. CASE LockFree({P}, {C}, cap)!PublishRead(C)
    <3>1. lpc[C] = "publish" /\ lslot[C] = lwritable /\ llimit[C] = Before(cap, lread)
      BY <1>1, <1>2, <2>7 DEF LockFree!PublishRead, LockFree!Go, PairPop
    <3> QED
      BY <1>1, <2>7, <3>1 DEF LockFree!PublishRead, LockFree!Go
  <2> QED
    BY <2>1, <2>2, <2>3, <2>4, <2>5, <2>6, <2>7
<1>5. LockFree({P}, {C}, cap)!TypeOK'
  <2>1. /\ After(cap, lread) \in 0 .. cap /\ Before(cap, lread) \in 0 .. cap
        /\ Before(cap, Before(cap, lread)) \in 0 .. cap
    BY <1>1, SlotSteps
  <2>2. /\ lbuffer' \in [0 .. cap -> BOOLEAN]
      /\ lwrite' \in 0 .. cap /\ lwritable' \in 0 .. cap
      /\ lread' \in 0 .. cap /\ lreadable' \in 0 .. cap
    BY <1>1, <1>3, <1>4, <2>1
  <2>3. lpc'[C] \in {"load", "bound", "claim", "move", "look", "publish"}
    BY <1>4
  <2>4. lslot'[C] \in 0 .. cap /\ llimit'[C] \in 0 .. cap
    BY <1>1, <1>4, <2>1
  <2>5. /\ lpc' \in [{P, C} -> {"load", "bound", "claim", "move", "look", "publish"}]
      /\ lslot' \in [{P, C} -> 0 .. cap]
      /\ llimit' \in [{P, C} -> 0 .. cap]
    BY <1>1, <1>3, <2>3, <2>4
  <2> QED
    BY <2>2, <2>5 DEF LockFree!TypeOK, LockFree!Slot, LockFree!Thread
<1>6. /\ Held(cap)' + One(Popping') <= Held(cap) + One(Popping)
      /\ Held(cap) \in Int /\ Held(cap)' \in Int /\ One(Popping) \in Int
      /\ One(Popping') \in Int /\ One(Pushing) \in Int
  <2>1. lread' \in 0 .. cap
    BY <1>1, <1>4, SlotSteps
  <2>2. CASE lpc[C] = "claim"
    <3>1. Held(cap)' = Held(cap) - 1 /\ One(Popping) = 0 /\ One(Popping') = 1
      BY <1>1, <1>2, <1>3, <1>4, <2>2 DEF PairPop, Held, One, Behind, After, Popping
    <3> QED
      BY <1>1, <3>1 DEF Held, Behind, One
  <2>3. CASE lpc[C] # "claim"
    BY SMTT(30), <1>1, <1>3, <1>4, <2>3 DEF Held, One, Behind, Popping
  <2> QED
    BY <1>1, <1>3, <2>1, <2>2, <2>3 DEF Held, One, Behind
<1>10. PairPush(cap)' /\ PairRoom(cap)'
  BY <1>2, <1>3, <1>6 DEF PairPush, PairRoom, Pushing
<1>7. PairPop(cap)'
  <2>1. lpc'[C] # "look"
    BY <1>4
  <2>2. lwritable' = (IF Popping THEN Before(cap, Before(cap, lread)) ELSE Before(cap, lread))'
    BY <1>1, <1>2, <1>4 DEF PairPop, Popping, Before, After
  <2>3. lpc'[C] \in {"bound", "claim"} => lslot'[C] = lread'
    BY <1>1, <1>2, <1>4 DEF PairPop
  <2>4. lpc'[C] = "claim" => Held(cap)' > 0
    BY <1>1, <1>2, <1>3, <1>4 DEF PairPop, Held, Behind
  <2>5. lpc'[C] = "move" => lslot'[C] = Before(cap, lread')
    BY <1>1, <1>2, <1>4 DEF PairPop, Before, After
  <2>6. lpc'[C] = "publish" => llimit'[C] = Before(cap, lread') /\ lslot'[C] = lwritable'
    BY <1>1, <1>2, <1>4 DEF PairPop, Popping
  <2> QED
    BY <2>1, <2>2, <2>3, <2>4, <2>5, <2>6 DEF PairPop
<1>9. PairStored(cap)'
  <2> SUFFICES ASSUME NEW s \in 0 .. cap
               PROVE  lbuffer'[s] <=>
          Behind(cap, s, IF lpc'[C] = "move" THEN Before(cap, lread') ELSE lread')
            < Held(cap)' + One(lpc'[C] = "move") + One(lpc'[P] \in {"look", "publish"})
    BY DEF PairStored
  <2>1. lbuffer[s] <=>
          Behind(cap, s, IF lpc[C] = "move" THEN Before(cap, lread) ELSE lread)
            < Held(cap) + One(lpc[C] = "move") + One(lpc[P] \in {"look", "publish"})
    BY <1>2 DEF PairStored
  <2>0. /\ Held(cap) \in Nat /\ One(lpc[P] \in {"look", "publish"}) \in 0 .. 1
        /\ Held(cap) + One(lpc[P] \in {"look", "publish"}) + One(Popping) <= cap
    BY <1>1, <1>2 DEF PairRoom, Pushing, Held, One, Behind, Popping
  <2>2. CASE lpc[C] = "claim"
    <3>1. /\ UNCHANGED <<lbuffer, lreadable>> /\ lread' = After(cap, lread)
          /\ lpc'[P] = lpc[P] /\ lpc'[C] = "move"
      BY <1>3, <1>4, <2>2
    <3>2. Held(cap)' = Held(cap) - 1
      BY <1>1, <1>2, <2>2, <3>1 DEF PairPop, Held, Behind, After
    <3>3. Before(cap, lread') = lread
      BY <1>1, <3>1 DEF Before, After
    <3>4. One(lpc[C] = "move") = 0 /\ One(lpc'[C] = "move") = 1
      BY <2>2, <3>1 DEF One
    <3> QED
      BY <2>0, <2>1, <2>2, <3>1, <3>2, <3>3, <3>4
  <2>3. CASE lpc[C] = "move"
    <3> DEFINE i == Before(cap, lread)
    <3>1. /\ UNCHANGED <<lread, lreadable>> /\ lbuffer' = [lbuffer EXCEPT ![i] = FALSE]
          /\ lpc'[P] = lpc[P] /\ lpc'[C] = "publish"
      BY <1>3, <1>4, <2>3
    <3>2. One(lpc[C] = "move") = 1 /\ One(lpc'[C] = "move") = 0 /\ One(Popping) = 1
      BY <2>3, <3>1 DEF One, Popping
    <3>3. Held(cap)' = Held(cap)
      BY <3>1 DEF Held
    <3> DEFINE k == Held(cap) + One(lpc[P] \in {"look", "publish"})
    <3>4. k \in Nat /\ k < cap
      BY <2>0, <3>2
    <3>5. lbuffer[s] <=> Behind(cap, s, i) < k + 1
      BY <2>0, <2>1, <2>3, <3>2
    <3>6. /\ s # i => Behind(cap, s, lread) = Behind(cap, s, i) - 1
                       /\ Behind(cap, s, i) \in Nat
          /\ s = i => Behind(cap, s, lread) = cap
          /\ i \in 0 .. cap
      BY <1>1 DEF Behind, Before
    <3> HIDE DEF i
    <3>7. lbuffer'[s] <=> Behind(cap, s, lread) < k
      <4> HIDE DEF k
      <4>1. CASE s = i
        BY <1>1, <3>1, <3>4, <3>6, <4>1
      <4>2. CASE s # i
        <5>1. lbuffer'[s] <=> Behind(cap, s, i) < k + 1
          BY <1>1, <3>1, <3>5, <4>2
        <5> QED
          BY <3>4, <3>6, <4>2, <5>1
      <4> QED
        BY <4>1, <4>2
    <3> QED
      BY <2>0, <3>1, <3>2, <3>3, <3>7
  <2>4. CASE lpc[C] # "move" /\ lpc[C] # "claim"
    <3>1. UNCHANGED <<lbuffer, lread, lreadable>> /\ lpc'[P] = lpc[P]
      BY <1>3, <1>4, <2>4
    <3>2. lpc'[C] # "move"
      BY <1>4, <2>4
    <3> QED
      BY <2>1, <2>4, <3>1, <3>2 DEF Held, One
  <2> QED
    BY <2>2, <2>3, <2>4
<1> QED
  BY <1>5, <1>7, <1>9, <1>10 DEF PairInv

\* What the counts mean for the two promises.
LEMMA PairSafe ==
  ASSUME NEW cap \in Nat, Producer # Consumer, PairInv(cap)
  PROVE  /\ LockFree({Producer}, {Consumer}, cap)!NoOverwrite
         /\ LockFree({Producer}, {Consumer}, cap)!ReadableStored
<1>1. /\ lbuffer \in [0 .. cap -> BOOLEAN]
      /\ lread \in 0 .. cap /\ lreadable \in 0 .. cap
  BY LockFreeTypes DEF PairInv
<1>2. \A s \in 0 .. cap : lbuffer[s] <=>
        Behind(cap, s, IF lpc[Consumer] = "move" THEN Before(cap, lread) ELSE lread)
          < Held(cap) + One(lpc[Consumer] = "move")
              + One(lpc[Producer] \in {"look", "publish"})
  BY DEF PairInv, PairStored
<1>3. PairRoom(cap) /\ PairPush(cap)
  BY DEF PairInv
<1>4. LockFree({Producer}, {Consumer}, cap)!NoOverwrite
  <2> SUFFICES ASSUME lpc[Producer] = "move" PROVE ~ lbuffer[lslot[Producer]]
    BY DEF LockFree!NoOverwrite
  <2>1. lslot[Producer] = lreadable
    BY <1>3 DEF PairPush, Pushing
  <2>2. Held(cap) + One(lpc[Consumer] = "move") < cap
    BY <1>1, <1>3 DEF PairRoom, Pushing, Popping, One, Held, Behind
  <2>3. ~ lbuffer[lreadable]
    BY <1>1, <1>2, <2>2 DEF Held, Behind, Before, One
  <2> QED
    BY <2>1, <2>3
<1>5. LockFree({Producer}, {Consumer}, cap)!ReadableStored
  <2> SUFFICES ASSUME NEW s \in 0 .. cap,
                      Behind(cap, s, lread) < Behind(cap, lreadable, lread)
               PROVE  lbuffer[s]
    <3>1. \A i \in 0 .. cap : (i - lread) % (cap + 1) = Behind(cap, i, lread)
      BY <1>1, SlotSteps
    <3> QED
      BY <1>1, <3>1 DEF LockFree!ReadableStored, LockFree!Slot, LockFree!mod,
                        LockFree!capacity_
  <2>1. Held(cap) + One(lpc[Consumer] = "move") <= cap
    BY <1>1, <1>3 DEF PairRoom, Pushing, Popping, One, Held, Behind
  <2> QED
    BY <1>1, <1>2, <2>1 DEF Held, Behind, Before, One
<1> QED
  BY <1>4, <1>5

\* Without a consumer, at first.
LEMMA AloneStart ==
  ASSUME NEW cap \in Nat, LockFree(Producers, {}, cap)!Init
  PROVE  AloneInv(cap)
<1>1. /\ lbuffer = [s \in 0 .. cap |-> FALSE]
      /\ lwrite = 0 /\ lread = 0 /\ lreadable = 0 /\ lwritable = cap
      /\ lpc = [t \in Producers \union {} |-> "load"]
      /\ lslot = [t \in Producers \union {} |-> 0]
      /\ llimit = [t \in Producers \union {} |-> 0]
  BY DEF LockFree!Init, LockFree!Slot, LockFree!Thread, LockFree!capacity_
<1>2. LockFree(Producers, {}, cap)!TypeOK
  BY <1>1, LockFreeTypes
<1> QED
  BY <1>1, <1>2 DEF AloneInv

\* No slot is claimed twice: whoever claims write_ advances it.
LEMMA AloneStep ==
  ASSUME NEW cap \in Nat, AloneInv(cap), LockFree(Producers, {}, cap)!Next
  PROVE  AloneInv(cap)'
<1>1. /\ lbuffer \in [0 .. cap -> BOOLEAN]
      /\ lwrite \in 0 .. cap /\ lwritable = cap
      /\ lread \in 0 .. cap /\ lreadable \in 0 .. cap
      /\ lpc \in [Producers -> {"load", "bound", "claim", "move", "look", "publish"}]
      /\ lslot \in [Producers -> 0 .. cap]
      /\ llimit \in [Producers -> 0 .. cap]
  <2>1. Producers \union {} = Producers
    OBVIOUS
  <2> QED
    BY <2>1, LockFreeTypes DEF AloneInv
<1>2. /\ \A s \in 0 .. cap : lbuffer[s] => s < lwrite
      /\ \A t \in Producers :
           /\ lpc[t] = "claim" => lslot[t] # cap
           /\ lpc[t] = "move" => lslot[t] < lwrite /\ ~ lbuffer[lslot[t]]
      /\ \A t, u \in Producers :
           lpc[t] = "move" /\ lpc[u] = "move" /\ lslot[t] = lslot[u] => t = u
  BY DEF AloneInv
<1>3. PICK t \in Producers :
        \/ LockFree(Producers, {}, cap)!Load(t)
        \/ LockFree(Producers, {}, cap)!Bound(t)
        \/ LockFree(Producers, {}, cap)!ClaimFails(t)
        \/ LockFree(Producers, {}, cap)!ClaimWrite(t)
        \/ LockFree(Producers, {}, cap)!Store(t)
        \/ LockFree(Producers, {}, cap)!Look(t)
        \/ LockFree(Producers, {}, cap)!PublishWrite(t)
  BY DEF LockFree!Next, LockFree!Thread, LockFree!ClaimRead, LockFree!Take,
         LockFree!PublishRead
<1>4. CASE LockFree(Producers, {}, cap)!Load(t)
  <2>1. /\ lpc' = [lpc EXCEPT ![t] = "bound"] /\ lslot' = [lslot EXCEPT ![t] = lwrite]
        /\ UNCHANGED <<lbuffer, lwrite, lwritable, lread, lreadable, llimit>>
    BY <1>4 DEF LockFree!Load, LockFree!Go
  <2>2. LockFree(Producers, {}, cap)!TypeOK'
    BY <1>1, <2>1 DEF LockFree!TypeOK, LockFree!Slot, LockFree!Thread
  <2> QED
    BY <1>1, <1>2, <2>1, <2>2 DEF AloneInv
<1>5. CASE LockFree(Producers, {}, cap)!Bound(t)
  <2>1. /\ lpc' = [lpc EXCEPT ![t] = IF lslot[t] = cap THEN "load" ELSE "claim"]
        /\ llimit' = [llimit EXCEPT ![t] = cap]
        /\ UNCHANGED <<lbuffer, lwrite, lwritable, lread, lreadable, lslot>>
    BY <1>1, <1>5 DEF LockFree!Bound, LockFree!Go
  <2>2. LockFree(Producers, {}, cap)!TypeOK'
    BY <1>1, <2>1 DEF LockFree!TypeOK, LockFree!Slot, LockFree!Thread
  <2> QED
    BY <1>1, <1>2, <2>1, <2>2 DEF AloneInv
<1>6. CASE LockFree(Producers, {}, cap)!ClaimFails(t)
  <2>1. /\ lpc' = [lpc EXCEPT ![t] = "load"]
        /\ UNCHANGED <<lbuffer, lwrite, lwritable, lread, lreadable, lslot, llimit>>
    BY <1>6 DEF LockFree!ClaimFails, LockFree!Go
  <2>2. LockFree(Producers, {}, cap)!TypeOK'
    BY <1>1, <2>1 DEF LockFree!TypeOK, LockFree!Slot, LockFree!Thread
  <2> QED
    BY <1>1, <1>2, <2>1, <2>2 DEF AloneInv
<1>7. CASE LockFree(Producers, {}, cap)!ClaimWrite(t)
  <2>1. /\ lpc[t] = "claim" /\ lslot[t] = lwrite /\ lwrite # cap
        /\ lpc' = [lpc EXCEPT ![t] = "move"]
        /\ UNCHANGED <<lbuffer, lwritable, lread, lreadable, lslot, llimit>>
        /\ lwrite' = (lwrite + 1) % (cap + 1)
    BY <1>1, <1>2, <1>7 DEF LockFree!ClaimWrite, LockFree!Go, LockFree!mod,
                           LockFree!capacity_
  <2>2. lwrite' = lwrite + 1 /\ lwrite' \in 0 .. cap
    <3>1. (lwrite + 1) % (cap + 1) = After(cap, lwrite)
      BY <1>1, SlotSteps
    <3> QED
      BY <1>1, <2>1, <3>1 DEF After
  <2>3. LockFree(Producers, {}, cap)!TypeOK'
    BY <1>1, <2>1, <2>2 DEF LockFree!TypeOK, LockFree!Slot, LockFree!Thread
  <2>4. \A s \in 0 .. cap : lbuffer'[s] => s < lwrite'
    BY <1>1, <1>2, <2>1, <2>2
  <2>5. ASSUME NEW u \in Producers
        PROVE  /\ lpc'[u] = "claim" => lslot'[u] # cap
               /\ lpc'[u] = "move" => lslot'[u] < lwrite' /\ ~ lbuffer'[lslot'[u]]
    <3>1. lslot[u] \in 0 .. cap /\ UNCHANGED lbuffer /\ lslot'[u] = lslot[u]
      BY <1>1, <2>1
    <3>2. CASE u = t
      <4>1. lpc'[u] = "move" /\ lslot[u] = lwrite
        BY <1>1, <2>1, <3>2
      <4>2. ~ lbuffer[lwrite] /\ lwrite < lwrite'
        BY <1>1, <1>2, <2>2
      <4> QED
        BY <3>1, <4>1, <4>2
    <3>3. CASE u # t
      <4>1. lpc'[u] = lpc[u]
        BY <1>1, <2>1, <3>3
      <4>2. lslot[u] < lwrite => lslot[u] < lwrite'
        BY <1>1, <2>2, <3>1
      <4> QED
        BY <1>2, <3>1, <4>1, <4>2
    <3> QED
      BY <3>2, <3>3
  <2>6. ASSUME NEW u \in Producers, NEW w \in Producers,
               lpc'[u] = "move", lpc'[w] = "move", lslot'[u] = lslot'[w]
        PROVE  u = w
    BY <1>1, <1>2, <2>1, <2>6
  <2> QED
    BY <1>1, <2>1, <2>3, <2>4, <2>5, <2>6 DEF AloneInv
<1>8. CASE LockFree(Producers, {}, cap)!Store(t)
  <2>1. /\ lpc[t] = "move" /\ lpc' = [lpc EXCEPT ![t] = "look"]
        /\ lbuffer' = [lbuffer EXCEPT ![lslot[t]] = TRUE]
        /\ UNCHANGED <<lwrite, lwritable, lread, lreadable, lslot, llimit>>
    BY <1>8 DEF LockFree!Store, LockFree!Go
  <2>2. LockFree(Producers, {}, cap)!TypeOK'
    BY <1>1, <2>1 DEF LockFree!TypeOK, LockFree!Slot, LockFree!Thread
  <2> QED
    BY <1>1, <1>2, <2>1, <2>2 DEF AloneInv
<1>9. CASE LockFree(Producers, {}, cap)!Look(t)
  <2>1. /\ lpc' = [lpc EXCEPT ![t] = "publish"]
        /\ llimit' = [llimit EXCEPT ![t] = lreadable]
        /\ UNCHANGED <<lbuffer, lwrite, lwritable, lread, lreadable, lslot>>
    BY <1>9 DEF LockFree!Look, LockFree!Go
  <2>2. LockFree(Producers, {}, cap)!TypeOK'
    BY <1>1, <2>1 DEF LockFree!TypeOK, LockFree!Slot, LockFree!Thread
  <2> QED
    BY <1>1, <1>2, <2>1, <2>2 DEF AloneInv
<1>10. CASE LockFree(Producers, {}, cap)!PublishWrite(t)
  <2>1. /\ lpc[t] = "publish" /\ UNCHANGED <<lbuffer, lwrite, lwritable, lread, llimit>>
        /\ lpc' = [lpc EXCEPT ![t] = "load"] \/ lpc' = [lpc EXCEPT ![t] = "look"]
        /\ lslot' = lslot \/ lslot' = [lslot EXCEPT ![t] = lreadable]
        /\ lreadable' = lreadable \/ lreadable' = (llimit[t] + 1) % (cap + 1)
    BY <1>10 DEF LockFree!PublishWrite, LockFree!Go, LockFree!mod, LockFree!capacity_
  <2>2. lreadable' \in 0 .. cap
    <3>1. (llimit[t] + 1) % (cap + 1) \in 0 .. cap
      <4> DEFINE i == llimit[t]
      <4>1. i \in 0 .. cap
        BY <1>1
      <4> HIDE DEF i
      <4>2. (i + 1) % (cap + 1) \in 0 .. cap
        BY <4>1, SlotSteps
      <4> QED
        BY <4>2 DEF i
    <3> QED
      BY <1>1, <2>1, <3>1
  <2>3. LockFree(Producers, {}, cap)!TypeOK'
    <3>1. /\ lpc' \in [Producers -> {"load", "bound", "claim", "move", "look", "publish"}]
          /\ lslot' \in [Producers -> 0 .. cap]
      BY <1>1, <2>1
    <3> QED
      BY <1>1, <2>1, <2>2, <3>1 DEF LockFree!TypeOK, LockFree!Slot, LockFree!Thread
  <2>4. lpc'[t] # "claim" /\ lpc'[t] # "move"
    BY <1>1, <2>1
  <2>5. \A u \in Producers : u # t => lpc'[u] = lpc[u] /\ lslot'[u] = lslot[u]
    BY <1>1, <2>1
  <2>6. \A s \in 0 .. cap : lbuffer'[s] => s < lwrite'
    BY <1>2, <2>1
  <2>7. \A u \in Producers :
          /\ lpc'[u] = "claim" => lslot'[u] # cap
          /\ lpc'[u] = "move" => lslot'[u] < lwrite' /\ ~ lbuffer'[lslot'[u]]
    BY <1>2, <2>1, <2>4, <2>5
  <2>8. \A u, w \in Producers :
          lpc'[u] = "move" /\ lpc'[w] = "move" /\ lslot'[u] = lslot'[w] => u = w
    BY <1>2, <2>4, <2>5
  <2> QED
    BY <1>1, <2>1, <2>3, <2>6, <2>7, <2>8 DEF AloneInv
<1> QED
  BY <1>3, <1>4, <1>5, <1>6, <1>7, <1>8, <1>9, <1>10

\* The lock-free ring, whichever of the two steps.
LockFreeInv ==
    IF what = "producers" THEN AloneInv(ProducersCapacity) ELSE PairInv(PairCapacity)

\* The steps of anything else.
LEMMA LockFreeStill ==
  ASSUME NEW cap \in Nat, UNCHANGED lockFreeVars
  PROVE  (AloneInv(cap) => AloneInv(cap)') /\ (PairInv(cap) => PairInv(cap)')
<1>1. \A producers, consumers : LockFree(producers, consumers, cap)!TypeOK =>
        LockFree(producers, consumers, cap)!TypeOK'
  BY DEF lockFreeVars, LockFree!TypeOK, LockFree!Slot, LockFree!Thread
<1> QED
  BY <1>1 DEF lockFreeVars, AloneInv, PairInv, PairPush, PairPop, PairRoom,
     PairStored, Pushing, Popping, Held

\* For every capacity, with one producer and one consumer and with any number of
\* producers: Push stores in a slot that holds nothing, and with one of each every
\* slot of [read_, readable_) holds an object (lock_free_ring_queue.h:40-134).
THEOREM EachSlotOnce == MCSpec => []SlotsExclusive
<1>1. MCInit => LockFreeInv
  BY LockFreeAssumption, PairStart, AloneStart DEF MCInit, LockFreeInv
<1>2. LockFreeInv /\ [MCNext]_mcVars => LockFreeInv'
  <2> SUFFICES ASSUME LockFreeInv, [MCNext]_mcVars PROVE LockFreeInv'
    OBVIOUS
  <2>1. CASE UNCHANGED lockFreeVars /\ UNCHANGED what
    BY <2>1, LockFreeAssumption, LockFreeStill DEF LockFreeInv
  <2>2. CASE what = "pair" /\ UNCHANGED what
             /\ LockFree({Producer}, {Consumer}, PairCapacity)!Next
    <3>1. PairInv(PairCapacity)
      BY <2>2 DEF LockFreeInv
    <3>2. PairInv(PairCapacity)'
      BY <2>2, <3>1, LockFreeAssumption, ProducerStep, ConsumerStep
         DEF LockFree!Next, LockFree!Thread, LockFree!ClaimRead, LockFree!Take,
             LockFree!PublishRead, LockFree!ClaimWrite, LockFree!Store, LockFree!PublishWrite
    <3> QED
      BY <2>2, <3>2 DEF LockFreeInv
  <2>3. CASE what = "producers" /\ UNCHANGED what
             /\ LockFree(Producers, {}, ProducersCapacity)!Next
    BY <2>3, LockFreeAssumption, AloneStep DEF LockFreeInv
  <2> QED
    BY <2>1, <2>2, <2>3 DEF MCNext, mcVars
<1>3. LockFreeInv => SlotsExclusive
  <2>1. AloneInv(ProducersCapacity) => LockFree(Producers, {}, ProducersCapacity)!NoOverwrite
    BY DEF AloneInv, LockFree!NoOverwrite
  <2>2. PairInv(PairCapacity) =>
          /\ LockFree({Producer}, {Consumer}, PairCapacity)!NoOverwrite
          /\ LockFree({Producer}, {Consumer}, PairCapacity)!ReadableStored
    BY LockFreeAssumption, PairSafe
  <2> QED
    BY <2>1, <2>2 DEF LockFreeInv, SlotsExclusive, AloneInv, PairInv
<1> QED
  BY <1>1, <1>2, <1>3, PTL DEF MCSpec
-----------------------------------------------------------------------------
\* The waiters' queue as a sequence.  What next leads along from a node:
Reached == Entry \union {Null}

WalksTo(w, nx, n) ==
    \A k \in 0 .. n : \A m \in Reached :
        w[k][m] = IF k = 0 \/ m = Null THEN <<>> ELSE <<m>> \o w[k - 1][nx[m]]

Walk(nx, n) ==
    LET w[k \in 0 .. Cardinality(Entry)] ==
            [m \in Reached |->
                IF k = 0 \/ m = Null THEN <<>> ELSE <<m>> \o w[k - 1][nx[m]]]
    IN  w[Cardinality(Entry)][n]

LEMMA WalkExists ==
  ASSUME NEW nx \in [Entry \union {Dummy} -> Reached], NEW n \in Nat
  PROVE  \E w \in [0 .. n -> [Reached -> Seq(Entry)]] : WalksTo(w, nx, n)
<1> DEFINE Good == {m \in Nat :
                      \E w \in [0 .. m -> [Reached -> Seq(Entry)]] : WalksTo(w, nx, m)}
<1>1. 0 \in Good
  <2> DEFINE w == [k \in 0 .. 0 |-> [m \in Reached |-> <<>>]]
  <2>1. w \in [0 .. 0 -> [Reached -> Seq(Entry)]]
    BY EmptySeq
  <2>2. WalksTo(w, nx, 0)
    BY DEF WalksTo
  <2> QED
    BY <2>1, <2>2
<1>2. ASSUME NEW k \in Nat, k \in Good PROVE k + 1 \in Good
  <2>1. PICK w \in [0 .. k -> [Reached -> Seq(Entry)]] : WalksTo(w, nx, k)
    BY <1>2
  <2> DEFINE last == [m \in Reached |-> IF m = Null THEN <<>> ELSE <<m>> \o w[k][nx[m]]]
             v == [i \in 0 .. k + 1 |-> IF i <= k THEN w[i] ELSE last]
  <2>2. ASSUME NEW m \in Reached, m # Null
        PROVE  <<m>> \o w[k][nx[m]] \in Seq(Entry)
    <3>1. m \in Entry /\ nx[m] \in Reached
      BY <2>2 DEF Reached
    <3>2. w[k][nx[m]] \in Seq(Entry)
      BY <2>1, <3>1
    <3>3. <<m>> \in Seq(Entry)
      BY <3>1
    <3> QED
      BY <3>2, <3>3, ConcatProperties
  <2>3. last \in [Reached -> Seq(Entry)]
    BY <2>2, EmptySeq
  <2>4. \A m \in Reached : last[m] = IF m = Null THEN <<>> ELSE <<m>> \o w[k][nx[m]]
    OBVIOUS
  <2> HIDE DEF last
  <2>5. v \in [0 .. k + 1 -> [Reached -> Seq(Entry)]]
    BY <2>1, <2>3
  <2>6. v[k + 1] = last /\ \A i \in 0 .. k : v[i] = w[i]
    OBVIOUS
  <2> HIDE DEF v
  <2>7. ASSUME NEW i \in 0 .. k + 1, NEW m \in Reached
        PROVE  v[i][m] = IF i = 0 \/ m = Null THEN <<>> ELSE <<m>> \o v[i - 1][nx[m]]
    <3>1. CASE i <= k
      <4>1. i \in 0 .. k /\ v[i] = w[i] /\ (i # 0 => v[i - 1] = w[i - 1])
        BY <2>6, <3>1
      <4> QED
        BY <2>1, <4>1 DEF WalksTo
    <3>2. CASE i = k + 1
      <4>1. i # 0 /\ v[i] = last /\ v[i - 1] = w[k]
        BY <2>6, <3>2
      <4> QED
        BY <2>4, <4>1
    <3> QED
      BY <3>1, <3>2
  <2>8. WalksTo(v, nx, k + 1)
    BY <2>7 DEF WalksTo
  <2>9. \E f \in [0 .. k + 1 -> [Reached -> Seq(Entry)]] : WalksTo(f, nx, k + 1)
    BY <2>5, <2>8
  <2>10. k + 1 \in Nat
    OBVIOUS
  <2> QED
    BY <2>9, <2>10, Zenon
<1>3. Nat \subseteq Good
  <2> HIDE DEF Good
  <2> QED
    BY <1>1, <1>2, SetInduction
<1> QED
  BY <1>3

\* Walk is the last value of one.
LEMMA WalkIs ==
  ASSUME NEW nx \in [Entry \union {Dummy} -> Reached]
  PROVE  \E w : WalksTo(w, nx, Cardinality(Entry))
                /\ \A m : Walk(nx, m) = w[Cardinality(Entry)][m]
<1> DEFINE N == Cardinality(Entry)
           Body(w) == [k \in 0 .. N |-> [m \in Reached |->
                        IF k = 0 \/ m = Null THEN <<>> ELSE <<m>> \o w[k - 1][nx[m]]]]
           c == CHOOSE w : w = Body(w)
<1>1. N \in Nat
  BY QueueAssumption, FS_CardinalityType
<1>2. PICK w \in [0 .. N -> [Reached -> Seq(Entry)]] : WalksTo(w, nx, N)
  BY <1>1, WalkExists
<1>3. w = Body(w)
  <2>1. \A k \in 0 .. N : w[k] = Body(w)[k]
    BY <1>2 DEF WalksTo
  <2> QED
    BY <1>2, <2>1
<1>4. c = Body(c)
  BY <1>3
<1>5. \A m : Walk(nx, m) = c[N][m]
  BY DEF Walk
<1>6. WalksTo(c, nx, N)
  <2> HIDE DEF c
  <2> SUFFICES ASSUME NEW k \in 0 .. N, NEW m \in Reached
               PROVE  c[k][m] = IF k = 0 \/ m = Null THEN <<>> ELSE <<m>> \o c[k - 1][nx[m]]
    BY DEF WalksTo
  <2> DEFINE f == [l \in Reached |->
                     IF k = 0 \/ l = Null THEN <<>> ELSE <<l>> \o c[k - 1][nx[l]]]
  <2>1. c[k] = Body(c)[k]
    BY <1>4
  <2>2. c[k] = f
    BY <2>1
  <2> QED
    BY <2>2
<1> QED
  BY <1>5, <1>6

\* The nodes are linked in the order of q.
Linked(nx, q) ==
    /\ q \in Seq(Entry) /\ IsInjective(q)
    /\ nx \in [Entry \union {Dummy} -> Reached]
    /\ nx[Dummy] = IF q = <<>> THEN Null ELSE q[1]
    /\ \A i \in 1 .. Len(q) : nx[q[i]] = IF i = Len(q) THEN Null ELSE q[i + 1]

\* There is room for all that are in it.
LEMMA QueueFits ==
  ASSUME NEW q \in Seq(Entry), IsInjective(q)
  PROVE  Len(q) \in 0 .. Cardinality(Entry)
<1>1. Len(q) \in Nat /\ DOMAIN q = 1 .. Len(q) /\ q \in [1 .. Len(q) -> Entry]
  BY LenProperties
<1>2. q \in Injection(1 .. Len(q), Entry)
  BY <1>1 DEF IsInjective, Injection
<1>3. Cardinality(1 .. Len(q)) = Len(q) /\ Cardinality(Entry) \in Nat
  <2>1. Cardinality(Entry) \in Nat
    BY QueueAssumption, FS_CardinalityType
  <2>2. Cardinality(1 .. Len(q)) = IF 1 > Len(q) THEN 0 ELSE Len(q) - 1 + 1
    BY <1>1, FS_Interval
  <2> QED
    BY <1>1, <2>1, <2>2
<1>4. Cardinality(1 .. Len(q)) <= Cardinality(Entry)
  BY <1>2, QueueAssumption, FS_Injection
<1> QED
  BY <1>1, <1>3, <1>4

\* Then they are the sequence that is found along next.
LEMMA WalkFinds ==
  ASSUME NEW nx, NEW q, Linked(nx, q)
  PROVE  Walk(nx, nx[Dummy]) = q
<1> DEFINE N == Cardinality(Entry)  L == Len(q)
<1>1. PICK w : WalksTo(w, nx, N) /\ \A m : Walk(nx, m) = w[N][m]
  BY WalkIs DEF Linked
<1>2. q \in Seq(Entry) /\ L \in Nat /\ N \in Nat /\ L <= N
      /\ \A i \in 1 .. L : q[i] \in Entry /\ q[i] # Null
  <2>1. L \in 0 .. N
    BY QueueFits DEF Linked
  <2> QED
    BY <2>1, QueueAssumption, FS_CardinalityType, LenProperties, ElementOfSeq DEF Linked
<1> DEFINE Good == {k \in Nat : k <= N => \A i \in 1 .. L :
                       L - i + 1 <= k => w[k][q[i]] = SubSeq(q, i, L)}
<1>3. 0 \in Good
  BY <1>2
<1>4. ASSUME NEW k \in Nat, k \in Good PROVE k + 1 \in Good
  <2> SUFFICES ASSUME k + 1 <= N, NEW i \in 1 .. L, L - i + 1 <= k + 1
               PROVE  w[k + 1][q[i]] = SubSeq(q, i, L)
    OBVIOUS
  <2>1. k + 1 \in 0 .. N /\ k \in 0 .. N /\ k + 1 # 0 /\ (k + 1) - 1 = k
    BY <1>2
  <2>2. q[i] \in Reached /\ q[i] # Null /\ Null \in Reached
    BY <1>2 DEF Reached
  <2>3. w[k + 1][q[i]] = <<q[i]>> \o w[k][nx[q[i]]]
    BY <1>1, <2>1, <2>2 DEF WalksTo
  <2>4. CASE i = L
    <3>1. nx[q[i]] = Null
      BY <2>4 DEF Linked
    <3>2. w[k][Null] = <<>>
      BY <1>1, <2>1, <2>2 DEF WalksTo
    <3>3. <<q[i]>> \o <<>> = SubSeq(q, i, L)
      BY <1>2, <2>4
    <3> QED
      BY <2>3, <3>1, <3>2, <3>3
  <2>5. CASE i # L
    <3>1. nx[q[i]] = q[i + 1] /\ i + 1 \in 1 .. L /\ L - (i + 1) + 1 <= k /\ k <= N
      BY <1>2, <2>1, <2>5 DEF Linked
    <3>2. w[k][q[i + 1]] = SubSeq(q, i + 1, L)
      BY <1>4, <3>1
    <3>3. <<q[i]>> \o SubSeq(q, i + 1, L) = SubSeq(q, i, L)
      BY <1>2, <3>1
    <3> QED
      BY <2>3, <3>1, <3>2, <3>3
  <2> QED
    BY <2>4, <2>5
<1>5. Nat \subseteq Good
  <2> HIDE DEF Good
  <2> QED
    BY <1>3, <1>4, SetInduction
<1>6. CASE q = <<>>
  <2>1. nx[Dummy] = Null /\ N \in 0 .. N /\ Null \in Reached
    BY <1>2, <1>6 DEF Linked, Reached
  <2>2. w[N][Null] = <<>>
    BY <1>1, <2>1 DEF WalksTo
  <2> QED
    BY <1>1, <1>6, <2>1, <2>2
<1>7. CASE q # <<>>
  <2>1. nx[Dummy] = q[1] /\ 1 \in 1 .. L /\ L - 1 + 1 <= N
    BY <1>2, <1>7, EmptySeq DEF Linked
  <2>2. w[N][q[1]] = SubSeq(q, 1, L)
    BY <1>2, <1>5, <2>1
  <2>3. SubSeq(q, 1, L) = q
    BY <1>2
  <2> QED
    BY <1>1, <2>1, <2>2, <2>3
<1> QED
  BY <1>6, <1>7

LEMMA ContentNow ==
    /\ Queue!Content = Walk(wnext, wnext[Dummy])
    /\ Queue!Content' = Walk(wnext', wnext'[Dummy])
  BY DEF Queue!Content, Queue!Along, Walk, Reached, Queue!Cardinality, Cardinality

\* The queue of the waiters: linked in the order of some sequence, of which tail_
\* is the end and count_ the length.
QueueOf(q) ==
    /\ Linked(wnext, q)
    /\ wtail = IF q = <<>> THEN Dummy ELSE q[Len(q)]
    /\ wcount = Len(q)

QueueInv == \E q \in Seq(Entry) : QueueOf(q)

LEMMA QueueContent ==
  ASSUME NEW q
  PROVE  /\ QueueOf(q) => Queue!Content = q
         /\ QueueOf(q)' => Queue!Content' = q
<1>1. QueueOf(q) => Queue!Content = q
  BY WalkFinds, ContentNow DEF QueueOf
<1>2. Linked(wnext, q)' <=> Linked(wnext', q)
  BY DEF Linked
<1>3. QueueOf(q)' => Queue!Content' = q
  BY <1>2, WalkFinds, ContentNow DEF QueueOf
<1> QED
  BY <1>1, <1>3

\* What the queue promises of a state.
LEMMA QueueRight ==
  ASSUME NEW q, QueueOf(q)
  PROVE  Queue!TypeOK /\ Queue!TailAndCount
<1>1. q \in Seq(Entry) /\ Len(q) \in 0 .. Cardinality(Entry)
  BY QueueFits DEF QueueOf, Linked
<1>2. q # <<>> => q[Len(q)] \in Entry /\ Last(q) = q[Len(q)]
  BY <1>1, EmptySeq, ElementOfSeq DEF Last
<1>3. Queue!Content = q
  BY QueueContent
<1>4. Queue!TailAndCount
  BY <1>2, <1>3 DEF QueueOf, Queue!TailAndCount, Queue!Last, Last
<1>5. Cardinality(Entry) = Queue!Cardinality(Entry)
  BY DEF Queue!Cardinality, Cardinality
<1>6. wtail \in Entry \union {Dummy}
  BY <1>2 DEF QueueOf
<1> QED
  BY <1>1, <1>4, <1>5, <1>6 DEF QueueOf, Linked, Reached, Queue!TypeOK, Queue!Node

\* push.
LEMMA QueuePush ==
  ASSUME NEW q, QueueOf(q), NEW e \in Entry, Queue!push(e)
  PROVE  QueueOf(Append(q, e))'
<1> DEFINE L == Len(q)  r == Append(q, e)
<1>1. q \in Seq(Entry) /\ L \in Nat /\ IsInjective(q)
  BY LenProperties DEF QueueOf, Linked
<1>2. e \notin ToSet(q)
  <2>1. Queue!Content = q
    BY QueueContent
  <2> QED
    BY <2>1 DEF Queue!push, Queue!Range, ToSet
<1>3. r \in Seq(Entry) /\ IsInjective(r)
  BY <1>1, <1>2, AppendToSet
<1>4. Len(r) = L + 1 /\ r[L + 1] = e /\ r # <<>> /\ \A i \in 1 .. L : r[i] = q[i]
  BY <1>1, AppendProperties
<1> HIDE DEF r
<1>5. \A i \in 1 .. L : q[i] \in Entry /\ q[i] # e /\ q[i] # Dummy
  BY <1>1, <1>2, InToSet, QueueAssumption, ElementOfSeq
<1>6. wnext \in [Entry \union {Dummy} -> Reached] /\ wtail \in Entry \union {Dummy}
      /\ e # wtail /\ e # Dummy
  BY <1>1, <1>5, EmptySeq, QueueAssumption DEF QueueOf, Linked
<1>7. /\ wnext' \in [Entry \union {Dummy} -> Reached]
      /\ wnext'[wtail] = e /\ wnext'[e] = Null
      /\ \A m \in Entry \union {Dummy} : m # wtail /\ m # e => wnext'[m] = wnext[m]
  BY <1>6 DEF Queue!push, Reached
<1>8. wnext'[Dummy] = r[1]
  <2>1. CASE q = <<>>
    BY <1>4, <1>7, <2>1, EmptySeq DEF QueueOf
  <2>2. CASE q # <<>>
    <3>1. 1 \in 1 .. L /\ L \in 1 .. L /\ wtail = q[L] /\ wnext[Dummy] = q[1]
      BY <1>1, <2>2, EmptySeq DEF QueueOf, Linked
    <3> QED
      BY <1>4, <1>5, <1>6, <1>7, <3>1
  <2> QED
    BY <2>1, <2>2
<1>9. ASSUME NEW i \in 1 .. L + 1
      PROVE  wnext'[r[i]] = IF i = L + 1 THEN Null ELSE r[i + 1]
  <2>1. CASE i = L + 1
    BY <1>4, <1>7, <2>1
  <2>2. CASE i = L /\ L \in 1 .. L
    <3>1. wtail = q[L]
      BY <1>1, <2>2, EmptySeq DEF QueueOf
    <3> QED
      BY <1>1, <1>4, <1>7, <2>2, <3>1
  <2>3. CASE i \in 1 .. L /\ i # L
    <3>1. L \in 1 .. L /\ wtail = q[L] /\ i + 1 \in 1 .. L /\ i # L + 1
      BY <1>1, <2>3, EmptySeq DEF QueueOf
    <3>2. q[i] # q[L]
      BY <1>1, <2>3, <3>1, Injective
    <3>3. wnext[q[i]] = q[i + 1]
      BY <2>3 DEF QueueOf, Linked
    <3> QED
      BY <1>4, <1>5, <1>7, <2>3, <3>1, <3>2, <3>3
  <2> QED
    BY <1>1, <2>1, <2>2, <2>3
<1>10. Linked(wnext', r)
  BY <1>3, <1>4, <1>7, <1>8, <1>9 DEF Linked
<1>11. wtail' = e /\ wcount' = L + 1
  BY DEF Queue!push, QueueOf
<1> QED
  BY <1>4, <1>10, <1>11 DEF QueueOf, Linked, r

\* pop, which tryPop calls when count_ is not 0.
LEMMA QueuePop ==
  ASSUME NEW q, QueueOf(q), Queue!pop
  PROVE  q # <<>> /\ QueueOf(Tail(q))'
<1> DEFINE L == Len(q)  r == Tail(q)
<1>1. q \in Seq(Entry) /\ L \in Nat /\ IsInjective(q)
  BY LenProperties DEF QueueOf, Linked
<1>2. q # <<>>
  BY DEF Queue!pop, QueueOf
<1>3. r \in Seq(Entry) /\ IsInjective(r)
  BY <1>1, <1>2, TailToSet
<1>4. Len(r) = L - 1 /\ L # 0 /\ \A i \in 1 .. L - 1 : r[i] = q[i + 1]
  BY <1>1, <1>2, HeadTailProperties, EmptySeq
<1>5. r = <<>> <=> L = 1
  BY <1>1, <1>3, <1>4, EmptySeq
<1> HIDE DEF r
<1>6. \A i \in 1 .. L : q[i] \in Entry /\ q[i] # Dummy
  BY <1>1, QueueAssumption, ElementOfSeq
<1>7. \A i \in 2 .. L : q[i] # q[1]
  BY <1>1, Injective
<1>8. 1 \in 1 .. L /\ L \in 1 .. L /\ wnext[Dummy] = q[1] /\ wtail = q[L]
      /\ wnext \in [Entry \union {Dummy} -> Reached]
  BY <1>1, <1>2, <1>4 DEF QueueOf, Linked
<1>9. /\ wnext' \in [Entry \union {Dummy} -> Reached]
      /\ wnext'[Dummy] = wnext[q[1]] /\ wnext'[q[1]] = Null
      /\ \A m \in Entry : m # q[1] => wnext'[m] = wnext[m]
  <2>1. wnext[q[1]] \in Reached
    BY <1>6, <1>8
  <2>2. wnext' = [wnext EXCEPT ![Dummy] = wnext[q[1]], ![q[1]] = Null]
    BY <1>8 DEF Queue!pop
  <2> QED
    BY <1>6, <1>8, <2>1, <2>2, QueueAssumption DEF Reached
<1>10. wnext'[Dummy] = IF r = <<>> THEN Null ELSE r[1]
  <2>1. wnext[q[1]] = IF 1 = L THEN Null ELSE q[2]
    BY <1>8 DEF QueueOf, Linked
  <2>2. L # 1 => 1 \in 1 .. L - 1
    BY <1>1, <1>4
  <2> QED
    BY <1>4, <1>5, <1>9, <2>1, <2>2
<1>11. ASSUME NEW i \in 1 .. L - 1
       PROVE  wnext'[r[i]] = IF i = L - 1 THEN Null ELSE r[i + 1]
  <2>1. i + 1 \in 2 .. L /\ i + 1 \in 1 .. L /\ (i + 1 = L <=> i = L - 1)
        /\ (i # L - 1 => i + 1 \in 1 .. L - 1)
    BY <1>1
  <2>2. wnext[q[i + 1]] = IF i + 1 = L THEN Null ELSE q[i + 1 + 1]
    BY <2>1 DEF QueueOf, Linked
  <2>3. wnext'[q[i + 1]] = wnext[q[i + 1]]
    BY <1>6, <1>7, <1>9, <2>1
  <2> QED
    BY <1>4, <2>1, <2>2, <2>3
<1>12. Linked(wnext', r)
  BY <1>3, <1>4, <1>9, <1>10, <1>11 DEF Linked
<1>13. wcount' = L - 1
  BY DEF Queue!pop, QueueOf
<1>14. wtail' = IF r = <<>> THEN Dummy ELSE r[Len(r)]
  <2>1. wtail' = IF q[L] = q[1] THEN Dummy ELSE q[L]
    BY <1>8 DEF Queue!pop
  <2>2. CASE L = 1
    BY <1>5, <2>1, <2>2
  <2>3. CASE L # 1
    <3>1. L \in 2 .. L /\ L - 1 \in 1 .. L - 1 /\ L - 1 + 1 = L
      BY <1>1, <1>4, <2>3
    <3> QED
      BY <1>4, <1>5, <1>7, <2>1, <2>3, <3>1
  <2> QED
    BY <2>2, <2>3
<1> QED
  BY <1>2, <1>4, <1>12, <1>13, <1>14 DEF QueueOf, Linked, r

\* A step joins or leaves.
LEMMA QueueStep ==
  ASSUME NEW q, QueueOf(q), Queue!Next
  PROVE  \/ \E e \in Entry : QueueOf(Append(q, e))'
         \/ q # <<>> /\ QueueOf(Tail(q))'
  BY QueuePush, QueuePop DEF Queue!Next, Queue!tryPop

LEMMA QueueStart == Queue!Init => QueueOf(<<>>)
<1>1. <<>> \in Seq(Entry) /\ Len(<<>>) = 0 /\ IsInjective(<<>>)
  BY EmptySeq, EmptyToSet
<1> QED
  BY <1>1, QueueAssumption DEF Queue!Init, Queue!Node, QueueOf, Linked, Reached

\* For any finite set of entries: the waiters' queue holds them in the order they
\* came, tail_ is the last and count_ the number of them, and a step lets one in
\* at the end or the first one out (wait_queue.h:30-84).
THEOREM WaitersInOrder == MCSpec => QueueFifo
<1>1. MCInit => QueueInv
  BY QueueStart DEF MCInit, QueueInv, QueueOf, Linked
<1>2. ASSUME QueueInv, [MCNext]_mcVars
      PROVE  QueueInv' /\ [ \/ \E e \in Entry : Queue!Content' = Append(Queue!Content, e)
                           \/ /\ Queue!Content # <<>>
                              /\ Queue!Content' = Tail(Queue!Content) ]_(Queue!Content)
  <2>1. PICK q \in Seq(Entry) : QueueOf(q)
    BY <1>2 DEF QueueInv
  <2>2. Queue!Content = q
    BY <2>1, QueueContent
  <2>3. CASE UNCHANGED queueVars
    <3>1. QueueOf(q)'
      BY <2>1, <2>3 DEF QueueOf, Linked, queueVars
    <3>2. Queue!Content' = q
      BY <3>1, QueueContent
    <3> QED
      BY <2>2, <3>1, <3>2 DEF QueueInv
  <2>4. CASE Queue!Next
    <3>1. CASE \E e \in Entry : QueueOf(Append(q, e))'
      <4>1. PICK e \in Entry : QueueOf(Append(q, e))'
        BY <3>1
      <4>2. Queue!Content' = Append(q, e)
        BY <4>1, QueueContent
      <4>3. Append(q, e) \in Seq(Entry)
        BY AppendProperties
      <4> QED
        BY <2>2, <4>1, <4>2, <4>3 DEF QueueInv
    <3>2. CASE q # <<>> /\ QueueOf(Tail(q))'
      <4>1. Queue!Content' = Tail(q)
        BY <3>2, QueueContent
      <4>2. Tail(q) \in Seq(Entry)
        BY <3>2, HeadTailProperties
      <4> QED
        BY <2>2, <3>2, <4>1, <4>2 DEF QueueInv
    <3> QED
      BY <2>1, <2>4, <3>1, <3>2, QueueStep
  <2> QED
    BY <1>2, <2>3, <2>4 DEF MCNext, mcVars, queueVars
<1>3. QueueInv => Queue!TypeOK /\ Queue!TailAndCount
  BY QueueRight DEF QueueInv
<1> QED
  BY <1>1, <1>2, <1>3, PTL DEF MCSpec, QueueFifo, Queue!FifoSteps
=============================================================================
