---------------------------- MODULE FastChannel ----------------------------
(***************************************************************************)
(* The channel, sync/fast_channel_impl.h: a buffer and two queues of       *)
(* coroutines suspended in Push and in Pop.  Push, Pop and Close hold      *)
(* lock_ from their first line to their return or until the caller has     *)
(* suspended itself, so each is one step; a blocked caller then swaps out, *)
(* is woken by the other side, by Close or by its timer, and returns.      *)
(* The order of the buffer is that of a sequence: RingBuffer.tla and       *)
(* WaitQueue.tla are about the containers themselves.                      *)
(***************************************************************************)
EXTENDS Integers, Sequences, SequencesExt, Suspension

CONSTANTS
    Value,      \* what is pushed
    Capacities, \* the capacities a channel is made with
    Timeouts,   \* what callers pass: subset of {"never", "zero", "timed"}
    MaxEntries  \* bound on the entries in wq_ and rq_, orphans included

ASSUME FastChannelAssumption == Capacities \subseteq Nat /\ MaxEntries \in Nat

VARIABLES
    capacity,   \* capacity_, set by the constructor
    closed,     \* closed_
    buf,        \* q_ or lq_
    wq, rq,     \* the entries' task_; NoTask: the stack frame of the entry
                \* is gone
    slot,       \* *value_ of a Push: the value it has to push
    got,        \* *value_ of a Pop: the value it has popped
    success,    \* success_ and the answer; "none": not written yet
    timer,      \* the Processer whose TimerManager holds t's timer, or NoTask
    isTimeOut,  \* the tasks whose timer has fired in this call
    pc,         \* "idle", "switch": lock_ released, "wait": until it returns
    wild        \* memory has been overwritten; nothing is said from there on

chanVars == <<capacity, closed, buf, wq, rq, slot, got, success, timer,
              isTimeOut, pc, wild>>
vars == <<suspensionVars, chanVars>>

Init ==
    /\ SuspensionInit
    /\ capacity \in Capacities
    /\ closed = FALSE
    /\ buf = <<>> /\ wq = <<>> /\ rq = <<>>
    /\ \E v \in Value : slot = [t \in Task |-> v] /\ got = slot
    /\ success = [t \in Task |-> "ok"]
    /\ timer = [t \in Task |-> NoTask]
    /\ isTimeOut = {}
    /\ pc = [t \in Task |-> "idle"]
    /\ wild = FALSE

Calls(t) == t \in Sched!Executing /\ pc[t] = "idle"

\* Wake the task of the entry taken out of a queue; to write through an entry
\* whose frame is gone, or to wake a task that is not suspended, is undefined.
\* The entry is read once more after the task was pushed, for entry->task_->proc_
\* (fast_channel_impl.h:278, 348 and in Close): a caller that another thread has
\* resumed by then may have left its frame.  That read is left out.
Notifiable(t) == t # NoTask /\ MayWake({t})

Undefined ==
    /\ wild' = TRUE
    /\ UNCHANGED <<suspensionVars, capacity, closed, buf, wq, rq, slot, got,
                   success, timer, isTimeOut, pc>>

Done(S) == [t \in Task |-> IF t \in S THEN "ok" ELSE success[t]]

-----------------------------------------------------------------------------
\* Push: ReadNotifyOne gives the value to the reader that has waited longest,
\* directly or through the buffer it has just made non-empty.
PushHandsOver(t, v) ==
    /\ ~closed /\ buf = <<>> /\ rq # <<>>
    /\ IF Notifiable(Head(rq))
       THEN /\ rq' = Tail(rq)
            /\ got' = [got EXCEPT ![Head(rq)] = v]
            /\ success' = Done({t, Head(rq)})
            /\ WakeupBySelfIO({Head(rq)})
            /\ UNCHANGED <<capacity, closed, buf, wq, slot, timer,
                           isTimeOut, pc, wild>>
       ELSE Undefined

PushBuffers(t, v) ==
    /\ ~closed /\ Len(buf) < capacity
    /\ buf # <<>> \/ rq = <<>>
    /\ buf' = Append(buf, v)
    /\ success' = Done({t})
    /\ UNCHANGED <<suspensionVars, capacity, closed, wq, rq, slot, got,
                   timer, isTimeOut, pc, wild>>

Fail(t) ==
    /\ success' = [success EXCEPT ![t] = "fail"]
    /\ UNCHANGED <<suspensionVars, capacity, closed, buf, wq, rq, slot, got,
                   timer, isTimeOut, pc, wild>>

PushCannot == ~closed /\ Len(buf) >= capacity /\ (buf # <<>> \/ rq = <<>>)

PushFails(t, timeout) ==
    (closed \/ (timeout = "zero" /\ PushCannot)) /\ Fail(t)

\* WriteWaite and ReadWaite up to lock.unlock(): t suspends itself; its timer
\* is added to the Processer it runs on.
Wait(t, timeout) ==
    /\ Len(wq) + Len(rq) < MaxEntries
    /\ SuspendBySelfIO(t)
    /\ success' = [success EXCEPT ![t] = "none"]
    /\ IF timeout = "timed"
       THEN \E p \in Proc : on[p] = t /\ timer' = [timer EXCEPT ![t] = p]
       ELSE UNCHANGED timer
    /\ pc' = [pc EXCEPT ![t] = "switch"]
    /\ UNCHANGED <<capacity, closed, buf, got, isTimeOut, wild>>

WriteWaite(t, v, timeout) ==
    /\ timeout # "zero" /\ PushCannot
    /\ Wait(t, timeout)
    /\ wq' = Append(wq, t)
    /\ slot' = [slot EXCEPT ![t] = v]
    /\ UNCHANGED rq

Push(t, v, timeout) ==
    /\ Calls(t)
    /\ \/ PushHandsOver(t, v) \/ PushBuffers(t, v)
       \/ PushFails(t, timeout) \/ WriteWaite(t, v, timeout)

-----------------------------------------------------------------------------
\* Pop with a writer waiting behind a full buffer: WriteNotifyOne moves its
\* value to the end of the buffer (with no buffer, straight to the reader).
PopForgetsWriter(t) ==  \* fault: the place is free but nobody is notified
    /\ ~closed /\ wq # <<>> /\ Len(buf) = capacity /\ buf # <<>>
    /\ got' = [got EXCEPT ![t] = Head(buf)]
    /\ buf' = Tail(buf)
    /\ success' = Done({t})
    /\ UNCHANGED <<suspensionVars, capacity, closed, wq, rq, slot, timer,
                   isTimeOut, pc, wild>>

PopPeeks(t) ==  \* fault: the entry of the writer stays in wq_
    /\ ~closed /\ wq # <<>> /\ Len(buf) = capacity
    /\ LET all == Append(buf, slot[Head(wq)]) IN
       /\ got' = [got EXCEPT ![t] = Head(all)]
       /\ buf' = Tail(all)
    /\ success' = Done({t, Head(wq)})
    /\ WakeupBySelfIO({Head(wq)})
    /\ UNCHANGED <<capacity, closed, wq, rq, slot, timer, isTimeOut, pc,
                   wild>>

PopWakesWriter(t) ==
    /\ ~closed /\ wq # <<>> /\ Len(buf) = capacity
    /\ IF Notifiable(Head(wq))
       THEN LET all == Append(buf, slot[Head(wq)]) IN
            /\ got' = [got EXCEPT ![t] = Head(all)]
            /\ buf' = Tail(all)
            /\ wq' = Tail(wq)
            /\ success' = Done({t, Head(wq)})
            /\ WakeupBySelfIO({Head(wq)})
            /\ UNCHANGED <<capacity, closed, rq, slot, timer, isTimeOut, pc,
                           wild>>
       ELSE Undefined

PopBuffered(t) ==
    /\ ~closed /\ buf # <<>>
    /\ wq = <<>> \/ Len(buf) # capacity
    /\ got' = [got EXCEPT ![t] = Head(buf)]
    /\ buf' = Tail(buf)
    /\ success' = Done({t})
    /\ UNCHANGED <<suspensionVars, capacity, closed, wq, rq, slot, timer,
                   isTimeOut, pc, wild>>

PopCannot == ~closed /\ buf = <<>> /\ (wq = <<>> \/ capacity > 0)

PopFails(t, timeout) == (closed \/ (timeout = "zero" /\ PopCannot)) /\ Fail(t)

ReadWaite(t, timeout) ==
    /\ timeout # "zero" /\ PopCannot
    /\ Wait(t, timeout)
    /\ rq' = Append(rq, t)
    /\ UNCHANGED <<wq, slot>>

Pop(t, timeout) ==
    /\ Calls(t)
    /\ \/ PopWakesWriter(t) \/ PopBuffered(t)
       \/ PopFails(t, timeout) \/ ReadWaite(t, timeout)

\* Close: NotifyAll makes every waiting call return false.
Close(t) ==
    /\ Calls(t) /\ ~closed
    /\ LET waiting == Range(rq \o wq) IN
       IF \A u \in waiting : Notifiable(u)
       THEN /\ closed' = TRUE
            /\ rq' = <<>> /\ wq' = <<>>
            /\ success' = [u \in Task |-> IF u \in waiting THEN "fail"
                                                           ELSE success[u]]
            /\ WakeupBySelfIO(waiting)
            /\ UNCHANGED <<capacity, buf, slot, got, timer, isTimeOut, pc,
                           wild>>
       ELSE Undefined

-----------------------------------------------------------------------------
SwitchParks(p) ==  \* fault: parked although it has been woken
    /\ on[p] # NoTask /\ pc[on[p]] = "switch"
    /\ SwapOutAlways(p)
    /\ pc' = [pc EXCEPT ![on[p]] = "wait"]
    /\ UNCHANGED <<capacity, closed, buf, wq, rq, slot, got, success, timer,
                   isTimeOut, wild>>

Switch(p) ==
    /\ on[p] # NoTask /\ pc[on[p]] = "switch"
    /\ SwapOut(p)
    /\ pc' = [pc EXCEPT ![on[p]] = "wait"]
    /\ UNCHANGED <<capacity, closed, buf, wq, rq, slot, got, success, timer,
                   isTimeOut, wild>>

\* The timer's callback, run by the Processer that created it between two
\* coroutines.
TimerFires(t) ==
    /\ timer[t] # NoTask /\ on[timer[t]] = NoTask
    /\ IF MayWake({t})
       THEN /\ isTimeOut' = isTimeOut \union {t}
            /\ timer' = [timer EXCEPT ![t] = NoTask]
            /\ success' = [success EXCEPT ![t] = "fail"]
            /\ WakeupBySelfIO({t})
            /\ UNCHANGED <<capacity, closed, buf, wq, rq, slot, got, pc,
                           wild>>
       ELSE Undefined

Orphan(q, t) == [i \in DOMAIN q |-> IF q[i] = t THEN NoTask ELSE q[i]]

\* Back from StaticCoYield: StopTimer, unless the timer has fired; nobody
\* takes the entry out of the queue then.
Return(t) ==
    /\ t \in Sched!Executing /\ pc[t] = "wait"
    /\ pc' = [pc EXCEPT ![t] = "idle"]
    /\ timer' = [timer EXCEPT ![t] = NoTask]
    /\ isTimeOut' = isTimeOut \ {t}
    /\ wq' = Orphan(wq, t)
    /\ rq' = Orphan(rq, t)
    /\ UNCHANGED <<suspensionVars, capacity, closed, buf, slot, got,
                   success, wild>>

-----------------------------------------------------------------------------
UserYield(p) ==
    /\ on[p] # NoTask /\ pc[on[p]] = "idle"
    /\ Yield(p) /\ UNCHANGED chanVars

Running(p, t) == Resume(p, t) /\ UNCHANGED chanVars

Next ==
    /\ ~wild
    /\ \/ \E t \in Task :
            \/ \E timeout \in Timeouts :
                 Pop(t, timeout) \/ \E v \in Value : Push(t, v, timeout)
            \/ Close(t) \/ TimerFires(t) \/ Return(t)
       \/ \E p \in Proc :
            Switch(p) \/ UserYield(p) \/ \E t \in Task : Running(p, t)

Spec == Init /\ [][Next]_vars

-----------------------------------------------------------------------------
\* Every variable has its type; the buffer never holds more than capacity_.
TypeOK ==
    /\ SuspensionTypeOK
    /\ capacity \in Capacities
    /\ closed \in BOOLEAN /\ wild \in BOOLEAN
    /\ buf \in Seq(Value) /\ Len(buf) <= capacity
    /\ wq \in Seq(Task \union {NoTask}) /\ rq \in Seq(Task \union {NoTask})
    /\ slot \in [Task -> Value] /\ got \in [Task -> Value]
    /\ success \in [Task -> {"none", "ok", "fail"}]
    /\ timer \in [Task -> Proc \union {NoTask}]
    /\ isTimeOut \in SUBSET Task
    /\ pc \in [Task -> {"idle", "switch", "wait"}]

\* The comments at fast_channel_impl.h:69, 83 and 121: who is in wq_ or rq_
\* and has not timed out is a suspended coroutine that can be handed its
\* result, and nobody waits for what is already there: a reader for a value, a
\* writer for room.
EntriesWait ==
    /\ TypeOK
    /\ \A t \in Range(wq \o rq) \ (isTimeOut \union {NoTask}) : Notifiable(t)
    /\ rq # <<>> => buf = <<>> /\ wq = <<>>
    /\ wq # <<>> => Len(buf) = capacity

\* A call whose success_ is decided is never left suspended: it is on its way
\* back in a run queue or about to swap out (a notification may come between
\* lock.unlock() and StaticCoYield).
AnsweredIsReady ==
    \A t \in Task : success[t] # "none" => t \notin parked

\* The detailed channel implements the abstract one: the values in flight are
\* those of the buffer followed by those of the writers that still wait.  Keep
\* is the entries of q that are in S, in their order.
Keep(q, S) ==
    LET keep[i \in 0..Len(q)] ==
            IF i = 0 THEN <<>>
            ELSE IF q[i] \in S THEN Append(keep[i - 1], q[i]) ELSE keep[i - 1]
    IN  keep[Len(q)]
Live(q) == Keep(q, Task \ isTimeOut)
Pushed(q, values) == [i \in DOMAIN q |-> values[q[i]]]
Abstract ==
    INSTANCE Channel WITH
        flow <- buf \o Pushed(Live(wq), slot),
        writers <- Live(wq), readers <- Live(rq),
        answer <- success
ImplementsChannel == Abstract!Spec
=============================================================================
