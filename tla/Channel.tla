------------------------------ MODULE Channel ------------------------------
(***************************************************************************)
(* What a channel promises (sync/channel.h): values leave it in the order  *)
(* in which they were pushed, each exactly once; a push beyond the         *)
(* capacity and a pop of an empty channel wait, in the order they came,    *)
(* until the other side arrives, the waiting expires or the channel is     *)
(* closed.  FastChannel.tla implements this module.                        *)
(***************************************************************************)
EXTENDS Integers, Sequences, SequencesExt

CONSTANTS
    Task,       \* the coroutines that use the channel
    Value,      \* what they push
    Capacities  \* the capacities a channel is made with

VARIABLES
    capacity, \* values it holds before a push waits
    closed,
    flow,     \* the values pushed and not yet received, oldest first
    writers,  \* the coroutines that wait for room for the last values of flow
    readers,  \* the coroutines that wait for a value
    answer,   \* of each coroutine's last call: "none" while it waits
    got       \* the value of each coroutine's last pop

vars == <<capacity, closed, flow, writers, readers, answer, got>>

Waiting == Range(writers) \union Range(readers)

Init ==
    /\ capacity \in Capacities
    /\ closed = FALSE
    /\ flow = <<>>
    /\ writers = <<>> /\ readers = <<>>
    /\ answer \in [Task -> {"ok"}]
    /\ got \in [Task -> Value]

Answer(S, a) == answer' = [t \in Task |-> IF t \in S THEN a ELSE answer[t]]

\* The first waiting reader, if there is one, takes the value at once.
SendMeets(t, v) ==
    /\ ~closed /\ readers # <<>>
    /\ got' = [got EXCEPT ![Head(readers)] = v]
    /\ readers' = Tail(readers)
    /\ Answer({t, Head(readers)}, "ok")
    /\ UNCHANGED <<capacity, closed, flow, writers>>

Send(t, v) ==
    /\ ~closed /\ readers = <<>>
    /\ flow' = Append(flow, v)
    /\ IF Len(flow) < capacity
       THEN Answer({t}, "ok") /\ UNCHANGED writers
       ELSE Answer({t}, "none") /\ writers' = Append(writers, t)
    /\ UNCHANGED <<capacity, closed, readers, got>>

\* A pop takes the oldest value; the push that has waited longest is done.
Receive(t) ==
    /\ ~closed /\ flow # <<>>
    /\ got' = [got EXCEPT ![t] = Head(flow)]
    /\ flow' = Tail(flow)
    /\ IF writers = <<>>
       THEN Answer({t}, "ok") /\ UNCHANGED writers
       ELSE Answer({t, Head(writers)}, "ok") /\ writers' = Tail(writers)
    /\ UNCHANGED <<capacity, closed, readers>>

ReceiveWaits(t) ==
    /\ ~closed /\ flow = <<>>
    /\ readers' = Append(readers, t)
    /\ Answer({t}, "none")
    /\ UNCHANGED <<capacity, closed, flow, writers, got>>

\* Closed, or a TryPush with no room, or a TryPop with nothing to take.
Refuse(t) ==
    /\ closed \/ (readers = <<>> /\ Len(flow) >= capacity) \/ flow = <<>>
    /\ Answer({t}, "fail")
    /\ UNCHANGED <<capacity, closed, flow, writers, readers, got>>

Call(t) ==
    /\ t \notin Waiting
    /\ \/ \E v \in Value : SendMeets(t, v) \/ Send(t, v)
       \/ Receive(t) \/ ReceiveWaits(t) \/ Refuse(t)

\* A waiting call that times out has no effect: its value leaves the channel.
Expire(t) ==
    /\ t \in Waiting
    /\ \/ /\ \E i \in DOMAIN writers :
               /\ writers[i] = t
               /\ writers' = RemoveAt(writers, i)
               /\ flow' = RemoveAt(flow, capacity + i)
          /\ UNCHANGED readers
       \/ /\ \E i \in DOMAIN readers :
               readers[i] = t /\ readers' = RemoveAt(readers, i)
          /\ UNCHANGED <<writers, flow>>
    /\ Answer({t}, "fail")
    /\ UNCHANGED <<capacity, closed, got>>

\* Everybody who waits is answered, the values that waited are dropped.
Close ==
    /\ ~closed /\ closed' = TRUE
    /\ flow' = SubSeq(flow, 1, Len(flow) - Len(writers))
    /\ writers' = <<>> /\ readers' = <<>>
    /\ Answer(Waiting, "fail")
    /\ UNCHANGED <<capacity, got>>

Next == Close \/ \E t \in Task : Call(t) \/ Expire(t)

Spec == Init /\ [][Next]_vars
=============================================================================
