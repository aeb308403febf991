----------------------------- MODULE WaitQueue -----------------------------
(***************************************************************************)
(* The queue of the waiting entries of a channel (sync/wait_queue.h,       *)
(* WaitQueue1): a singly linked list behind a dummy.  The channel's own    *)
(* lock protects it; its lock_t does nothing.                              *)
(***************************************************************************)
EXTENDS Integers, Sequences, SequencesExt, FiniteSets

CONSTANTS
    Entry,  \* the entries, that is their hooks
    Dummy,  \* dummy_, what head_ always points to
    Null

Node == Entry \union {Dummy}

VARIABLES next, tail_, count_

vars == <<next, tail_, count_>>

\* The entries from n on along next.
Along(n) ==
    LET w[k \in 0..Cardinality(Entry)] ==
            [m \in Entry \union {Null} |->
                IF k = 0 \/ m = Null THEN <<>> ELSE <<m>> \o w[k - 1][next[m]]]
    IN  w[Cardinality(Entry)][n]

Content == Along(next[Dummy])

TypeOK ==
    /\ next \in [Node -> Entry \union {Null}]
    /\ tail_ \in Node
    /\ count_ \in 0..Cardinality(Entry)

Init ==
    /\ next = [n \in Node |-> Null]
    /\ tail_ = Dummy
    /\ count_ = 0

\* Without the step of tail_ to the new entry.
PushKeepsTail(e) ==
    /\ e \notin Range(Content)
    /\ next' = [next EXCEPT ![tail_] = e, ![e] = Null]
    /\ count_' = count_ + 1
    /\ UNCHANGED tail_

push(e) ==
    /\ e \notin Range(Content)
    /\ next' = [next EXCEPT ![tail_] = e, ![e] = Null]
    /\ tail_' = e
    /\ count_' = count_ + 1

pop ==
    /\ tail_ # Dummy
    /\ LET ptr == next[Dummy]
       IN  /\ tail_' = IF tail_ = ptr THEN Dummy ELSE tail_
           /\ next' = [next EXCEPT ![Dummy] = next[ptr], ![ptr] = Null]
    /\ count_' = count_ - 1

tryPop == count_ # 0 /\ pop

Next == pop \/ tryPop \/ \E e \in Entry : push(e)

Spec == Init /\ [][Next]_vars

-----------------------------------------------------------------------------
(* tail_ is the last entry, or the dummy of an empty queue, and count_ is    *)
(* the number of entries: the two tests for emptiness, head_ == tail_ in pop *)
(* and count_ in tryPop, agree.                                              *)
TailAndCount ==
    /\ tail_ = IF Content = <<>> THEN Dummy ELSE Last(Content)
    /\ count_ = Len(Content)

(* Entries join at the end and leave from the front, one at a time and none  *)
(* is lost: the waiter that came first is notified first.                    *)
FifoSteps ==
    [][ \/ \E e \in Entry : Content' = Append(Content, e)
        \/ Content # <<>> /\ Content' = Tail(Content) ]_Content
=============================================================================
