------------------------------- MODULE TSQueue -------------------------------
(***************************************************************************)
(* The intrusive queue of tasks and the list its elements travel in        *)
(* (common/ts_queue.h), at the level of the pointers: a TSQueue has a      *)
(* sentinel its elements follow, an SList has none and its first element's *)
(* prev is null.  Each operation is one step: it holds the queue's lock,   *)
(* and the unlocked test of head_ == tail_ in front of it is one read that *)
(* is repeated under the lock.                                             *)
(***************************************************************************)
EXTENDS Integers, Sequences, SequencesExt, FiniteSets

CONSTANTS
    Queue,  \* the TSQueue objects; each stands for its sentinel too
    List,   \* the SList objects
    Elem,   \* the elements, that is their hooks
    Null    \* nullptr

Node == Queue \union Elem
Place == Queue \union List

VARIABLES
    prev, next, check,  \* the fields of TSQueueHook
    head, tail, count   \* the fields of TSQueue and SList

vars == <<prev, next, check, head, tail, count>>

\* The nodes from n on along a link; Nodes is more than any sequence holds.
Along(link, n) ==
    LET Nodes == Cardinality(Node)
        w[k \in 0..Nodes] ==
            [m \in Node \union {Null} |->
                IF k = 0 \/ m \in Queue \union {Null} THEN <<>>
                                                      ELSE <<m>> \o w[k - 1][link[m]]]
    IN  w[Nodes][n]

First(p) == IF p \in Queue THEN next[p] ELSE head[p]
Content(p) == Along(next, First(p))
Backward(p) == Along(prev, tail[p])
empty(p) == IF p \in Queue THEN head[p] = tail[p] ELSE head[p] = Null

\* An element no place holds: just created, or popped.
Loose == Elem \ UNION {Range(Content(p)) : p \in Place}

-----------------------------------------------------------------------------
TypeOK ==
    /\ prev \in [Node -> Node \union {Null}] /\ next \in [Node -> Elem \union {Null}]
    /\ check \in [Elem -> Queue \union {Null}]
    /\ head \in [Place -> Node \union {Null}] /\ tail \in [Place -> Node \union {Null}]
    /\ count \in [Place -> 0..Cardinality(Elem)]

Init ==
    /\ prev = [n \in Node |-> Null] /\ next = [n \in Node |-> Null]
    /\ check = [e \in Elem |-> Null]
    /\ head = [p \in Place |-> IF p \in Queue THEN p ELSE Null]
    /\ tail = head
    /\ count = [p \in Place |-> 0]

\* A field of the node n is set, if there is one: if (n) n->link = m.
Set(link, n, m) == IF n = Null THEN link ELSE [link EXCEPT ![n] = m]

pushWithoutLock(q, e) ==
    /\ e \in Loose
    /\ next' = [next EXCEPT ![tail[q]] = e, ![e] = Null]
    /\ prev' = [prev EXCEPT ![e] = tail[q]]
    /\ tail' = [tail EXCEPT ![q] = e]
    /\ check' = [check EXCEPT ![e] = q]
    /\ count' = [count EXCEPT ![q] = @ + 1]
    /\ UNCHANGED head

pushList(q, l) ==
    /\ ~empty(l)
    /\ next' = [next EXCEPT ![tail[q]] = head[l]]
    /\ prev' = [prev EXCEPT ![head[l]] = tail[q]]
    /\ tail' = [tail EXCEPT ![q] = tail[l], ![l] = Null]
    /\ head' = [head EXCEPT ![l] = Null]
    /\ count' = [count EXCEPT ![q] = @ + count[l], ![l] = 0]
    /\ UNCHANGED check

front(q) ==
    /\ next[q] # Null
    /\ check' = [check EXCEPT ![next[q]] = q]
    /\ UNCHANGED <<prev, next, head, tail, count>>

nextWithoutLock(q, e) ==
    /\ e \in Range(Content(q)) /\ next[e] # Null
    /\ check' = [check EXCEPT ![next[e]] = q]
    /\ UNCHANGED <<prev, next, head, tail, count>>

pop(q) ==
    LET ptr == next[q] IN
    /\ ~empty(q)
    /\ tail' = [tail EXCEPT ![q] = IF ptr = @ THEN q ELSE @]
    /\ next' = [next EXCEPT ![q] = next[ptr], ![ptr] = Null]
    /\ prev' = Set([prev EXCEPT ![ptr] = Null], next[ptr], q)
    /\ check' = [check EXCEPT ![ptr] = Null]
    /\ count' = [count EXCEPT ![q] = @ - 1]
    /\ UNCHANGED head

\* The loop counts from 1, so that even n = 0 takes an element.
Taken(n, s) == IF n < 1 THEN 1 ELSE IF n < Len(s) THEN n ELSE Len(s)

pop_front(q, n, l) ==
    LET first == next[q]
        c     == Taken(n, Content(q))
        last  == Content(q)[c]
    IN  /\ ~empty(q) /\ empty(l)
        /\ tail' = [tail EXCEPT ![q] = IF last = @ THEN q ELSE @, ![l] = last]
        /\ next' = [next EXCEPT ![q] = next[last], ![last] = Null]
        /\ prev' = Set([prev EXCEPT ![first] = Null], next[last], q)
        /\ head' = [head EXCEPT ![l] = first]
        /\ count' = [count EXCEPT ![q] = @ - c, ![l] = c]
        /\ UNCHANGED check

\* Without the null at the end of what stays in the queue.
PopBackKeepsNext(q, n, l) ==
    LET first == Backward(q)[Taken(n, Backward(q))] IN
    /\ ~empty(q) /\ empty(l)
    /\ tail' = [tail EXCEPT ![q] = prev[first], ![l] = tail[q]]
    /\ prev' = [prev EXCEPT ![first] = Null]
    /\ head' = [head EXCEPT ![l] = first]
    /\ count' = [count EXCEPT ![q] = @ - Taken(n, Backward(q)), ![l] = Taken(n, Backward(q))]
    /\ UNCHANGED <<next, check>>

pop_backWithoutLock(q, n, l) ==
    LET last  == tail[q]
        c     == Taken(n, Backward(q))
        first == Backward(q)[c]
    IN  /\ ~empty(q) /\ empty(l)
        /\ tail' = [tail EXCEPT ![q] = prev[first], ![l] = last]
        /\ next' = [next EXCEPT ![prev[first]] = Null]
        /\ prev' = [prev EXCEPT ![first] = Null]
        /\ head' = [head EXCEPT ![l] = first]
        /\ count' = [count EXCEPT ![q] = @ - c, ![l] = c]
        /\ UNCHANGED check

pop_allWithoutLock(q, l) ==
    LET first == next[q] IN
    /\ ~empty(q) /\ empty(l)
    /\ tail' = [tail EXCEPT ![q] = q, ![l] = tail[q]]
    /\ next' = [next EXCEPT ![q] = Null]
    /\ prev' = [prev EXCEPT ![first] = Null]
    /\ head' = [head EXCEPT ![l] = first]
    /\ count' = [count EXCEPT ![q] = 0, ![l] = count[q]]
    /\ UNCHANGED check

Unlinked(e) == prev[e] = Null /\ next[e] = Null

\* The callers pass check = false, and an element of q or an unlinked one.
eraseWithoutLock(q, e) ==
    /\ e \in Range(Content(q)) /\ ~Unlinked(e)
    /\ next' = [next EXCEPT ![prev[e]] = next[e], ![e] = Null]
    /\ prev' = Set([prev EXCEPT ![e] = Null], next[e], prev[e])
    /\ tail' = [tail EXCEPT ![q] = IF next[e] = Null /\ e = @ THEN prev[@] ELSE @]
    /\ check' = [check EXCEPT ![e] = Null]
    /\ count' = [count EXCEPT ![q] = @ - 1]
    /\ UNCHANGED head

-----------------------------------------------------------------------------
\* SList::operator=(SList&&) into an empty list.
Move(l, m) ==
    /\ head' = [head EXCEPT ![m] = head[l], ![l] = Null]
    /\ tail' = [tail EXCEPT ![m] = tail[l], ![l] = Null]
    /\ count' = [count EXCEPT ![m] = count[l], ![l] = 0]
    /\ UNCHANGED <<prev, next, check>>

append(m, l) ==
    /\ m # l /\ ~empty(l)
    /\ \/ empty(m) /\ Move(l, m)
       \/ /\ ~empty(m)
          /\ next' = [next EXCEPT ![tail[m]] = head[l]]
          /\ prev' = [prev EXCEPT ![head[l]] = tail[m]]
          /\ tail' = [tail EXCEPT ![m] = tail[l], ![l] = Null]
          /\ head' = [head EXCEPT ![l] = Null]
          /\ count' = [count EXCEPT ![m] = @ + count[l], ![l] = 0]
          /\ UNCHANGED check

cut(l, n, m) ==
    /\ m # l /\ ~empty(l) /\ empty(m) /\ n # 0
    /\ \/ n >= count[l] /\ Move(l, m)
       \/ /\ n < count[l]
          /\ LET pos == Content(l)[n] IN
             /\ head' = [head EXCEPT ![m] = head[l], ![l] = next[pos]]
             /\ tail' = [tail EXCEPT ![m] = pos]
             /\ next' = [next EXCEPT ![pos] = Null]
             /\ prev' = [prev EXCEPT ![next[pos]] = Null]
          /\ count' = [count EXCEPT ![m] = n, ![l] = @ - n]
          /\ UNCHANGED check

\* The element is deleted: what is allocated next has clear hooks.
erase(l, e) ==
    /\ e \in Range(Content(l))
    /\ next' = Set([next EXCEPT ![e] = Null], prev[e], next[e])
    /\ prev' = Set([prev EXCEPT ![e] = Null], next[e], prev[e])
    /\ head' = [head EXCEPT ![l] = IF prev[e] = Null THEN next[@] ELSE @]
    /\ tail' = [tail EXCEPT ![l] = IF next[e] = Null THEN prev[@] ELSE @]
    /\ check' = [check EXCEPT ![e] = Null]
    /\ count' = [count EXCEPT ![l] = @ - 1]

clear(l) ==
    LET gone == Range(Content(l)) IN
    /\ ~empty(l)
    /\ next' = [n \in Node |-> IF n \in gone THEN Null ELSE next[n]]
    /\ prev' = [n \in Node |-> IF n \in gone THEN Null ELSE prev[n]]
    /\ check' = [e \in Elem |-> IF e \in gone THEN Null ELSE check[e]]
    /\ head' = [head EXCEPT ![l] = Null] /\ tail' = [tail EXCEPT ![l] = Null]
    /\ count' = [count EXCEPT ![l] = 0]

Sizes == 0..Cardinality(Elem)

Next ==
    \/ \E q \in Queue :
          \/ front(q)
          \/ pop(q)
          \/ \E e \in Elem : pushWithoutLock(q, e) \/ nextWithoutLock(q, e)
                              \/ eraseWithoutLock(q, e)
          \/ \E l \in List : pushList(q, l) \/ pop_allWithoutLock(q, l)
          \/ \E l \in List, n \in Sizes : pop_front(q, n, l) \/ pop_backWithoutLock(q, n, l)
    \/ \E l \in List :
          \/ clear(l)
          \/ \E e \in Elem : erase(l, e)
          \/ \E m \in List : append(m, l) \/ \E n \in Sizes : cut(l, n, m)

Spec == Init /\ [][Next]_vars

-----------------------------------------------------------------------------
(* The links of every queue and list lead back the way they lead forward,   *)
(* start behind the sentinel or at a null, and end at tail_; count_ is the  *)
(* number of elements; and what is in no container has clear hooks, which   *)
(* the next push asserts.  Every operation of ts_queue.h relies on it.      *)
LinkedWell ==
    /\ \A p \in Place :
          LET s == Content(p) IN
          /\ Backward(p) = Reverse(s)
          /\ count[p] = Len(s)
          /\ s # <<>> => /\ tail[p] = Last(s) /\ next[Last(s)] = Null
                         /\ prev[s[1]] = IF p \in Queue THEN p ELSE Null
          /\ s = <<>> => empty(p)
    /\ \A e \in Loose : Unlinked(e)

(* Seen as sequences, the queues and lists of ts_queue.h only do what       *)
(* SeqQueue.tla allows: no operation loses, doubles or reorders an element. *)
Sequences == INSTANCE SeqQueue WITH held <- [p \in Place |-> Content(p)]
SequencesSpec == Sequences!Spec
=============================================================================
