------------------------------ MODULE SeqQueue ------------------------------
(***************************************************************************)
(* What the linked containers of the scheduler promise: each of them is a  *)
(* sequence, an element is in one of them at a time, and elements move     *)
(* from one to another in order.  TSQueue.tla implements this module with  *)
(* pointers.                                                               *)
(***************************************************************************)
EXTENDS Integers, Sequences, SequencesExt

CONSTANTS
    Place,  \* the queues and lists
    Elem    \* what they hold

VARIABLE held  \* the sequence each place holds

Held == UNION {Range(held[p]) : p \in Place}

Init == held = [p \in Place |-> <<>>]

Enter(p, e) ==
    /\ e \notin Held
    /\ held' = [held EXCEPT ![p] = Append(@, e)]

Leave(p, e) ==
    \E i \in 1 .. Len(held[p]) :
        /\ held[p][i] = e
        /\ held' = [held EXCEPT ![p] = RemoveAt(@, i)]

\* All of p goes behind what r holds.
Join(p, r) ==
    /\ p # r
    /\ held' = [held EXCEPT ![p] = <<>>, ![r] = @ \o held[p]]

\* The first k of p, or the rest of it, become an empty place's content.
Split(p, r, k) ==
    /\ p # r /\ held[r] = <<>>
    /\ LET front == SubSeq(held[p], 1, k)
           back  == SubSeq(held[p], k + 1, Len(held[p]))
       IN  \/ held' = [held EXCEPT ![p] = back, ![r] = front]
           \/ held' = [held EXCEPT ![p] = front, ![r] = back]

Clear(p) == held' = [held EXCEPT ![p] = <<>>]

Next ==
    \E p \in Place :
       \/ \E e \in Elem : Enter(p, e) \/ Leave(p, e)
       \/ \E r \in Place : Join(p, r) \/ \E k \in 0..Len(held[p]) : Split(p, r, k)
       \/ Clear(p)

Spec == Init /\ [][Next]_held
=============================================================================
