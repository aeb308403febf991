------------------------- MODULE LockFreeRingQueue -------------------------
(***************************************************************************)
(* The lock-free ring (common/lock_free_ring_queue.h), one atomic access   *)
(* per step.  A push claims a slot by advancing write_, stores, and        *)
(* advances readable_; a pop claims by advancing read_, takes, and         *)
(* advances writable_.  compare_exchange writes the value it found back    *)
(* into its first argument, also where that argument is the claimed slot.  *)
(***************************************************************************)
EXTENDS Integers

CONSTANTS
    Producer, Consumer,  \* the threads that call Push and Pop
    Capacity             \* of the constructor; there is one slot more

capacity_ == Capacity + 1
Slot == 0..Capacity
mod(i) == i % capacity_
Thread == Producer \union Consumer

VARIABLES
    buffer_,                            \* whether a slot holds an object
    write_, writable_, read_, readable_,
    pc,                                 \* the next access of each thread
    slot,                               \* its local write, read or check
    limit                               \* its local writable or readable

vars == <<buffer_, write_, writable_, read_, readable_, pc, slot, limit>>

TypeOK ==
    /\ buffer_ \in [Slot -> BOOLEAN]
    /\ {write_, writable_, read_, readable_} \subseteq Slot
    /\ pc \in [Thread -> {"load", "bound", "claim", "move", "look", "publish"}]
    /\ slot \in [Thread -> Slot] /\ limit \in [Thread -> Slot]

Init ==
    /\ buffer_ = [s \in Slot |-> FALSE]
    /\ write_ = 0 /\ read_ = 0 /\ readable_ = 0 /\ writable_ = capacity_ - 1
    /\ pc = [t \in Thread |-> "load"]
    /\ slot = [t \in Thread |-> 0] /\ limit = [t \in Thread |-> 0]

Go(t, from, to) == pc[t] = from /\ pc' = [pc EXCEPT ![t] = to]

\* write or read, then writable or readable; full or empty returns.
Load(t) ==
    /\ Go(t, "load", "bound")
    /\ slot' = [slot EXCEPT ![t] = IF t \in Producer THEN write_ ELSE read_]
    /\ UNCHANGED <<buffer_, write_, writable_, read_, readable_, limit>>

Bound(t) ==
    LET end == IF t \in Producer THEN writable_ ELSE readable_ IN
    /\ Go(t, "bound", IF slot[t] = end THEN "load" ELSE "claim")
    /\ limit' = [limit EXCEPT ![t] = end]
    /\ UNCHANGED <<buffer_, write_, writable_, read_, readable_, slot>>

ClaimFails(t) ==
    /\ slot[t] # (IF t \in Producer THEN write_ ELSE read_)
    /\ Go(t, "claim", "load")
    /\ UNCHANGED <<buffer_, write_, writable_, read_, readable_, slot, limit>>

\* With readable_ advanced before the store.
ClaimAndPublish(t) ==
    /\ t \in Producer /\ slot[t] = write_
    /\ Go(t, "claim", "move")
    /\ write_' = mod(write_ + 1) /\ readable_' = mod(write_ + 1)
    /\ UNCHANGED <<buffer_, writable_, read_, slot, limit>>

ClaimWrite(t) ==
    /\ t \in Producer /\ slot[t] = write_
    /\ Go(t, "claim", "move")
    /\ write_' = mod(write_ + 1)
    /\ UNCHANGED <<buffer_, writable_, read_, readable_, slot, limit>>

ClaimRead(t) ==
    /\ t \in Consumer /\ slot[t] = read_
    /\ Go(t, "claim", "move")
    /\ read_' = mod(read_ + 1)
    /\ UNCHANGED <<buffer_, write_, writable_, readable_, slot, limit>>

Store(t) ==
    /\ t \in Producer /\ Go(t, "move", "look")
    /\ buffer_' = [buffer_ EXCEPT ![slot[t]] = TRUE]
    /\ UNCHANGED <<write_, writable_, read_, readable_, slot, limit>>

\* limit is reused for the local readable of the second loop.
Look(t) ==
    /\ Go(t, "look", "publish")
    /\ limit' = [limit EXCEPT ![t] = readable_]
    /\ UNCHANGED <<buffer_, write_, writable_, read_, readable_, slot>>

PublishWrite(t) ==
    /\ t \in Producer
    /\ IF readable_ = slot[t]
       THEN Go(t, "publish", "load") /\ readable_' = mod(limit[t] + 1) /\ UNCHANGED slot
       ELSE Go(t, "publish", "look") /\ slot' = [slot EXCEPT ![t] = readable_]
            /\ UNCHANGED readable_
    /\ UNCHANGED <<buffer_, write_, writable_, read_, limit>>

\* The object is moved out and destroyed; slot becomes the local check.
Take(t) ==
    /\ t \in Consumer /\ Go(t, "move", "publish")
    /\ buffer_' = [buffer_ EXCEPT ![slot[t]] = FALSE]
    /\ limit' = [limit EXCEPT ![t] = slot[t]]
    /\ slot' = [slot EXCEPT ![t] = mod(slot[t] + capacity_ - 1)]
    /\ UNCHANGED <<write_, writable_, read_, readable_>>

PublishRead(t) ==
    /\ t \in Consumer
    /\ IF writable_ = slot[t]
       THEN Go(t, "publish", "load") /\ writable_' = limit[t] /\ UNCHANGED slot
       ELSE /\ pc[t] = "publish" /\ slot' = [slot EXCEPT ![t] = writable_]
            /\ UNCHANGED <<pc, writable_>>
    /\ UNCHANGED <<buffer_, write_, read_, readable_, limit>>

Next ==
    \E t \in Thread :
       \/ Load(t) \/ Bound(t) \/ ClaimFails(t)
       \/ ClaimWrite(t) \/ Store(t) \/ Look(t) \/ PublishWrite(t)
       \/ ClaimRead(t) \/ Take(t) \/ PublishRead(t)

Spec == Init /\ [][Next]_vars

-----------------------------------------------------------------------------
(* "[read_, readable_) is the readable range": every slot of it holds an     *)
(* object, so that Pop never moves from a slot nothing was stored in.        *)
ReadableStored ==
    \A s \in Slot : mod(s - read_) < mod(readable_ - read_) => buffer_[s]

(* Push never stores over an object that has not been taken out of its slot: *)
(* the test of write_ == writable_ and the compare_exchange of write_ claim  *)
(* each slot for one push.                                                   *)
NoOverwrite == \A t \in Producer : pc[t] = "move" => ~buffer_[slot[t]]
=============================================================================
