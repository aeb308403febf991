----------------------------- MODULE RingBuffer -----------------------------
(***************************************************************************)
(* The buffer of a channel (sync/ringbuffer.h): capacity_ + 1 slots and    *)
(* two counters that only grow, reduced to a slot by a remainder.  The     *)
(* counters are size_t: they have WIDTH bits here and wrap around, which   *)
(* push handles on its own for write_.                                     *)
(***************************************************************************)
EXTENDS Integers, Sequences

CONSTANTS
    Capacity,  \* capacity_
    WIDTH,     \* bits of size_t
    Value,     \* what is pushed
    Raw        \* the content of a slot that holds no object

Mod == 2 ^ WIDTH
Slot == 0..Capacity

VARIABLES
    buf_, write_, read_,
    flow  \* history: the values pushed and not yet popped, oldest first

vars == <<buf_, write_, read_, flow>>

size == (write_ - read_) % Mod

TypeOK ==
    /\ buf_ \in [Slot -> Value \union {Raw}]
    /\ write_ \in 0..(Mod - 1) /\ read_ \in 0..(Mod - 1)
    /\ size <= Capacity
    /\ flow \in Seq(Value)

Init ==
    /\ buf_ = [s \in Slot |-> Raw]
    /\ write_ = 0 /\ read_ = 0
    /\ flow = <<>>

\* Without the round added to read_.
WrappedWriteOnly ==
    LET w == (write_ + 1) % Mod
    IN  [write |-> IF w = 0 THEN Capacity + 1 ELSE w, read |-> read_]

\* Both counters go on behind the wrap with a whole round added.
Wrapped ==
    LET w == (write_ + 1) % Mod IN
    IF w = 0 THEN [write |-> Capacity + 1, read |-> (read_ + Capacity + 1) % Mod]
             ELSE [write |-> w, read |-> read_]

push(v) ==
    /\ size # Capacity
    /\ buf_' = [buf_ EXCEPT ![write_ % (Capacity + 1)] = v]
    /\ write_' = Wrapped.write /\ read_' = Wrapped.read
    /\ flow' = Append(flow, v)

pop ==
    /\ size # 0
    /\ buf_' = [buf_ EXCEPT ![read_ % (Capacity + 1)] = Raw]
    /\ read_' = (read_ + 1) % Mod
    /\ flow' = Tail(flow)
    /\ UNCHANGED write_

Next == (\E v \in Value : push(v)) \/ pop

Spec == Init /\ [][Next]_vars

-----------------------------------------------------------------------------
(* size() is the number of values in the buffer, also after write_ wraps     *)
(* around: full() and empty() decide whether a channel's push or pop waits.  *)
SizeRight == size = Len(flow)

(* The slots from read_ on hold the values in the order of their push and    *)
(* the others hold no object, so that pop moves and destroys each pushed     *)
(* value once, in order; across the wrap this needs capacity_ + 1 to divide  *)
(* the range of size_t.                                                      *)
FifoSlots ==
    \A s \in Slot :
        LET d == (s - read_) % (Capacity + 1)
        IN  buf_[s] = IF d < Len(flow) THEN flow[d + 1] ELSE Raw
=============================================================================
