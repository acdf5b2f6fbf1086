----------------------------- MODULE BoundedFifo -----------------------------
(***************************************************************************)
(* What async_queue.h promises: a first-in first-out queue of at most      *)
(* Capacity messages, which loses a message only when it is cleared or,    *)
(* if it was created lossy, the oldest one when a message finds it full.   *)
(***************************************************************************)
EXTENDS Naturals, Sequences

CONSTANTS
    Capacity,   \* most messages held
    Messages    \* what may be enqueued

VARIABLES
    lossy,      \* created with ASYNC_QUEUE_DROP_OLDEST
    items       \* the messages held, the oldest first

Init == lossy \in BOOLEAN /\ items = <<>>

Put(m) ==
    /\ Len(items) < Capacity
    /\ items' = Append(items, m)

\* The oldest message makes room for m.
Displace(m) ==
    /\ lossy /\ Len(items) = Capacity
    /\ items' = Append(Tail(items), m)

Take == items # <<>> /\ items' = Tail(items)

Clear == items' = <<>>

Next ==
    /\ \/ \E m \in Messages : Put(m) \/ Displace(m)
       \/ Take
       \/ Clear
    /\ UNCHANGED lossy

Spec == Init /\ [][Next]_<<lossy, items>>
=============================================================================
