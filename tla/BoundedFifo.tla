----------------------------- MODULE BoundedFifo -----------------------------
(***************************************************************************)
(* What the Monitor's event buffer (linked_buffer.h) promises its callers: *)
(* a FIFO of at most Capacity pointers.  The buffer never looks at what it *)
(* stores, so the values it accepts are numbered 1, 2, 3, ... and a FIFO   *)
(* is one that hands out exactly these numbers in this order.              *)
(***************************************************************************)
EXTENDS Integers

CONSTANT Capacity       \* buffer_init(max_size)

VARIABLES
  accepted,             \* number of the last value the buffer accepted
  delivered             \* number of the last value the buffer handed out

vars == <<accepted, delivered>>

Init == accepted = 0 /\ delivered = 0

(* A successful buffer_add_tail: only when there is room.                  *)
Put == /\ accepted - delivered < Capacity
       /\ accepted' = accepted + 1
       /\ UNCHANGED delivered

(* A buffer_remove_head that returns a value: the oldest one.              *)
Take == /\ delivered < accepted
        /\ delivered' = delivered + 1
        /\ UNCHANGED accepted

Next == Put \/ Take

Spec == Init /\ [][Next]_vars
==============================================================================
