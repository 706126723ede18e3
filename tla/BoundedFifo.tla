---------------------------- MODULE BoundedFifo ----------------------------
(***************************************************************************)
(* What HPRingBuffer promises its two threads: a first-in first-out queue  *)
(* of at most Capacity items, every item delivered once, whole, in order.  *)
(***************************************************************************)
EXTENDS Naturals, Sequences

CONSTANTS
  Item,           \* what is queued
  Capacity        \* how many fit

VARIABLES
  queue,          \* items put and not yet taken
  out             \* the item taken last

vars == <<queue, out>>

Init == queue = <<>> /\ out \notin Item

Put ==
  /\ Len(queue) < Capacity
  /\ \E item \in Item : queue' = Append(queue, item)
  /\ UNCHANGED out

Take ==
  /\ queue # <<>>
  /\ out' = Head(queue)
  /\ queue' = Tail(queue)

Next == Put \/ Take

Spec == Init /\ [][Next]_vars
=============================================================================
