------------------------------ MODULE SlotPool ------------------------------
(***************************************************************************)
(* What MemoryPool promises: a slot belongs to the pool or to one client.  *)
(* An allocation takes any slot of the pool and fails only when there is   *)
(* none; a deallocation gives back a slot that a client has.               *)
(***************************************************************************)
CONSTANT Slot

VARIABLES
  free,           \* the slots the pool has
  refused         \* an allocation has failed since the last one of either kind

vars == <<free, refused>>

Init == free = Slot /\ refused = FALSE

Take == \E i \in free : free' = free \ {i} /\ refused' = FALSE

Refuse == free = {} /\ refused' = TRUE /\ UNCHANGED free

GiveBack == \E i \in Slot \ free : free' = free \cup {i} /\ refused' = FALSE

Next == Take \/ Refuse \/ GiveBack

Spec == Init /\ [][Next]_vars
=============================================================================
