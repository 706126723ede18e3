--------------------------- MODULE MCHPRingBuffer ---------------------------
(***************************************************************************)
(* A ring of four slots, two distinguishable items.                        *)
(***************************************************************************)
EXTENDS HPRingBuffer

CONSTANTS a, b

MCItem == {a, b}
=============================================================================
