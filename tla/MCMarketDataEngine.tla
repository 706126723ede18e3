------------------------- MODULE MCMarketDataEngine -------------------------
(***************************************************************************)
(* Two symbols, a ring of two messages, no interval and one of two ticks:  *)
(* three calls fill the ring and find it full, on a stale index too, and   *)
(* three ticks lie within the interval, at its end and beyond it.          *)
(***************************************************************************)
EXTENDS MarketDataEngine

CONSTANTS s1, s2

MCSymbol == {s1, s2}
MCIntervals == {0, 2}
=============================================================================
