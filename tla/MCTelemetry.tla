---------------------------- MODULE MCTelemetry ----------------------------
(***************************************************************************)
(* Two threads that share a timer, another timer that is not recorded, and *)
(* one histogram of three buckets of two: latencies of 7 are beyond it,    *)
(* and a timer that is started again while it ends measures -1 or -2.      *)
(***************************************************************************)
EXTENDS Telemetry

CONSTANTS t1, t2, match, other, H

MCThread == {t1, t2}
MCTimerName == {match, other}
MCHistogram == {H}
MCRoute == [name \in MCTimerName |-> IF name = match THEN {H} ELSE {}]
MCDirectLatencies == {2, 7}
MCPercentiles == {<<1, 2>>, <<99, 100>>}
Symmetry == Permutations(MCThread)
=============================================================================
