-------------------------- MODULE LatencyHistogram --------------------------
(***************************************************************************)
(* LatencyHistogram (src/src/metrics/latency_histogram.h) as a value: what *)
(* each store of record leaves, and what percentile looks for.  Telemetry  *)
(* says which threads run them, and in which steps.                        *)
(***************************************************************************)
EXTENDS Integers, SequencesExt

CONSTANTS
  NumBuckets,     \* NUM_BUCKETS
  BucketWidth,    \* BUCKET_WIDTH_NS
  Huge            \* numeric_limits<int64_t>::max(), beyond every latency

ASSUME BucketAssumption == NumBuckets \in Nat \ {0} /\ BucketWidth \in Nat \ {0}
ASSUME HugeAssumption == Huge \in Nat /\ Huge > NumBuckets * BucketWidth

MaxLatency == NumBuckets * BucketWidth

LesserOf(a, b) == IF a <= b THEN a ELSE b
GreaterOf(a, b) == IF a >= b THEN a ELSE b

EmptyHistogram ==
  [buckets       |-> [b \in 0..(NumBuckets - 1) |-> 0],
   total_samples |-> 0,
   sum_ns        |-> 0,
   min_ns        |-> Huge,
   max_ns        |-> -Huge]

\* The bucket of a latency: those below and above the range are in the first
\* and the last one.
Bucket(ns) == LesserOf(GreaterOf(ns, 0) \div BucketWidth, NumBuckets - 1)

(* What a store of record leaves of hist; loaded is what record has loaded. *)

Counted(hist, loaded, ns) == [hist EXCEPT !.total_samples = loaded.total_samples + 1]

Ranged(hist, loaded, ns) ==
  [hist EXCEPT !.sum_ns = loaded.sum_ns + ns,
               !.min_ns = LesserOf(ns, loaded.min_ns),
               !.max_ns = GreaterOf(ns, loaded.max_ns)]

Bucketed(hist, loaded, ns) ==
  [hist EXCEPT !.buckets[Bucket(ns)] = loaded.buckets[Bucket(ns)] + 1]

(* percentile *)

\* The rank that percentile looks for: total times p, rounded up, but not 0.
Target(total, p) == GreaterOf((total * p[1] + p[2] - 1) \div p[2], 1)

Middle(b) == b * BucketWidth + BucketWidth \div 2
=============================================================================
