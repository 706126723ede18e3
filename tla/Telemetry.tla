----------------------------- MODULE Telemetry -----------------------------
(***************************************************************************)
(* Telemetry (src/src/metrics/telemetry.h and .cpp): threads time spans by *)
(* name, in a map that timer_mutex_ guards, and record what they measured  *)
(* in a histogram; a reporting thread reads the histograms, with no lock,  *)
(* while they do.                                                          *)
(*                                                                         *)
(* The fields of a histogram are plain variables: the stores of a record   *)
(* become visible in any order.  A record loads its fields at its begin;   *)
(* nobody else stores into the same histogram meanwhile, so a later load   *)
(* would find the same.  That is so because end_timer holds the lock, and  *)
(* because the clients of record_*_latency, which takes none, see to it    *)
(* that no other record into that histogram runs.  reset, which takes none *)
(* either, is called by the reporter while nothing runs.                   *)
(*                                                                         *)
(* Sum, minimum and maximum are stored in one step: nothing here tells     *)
(* their order.  The atomic counters and the printing are left out.        *)
(***************************************************************************)
EXTENDS LatencyHistogram

CONSTANTS
  Thread,         \* threads that use timers and record
  TimerName,
  Histogram,
  Route,          \* TimerName -> SUBSET Histogram: where a timer is recorded,
                  \* {} if its name says none
  DirectLatencies,\* what record_*_latency is called with
  Percentiles,    \* <<numerator, denominator>>
  MaxTime,        \* bound of the steady clock
  MaxSamples      \* bound of the number of records

\* Percentiles are over 0 and at most 1; latencies and times fit their integers.
ASSUME PercentilesAssumption ==
  \A p \in Percentiles : p \in Nat \X Nat /\ 0 < p[1] /\ p[1] <= p[2]
ASSUME LatenciesAssumption == DirectLatencies \subseteq (-Huge)..Huge /\ MaxTime \in 0..Huge
ASSUME RouteAssumption ==
  \A name \in TimerName : Route[name] \subseteq Histogram /\ Cardinality(Route[name]) <= 1

VARIABLES
  now,            \* the steady clock
  active_timers,  \* active_timers_: from names to their start
  ending,         \* of each thread: {} or the end_timer that waits for the lock
  recording,      \* the records that are running
  hist,           \* the histograms
  reading,        \* {} or the percentile that the reporter computes
  samples         \* history: the latencies recorded in each histogram, sorted

vars == <<now, active_timers, ending, recording, hist, reading, samples>>

Init ==
  /\ now = 0
  /\ active_timers = <<>>
  /\ ending = [t \in Thread |-> {}]
  /\ recording = {}
  /\ hist = [h \in Histogram |-> EmptyHistogram]
  /\ reading = {}
  /\ samples = [h \in Histogram |-> <<>>]

Tick ==
  /\ now < MaxTime
  /\ now' = now + 1
  /\ UNCHANGED <<active_timers, ending, recording, hist, reading, samples>>

Idle(t) == ending[t] = {} /\ \A r \in recording : r.thread # t

\* Mutant: nobody waits.
LockIgnored == TRUE

\* timer_mutex_ is held by an end_timer as long as it records.
LockFree == \A r \in recording : ~r.locked

Running(h) == {r \in recording : r.h = h}

\* The bound of the model: calls that may record, now and before.
MayRecord ==
  MapThenSumSet(LAMBDA h : Len(samples[h]), Histogram) + Cardinality(recording)
    + Cardinality({t \in Thread : ending[t] # {}}) < MaxSamples

----------------------------------------------------------------------------
(* record *)

Fields == {"total_samples", "range", "buckets"}

Begin(t, h, ns, locked) ==
  recording' = recording \cup
    {[thread |-> t, h |-> h, ns |-> ns, loaded |-> hist[h], pending |-> Fields,
      locked |-> locked]}

\* What a store leaves.
Stored(hst, r, field) ==
  CASE field = "total_samples" -> Counted(hst, r.loaded, r.ns)
    [] field = "range"         -> Ranged(hst, r.loaded, r.ns)
    [] field = "buckets"       -> Bucketed(hst, r.loaded, r.ns)

\* A sorted sequence with one number more.
Inserted(s, n) == InsertAt(s, Cardinality({i \in DOMAIN s : s[i] <= n}) + 1, n)

\* The last store ends the record, and the end_timer that called it.
Store(r, field) ==
  /\ hist' = [hist EXCEPT ![r.h] = Stored(@, r, field)]
  /\ IF r.pending = {field}
     THEN /\ recording' = recording \ {r}
          /\ samples' = [samples EXCEPT ![r.h] = Inserted(@, r.ns)]
     ELSE /\ recording' = (recording \ {r}) \cup {[r EXCEPT !.pending = @ \ {field}]}
          /\ UNCHANGED samples
  /\ UNCHANGED <<now, active_timers, ending, reading>>

\* record_e2e_latency and the like.
RecordLatency(t, h, ns) ==
  /\ Idle(t) /\ Running(h) = {} /\ MayRecord
  /\ Begin(t, h, ns, FALSE)
  /\ UNCHANGED <<now, active_timers, ending, hist, reading, samples>>

----------------------------------------------------------------------------
(* Timers. *)

\* The clock is read, and the entry written, under the lock.
start_timer(t, name) ==
  /\ Idle(t) /\ LockFree
  /\ active_timers' = [n \in DOMAIN active_timers \cup {name} |->
                         IF n = name THEN now ELSE active_timers[n]]
  /\ UNCHANGED <<now, ending, recording, hist, reading, samples>>

\* end_timer reads the clock before it takes the lock.
end_timer(t, name) ==
  /\ Idle(t) /\ MayRecord
  /\ ending' = [ending EXCEPT ![t] = {[name |-> name, end |-> now]}]
  /\ UNCHANGED <<now, active_timers, recording, hist, reading, samples>>

\* It holds the lock, finds the entry or not, records where the name says, if
\* it says so, and erases the entry.  The erasure is taken here, because nobody
\* sees the map before the lock is given back.
EndTimerLocked(t) ==
  \E e \in ending[t] :
    LET found == {e.name} \cap DOMAIN active_timers
        to    == UNION {Route[name] : name \in found}
    IN  /\ LockFree
        /\ \A h \in to : \A r \in Running(h) : r.locked
        /\ active_timers' = [n \in DOMAIN active_timers \ found |-> active_timers[n]]
        /\ ending' = [ending EXCEPT ![t] = {}]
        /\ IF to = {} THEN UNCHANGED recording
           ELSE \E h \in to : Begin(t, h, e.end - active_timers[e.name], TRUE)
        /\ UNCHANGED <<now, hist, reading, samples>>

----------------------------------------------------------------------------
(* The reporter: percentile, and reset between its reports. *)

BeginPercentile(h, p) ==
  /\ \A r \in reading : r.answer # {}
  /\ LET total == hist[h].total_samples
     IN  reading' = {[h |-> h, p |-> p, target |-> Target(total, p), next |-> 0,
                      cumulative |-> 0, answer |-> IF total = 0 THEN {0} ELSE {},
                      known |-> samples[h]]}
  /\ UNCHANGED <<now, active_timers, ending, recording, hist, samples>>

\* Mutant: more than the target is wanted.
ReachesBeyond(cumulative, target) == cumulative > target

Reaches(cumulative, target) == cumulative >= target

\* One iteration of the loop; after the last bucket the answer is MAX_LATENCY_NS.
LoadBucket ==
  \E r \in reading :
    LET cumulative == r.cumulative + hist[r.h].buckets[r.next]
        found == IF Reaches(cumulative, r.target) THEN {Middle(r.next)}
                 ELSE IF r.next + 1 = NumBuckets THEN {MaxLatency} ELSE {}
    IN  /\ r.answer = {}
        /\ reading' = {[r EXCEPT !.cumulative = cumulative, !.next = @ + 1, !.answer = found]}
        /\ UNCHANGED <<now, active_timers, ending, recording, hist, samples>>

reset ==
  /\ recording = {} /\ \A r \in reading : r.answer # {}
  /\ hist' = [h \in Histogram |-> EmptyHistogram]
  /\ samples' = [h \in Histogram |-> <<>>]
  /\ reading' = {}
  /\ UNCHANGED <<now, active_timers, ending, recording>>

Next ==
  \/ Tick
  \/ \E t \in Thread, name \in TimerName : start_timer(t, name) \/ end_timer(t, name)
  \/ \E t \in Thread : EndTimerLocked(t)
  \/ \E t \in Thread, h \in Histogram, ns \in DirectLatencies : RecordLatency(t, h, ns)
  \/ \E r \in recording : \E field \in r.pending : Store(r, field)
  \/ \E h \in Histogram, p \in Percentiles : BeginPercentile(h, p)
  \/ LoadBucket
  \/ reset

Spec == Init /\ [][Next]_vars

----------------------------------------------------------------------------
IsHistogram(hst) ==
  /\ hst.buckets \in [0..(NumBuckets - 1) -> Nat]
  /\ hst.total_samples \in Nat
  /\ hst.sum_ns \in Int /\ hst.min_ns \in Int /\ hst.max_ns \in Int

\* The type of every variable; the lock has one holder.
TypeOK ==
  /\ now \in 0..MaxTime
  /\ DOMAIN active_timers \subseteq TimerName
  /\ \A name \in DOMAIN active_timers : active_timers[name] \in 0..MaxTime
  /\ \A t \in Thread : \A e \in ending[t] : e.name \in TimerName /\ e.end \in 0..now
  /\ \A h \in Histogram : IsHistogram(hist[h])
  /\ \A r \in recording : r.thread \in Thread /\ r.h \in Histogram /\ r.pending \subseteq Fields
  /\ Cardinality({r \in recording : r.locked}) <= 1

\* The latencies of which a record into h has begun, sorted (Begin adds one to
\* a histogram into which no other runs).
Begun(h) ==
  IF Running(h) = {} THEN samples[h]
  ELSE Inserted(samples[h], (CHOOSE r \in Running(h) : TRUE).ns)

Clamp(ns) == LesserOf(GreaterOf(ns, 0), MaxLatency - 1)

\* A percentile that is read while threads record is, to half a bucket, the
\* latency of that rank among those recorded when the reader began and those
\* that have begun to be recorded since: what came in between moves it no
\* further, in whatever order the stores of a record become visible.  The
\* reader runs off the last bucket only if a record it counted had not reached
\* its bucket yet.
PercentileBracketed ==
  \A r \in reading : \A v \in r.answer :
    LET begun == Begun(r.h)
        half  == BucketWidth \div 2
    IN  \E n \in Len(r.known)..Len(begun) :
          LET k == (n * r.p[1] + r.p[2] - 1) \div r.p[2]
          IN  \/ n = 0 /\ v = 0
              \/ /\ n > 0 /\ v = MaxLatency
                 /\ Len(r.known) < k
              \/ /\ n > 0 /\ v # MaxLatency
                 /\ Clamp(begun[k]) - half <= v
                 /\ k <= Len(r.known) => v <= Clamp(r.known[k]) + half

\* Whenever no record into it runs, a histogram has every latency once: in its
\* bucket, in the total, the sum and the extremes, also those that are out of
\* range, and those below zero, which a timer measures if another thread starts
\* it again between the end's look at the clock and its lock.
HistogramIsExact ==
  \A h \in Histogram : Running(h) = {} =>
    LET all == samples[h]
    IN  /\ hist[h].total_samples = Len(all)
        /\ hist[h].sum_ns = MapThenSumSet(LAMBDA i : all[i], DOMAIN all)
        /\ all # <<>> => hist[h].min_ns = all[1] /\ hist[h].max_ns = all[Len(all)]
        /\ \A b \in 0..(NumBuckets - 1) :
             hist[h].buckets[b] =
               Cardinality({i \in DOMAIN all :
                 Clamp(all[i]) \in (b * BucketWidth)..((b + 1) * BucketWidth - 1)})
=============================================================================
