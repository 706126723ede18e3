--------------------------- MODULE TelemetryProofs ---------------------------
(***************************************************************************)
(* Telemetry for all sets of threads, timers and histograms, any number    *)
(* and width of buckets, any latencies and any percentiles: who records    *)
(* into what, that nothing recorded is lost or counted twice, and that a   *)
(* percentile that is read meanwhile is one of what was recorded.          *)
(***************************************************************************)
EXTENDS Telemetry, SumProofs

----------------------------------------------------------------------------
(* Buckets. *)

Latency == (-Huge)..Huge

\* What a division by the width means.
LEMMA DivLemma ==
  ASSUME NEW a \in Nat, NEW w \in Nat \ {0}
  PROVE  LET q == a \div w IN q \in Nat /\ q * w <= a /\ a < q * w + w
OBVIOUS

\* Multiples of the width are in the order of their factors.
LEMMA TimesLemma ==
  ASSUME NEW i \in Nat, NEW j \in Nat, NEW w \in Nat \ {0}
  PROVE  /\ i * w \in Nat /\ (i + 1) * w = i * w + w
         /\ i <= j <=> i * w <= j * w
<1>1. i * w \in Nat /\ j * w \in Nat /\ (i + 1) * w = i * w + w
  OBVIOUS
<1>2. ASSUME i <= j PROVE i * w <= j * w
  BY <1>2
<1>3. ASSUME j < i PROVE j * w < i * w
  <2>1. i - j \in Nat \ {0} /\ i * w = j * w + (i - j) * w
    BY <1>3
  <2>2. (i - j) * w > 0
    BY <2>1
  <2> QED BY <1>1, <2>1, <2>2
<1> QED BY <1>1, <1>2, <1>3

\* Every latency, brought into the range, is in one bucket; the order of
\* latencies is kept.
LEMMA ClampLemma ==
  ASSUME NEW ns \in Int
  PROVE  /\ Clamp(ns) \in Nat /\ Clamp(ns) < NumBuckets * BucketWidth
         /\ \A m \in Int : ns <= m => Clamp(ns) <= Clamp(m)
<1>1. NumBuckets * BucketWidth \in Nat \ {0}
  BY BucketAssumption
<1> DEFINE top == NumBuckets * BucketWidth
<1> HIDE DEF top
<1> QED BY <1>1 DEF Clamp, MaxLatency, LesserOf, GreaterOf, top

LEMMA BucketLemma ==
  ASSUME NEW ns \in Int
  PROVE  /\ Bucket(ns) \in 0..(NumBuckets - 1)
         /\ \A b \in 0..(NumBuckets - 1) :
              /\ Clamp(ns) < b * BucketWidth <=> Bucket(ns) < b
              /\ Clamp(ns) < (b + 1) * BucketWidth <=> Bucket(ns) <= b
<1> DEFINE w == BucketWidth
           a == GreaterOf(ns, 0)
           q == a \div w
           top == NumBuckets * w
           c == Clamp(ns)
<1>1. a \in Nat /\ w \in Nat \ {0} /\ NumBuckets \in Nat \ {0}
  BY BucketAssumption DEF GreaterOf
<1>2. q \in Nat /\ q * w <= a /\ a < q * w + w
  <2> HIDE DEF a, w
  <2> QED BY <1>1, DivLemma
<1>3. Bucket(ns) = IF q <= NumBuckets - 1 THEN q ELSE NumBuckets - 1
  BY DEF Bucket, LesserOf
<1>4. c = IF a <= top - 1 THEN a ELSE top - 1
  BY DEF Clamp, MaxLatency, LesserOf
<1> HIDE DEF a, q, top, c, w
<1>5. Bucket(ns) \in 0..(NumBuckets - 1)
  BY <1>1, <1>2, <1>3
<1>6. ASSUME NEW b \in 0..NumBuckets
      PROVE  c < b * w <=> Bucket(ns) < b
  <2>1. b * w \in Nat /\ top \in Nat /\ b * w <= top
    BY <1>1, TimesLemma DEF top
  <2>2. CASE q < b
    <3>1. (q + 1) * w = q * w + w /\ q * w \in Nat /\ (q + 1) * w <= b * w
      <4>1. q + 1 \in Nat /\ b \in Nat /\ q + 1 <= b
        BY <1>2, <2>2
      <4> QED BY <1>1, <1>2, <4>1, TimesLemma
    <3>2. a < b * w
      BY <1>1, <1>2, <2>1, <3>1
    <3>3. Bucket(ns) < b
      BY <1>1, <1>2, <1>3, <2>2
    <3> QED BY <1>1, <1>4, <2>1, <3>2, <3>3
  <2>3. CASE b <= q /\ b <= NumBuckets - 1
    <3>1. b * w <= q * w /\ q * w \in Nat
      BY <1>1, <1>2, <2>3, TimesLemma
    <3>2. b * w + w <= top
      <4>1. b + 1 \in Nat /\ b + 1 <= NumBuckets /\ b \in Nat
        BY <1>1, <2>3
      <4>2. (b + 1) * w = b * w + w /\ (b + 1) * w <= NumBuckets * w
        BY <1>1, <4>1, TimesLemma
      <4> QED BY <4>2 DEF top
    <3>3. ~(c < b * w)
      BY <1>1, <1>2, <1>4, <2>1, <3>1, <3>2
    <3>4. ~(Bucket(ns) < b)
      BY <1>1, <1>2, <1>3, <2>3
    <3> QED BY <3>3, <3>4
  <2>4. CASE b <= q /\ b = NumBuckets
    <3>1. c < b * w
      BY <1>1, <1>4, <2>1, <2>4 DEF top
    <3> QED BY <1>1, <1>5, <2>4, <3>1
  <2> QED BY <1>1, <1>2, <2>2, <2>3, <2>4
<1>7. ASSUME NEW b \in 0..(NumBuckets - 1)
      PROVE  /\ c < b * w <=> Bucket(ns) < b
             /\ c < (b + 1) * w <=> Bucket(ns) <= b
  <2>1. b \in 0..NumBuckets /\ b + 1 \in 0..NumBuckets
    BY <1>1
  <2>2. Bucket(ns) < b + 1 <=> Bucket(ns) <= b
    BY <1>5
  <2> QED BY <1>6, <2>1, <2>2
<1> QED BY <1>5, <1>7 DEF c, w

----------------------------------------------------------------------------
(* Sorted sequences. *)

Sorted(s) == s \in Seq(Latency) /\ \A i, j \in DOMAIN s : i <= j => s[i] <= s[j]

\* How many numbers of a sequence are in the buckets before the i-th, and in
\* the i-th.
Below(s, i) == Cardinality({j \in DOMAIN s : Clamp(s[j]) < i * BucketWidth})

InBucket(s, b) ==
  Cardinality({i \in DOMAIN s :
    Clamp(s[i]) \in (b * BucketWidth)..((b + 1) * BucketWidth - 1)})

\* A set of positions with all that come before one of them is an interval.
LEMMA PrefixLemma ==
  ASSUME NEW n \in Nat, NEW L \in SUBSET (1..n),
         \A i \in L : \A j \in 1..n : j <= i => j \in L
  PROVE  Cardinality(L) \in 0..n /\ \A j \in 1..n : j \in L <=> j <= Cardinality(L)
<1>1. CASE L = 1..n
  <2>1. Cardinality(L) = n
    BY <1>1, FS_Interval
  <2> QED BY <1>1, <2>1
<1>2. CASE L # 1..n
  <2> DEFINE R == (1..n) \ L
  <2>1. R \in SUBSET Nat /\ R # {}
    <3>1. L \subseteq 1..n /\ 1..n \subseteq Nat
      OBVIOUS
    <3> QED BY <1>2, <3>1
  <2>2. PICK m \in R : \A j \in R : m <= j
    <3> HIDE DEF R
    <3> QED BY <2>1, LeastLemma
  <2>3. \A j \in 1..n : j \in L <=> j <= m - 1
    <3> SUFFICES ASSUME NEW j \in 1..n PROVE j \in L <=> j <= m - 1
      OBVIOUS
    <3>1. CASE j < m
      <4>1. ~(m <= j)
        BY <3>1, <2>2
      <4>2. j \in L
        BY <2>2, <4>1
      <4> QED BY <3>1, <4>2
    <3>2. CASE m <= j
      <4>1. j \notin L
        BY <2>2, <3>2
      <4> QED BY <3>2, <4>1
    <3> QED BY <3>1, <3>2
  <2>4. L = 1..(m - 1)
    <3>1. L \subseteq 1..n /\ m \in 1..n
      OBVIOUS
    <3>2. \A j : j \in 1..(m - 1) => j \in 1..n /\ j <= m - 1
      BY <3>1
    <3>3. \A j \in 1..n : j <= m - 1 => j \in 1..(m - 1)
      OBVIOUS
    <3> QED BY <2>3, <3>1, <3>2, <3>3
  <2>5. Cardinality(L) = m - 1
    <3>1. m - 1 \in Int /\ 1 \in Int /\ m \in 1..n
      OBVIOUS
    <3>2. Cardinality(1..(m - 1)) = IF 1 > m - 1 THEN 0 ELSE m - 1 - 1 + 1
      BY <3>1, FS_Interval
    <3> QED BY <2>4, <3>1, <3>2
  <2> QED BY <2>3, <2>5
<1> QED BY <1>1, <1>2

\* The numbers below a bucket are the first ones of a sorted sequence.
LEMMA CutLemma ==
  ASSUME NEW s, Sorted(s), NEW i \in Nat
  PROVE  /\ Below(s, i) \in 0..Len(s)
         /\ \A j \in 1..Len(s) : j <= Below(s, i) <=> Clamp(s[j]) < i * BucketWidth
<1> DEFINE n == Len(s)
           v == i * BucketWidth
           L == {j \in DOMAIN s : Clamp(s[j]) < v}
<1>1. n \in Nat /\ DOMAIN s = 1..n /\ \A j \in 1..n : s[j] \in Int
  BY HugeAssumption DEF Sorted, Latency
<1>2. v \in Nat
  BY BucketAssumption
<1>3. \A j \in 1..n : Clamp(s[j]) \in Nat
  BY <1>1, ClampLemma
<1> HIDE DEF n, v
<1>4. ASSUME NEW j \in L, NEW k \in 1..n, k <= j PROVE k \in L
  <2>1. s[k] <= s[j] /\ j \in 1..n
    BY <1>1, <1>4 DEF Sorted
  <2>2. Clamp(s[k]) <= Clamp(s[j])
    BY <1>1, <2>1, ClampLemma
  <2>3. Clamp(s[j]) < v
    OBVIOUS
  <2>4. Clamp(s[k]) < v
    BY <1>2, <1>3, <2>1, <2>2, <2>3
  <2> QED BY <1>1, <2>4
<1>5. L \in SUBSET (1..n)
  BY <1>1
<1>6. Cardinality(L) \in 0..n /\ \A j \in 1..n : j \in L <=> j <= Cardinality(L)
  <2> HIDE DEF L
  <2> QED BY <1>1, <1>4, <1>5, PrefixLemma
<1> QED BY <1>1, <1>6 DEF Below, v, n

\* A bucket is what is below the next one and not below it.
LEMMA InBucketLemma ==
  ASSUME NEW s, Sorted(s), NEW b \in Nat
  PROVE  /\ InBucket(s, b) = Below(s, b + 1) - Below(s, b)
         /\ Below(s, b) <= Below(s, b + 1)
<1> DEFINE n == Len(s)
           u == b * BucketWidth
           v == (b + 1) * BucketWidth
           k == Below(s, b)
           m == Below(s, b + 1)
           L == {i \in DOMAIN s : Clamp(s[i]) \in u..(v - 1)}
<1>1. n \in Nat /\ DOMAIN s = 1..n /\ \A j \in 1..n : s[j] \in Int
  BY HugeAssumption DEF Sorted, Latency
<1>2. u \in Nat /\ v \in Nat /\ u <= v
  BY BucketAssumption, TimesLemma
<1>3. k \in 0..n /\ \A j \in 1..n : j <= k <=> Clamp(s[j]) < u
  BY CutLemma
<1>4. m \in 0..n /\ \A j \in 1..n : j <= m <=> Clamp(s[j]) < v
  <2>1. b + 1 \in Nat
    OBVIOUS
  <2> QED BY <2>1, CutLemma
<1>5. \A j \in 1..n : Clamp(s[j]) \in Nat
  BY <1>1, ClampLemma
<1>6. InBucket(s, b) = Cardinality(L)
  BY DEF InBucket
<1> HIDE DEF n, u, v, k, m
<1>7. k <= m
  <2> SUFFICES ASSUME m < k PROVE FALSE
    BY <1>3, <1>4
  <2>1. k \in 1..n
    BY <1>3, <1>4
  <2> QED BY <1>2, <1>3, <1>4, <1>5, <2>1
<1>8. L = (k + 1)..m
  <2>1. \A j \in 1..n : j \in L <=> j > k /\ j <= m
    BY <1>1, <1>2, <1>3, <1>4, <1>5
  <2> QED BY <1>1, <1>3, <1>4, <2>1
<1>9. Cardinality(L) = m - k
  <2>1. k + 1 \in Int /\ m \in Int
    BY <1>3, <1>4
  <2>2. Cardinality((k + 1)..m) = IF k + 1 > m THEN 0 ELSE m - (k + 1) + 1
    BY <2>1, FS_Interval
  <2> HIDE DEF L
  <2> QED BY <1>3, <1>4, <1>7, <1>8, <2>2
<1> QED BY <1>6, <1>7, <1>9 DEF k, m

\* Where a number is inserted.
Position(s, x) == Cardinality({i \in DOMAIN s : s[i] <= x})

\* What comes before it keeps its place, what comes behind is one further.
LEMMA InsertedLemma ==
  ASSUME NEW s, Sorted(s), NEW x \in Latency
  PROVE  LET t == Inserted(s, x)
             k == Position(s, x)
         IN  /\ t \in Seq(Latency) /\ Len(t) = Len(s) + 1 /\ k \in 0..Len(s)
             /\ \A j \in 1..Len(s) : j <= k <=> s[j] <= x
             /\ \A j \in 1..(Len(s) + 1) :
                  t[j] = IF j <= k THEN s[j] ELSE IF j = k + 1 THEN x ELSE s[j - 1]
<1> DEFINE n == Len(s)
           L == {i \in DOMAIN s : s[i] <= x}
           k == Cardinality(L)
           t == InsertAt(s, k + 1, x)
<1>1. n \in Nat /\ DOMAIN s = 1..n /\ s \in Seq(Latency)
  BY DEF Sorted
<1>2. x \in Int /\ Latency \subseteq Int /\ \A j \in 1..n : s[j] \in Int
  BY <1>1, HugeAssumption DEF Latency
<1>3. L \in SUBSET (1..n)
  BY <1>1
<1>4. ASSUME NEW i \in L, NEW j \in 1..n, j <= i PROVE j \in L
  <2>1. s[j] <= s[i] /\ i \in 1..n /\ s[i] <= x
    BY <1>1, <1>4 DEF Sorted
  <2> QED BY <1>1, <1>2, <2>1
<1>5. k \in 0..n /\ \A j \in 1..n : j \in L <=> j <= k
  <2> HIDE DEF L, n
  <2> QED BY <1>1, <1>3, <1>4, PrefixLemma
<1>6. \A j \in 1..n : j <= k <=> s[j] <= x
  BY <1>1, <1>5
<1>7. Inserted(s, x) = t /\ Position(s, x) = k
  BY DEF Inserted, Position
<1> HIDE DEF k, L
<1> DEFINE front == SubSeq(s, 1, k)
           back == SubSeq(s, k + 1, n)
           upto == front \o <<x>>
<1>8. t = upto \o back
  <2>1. (k + 1) - 1 = k
    BY <1>5
  <2> QED BY <2>1 DEF InsertAt
<1>9. /\ front \in Seq(Latency) /\ Len(front) = k /\ \A j \in 1..k : front[j] = s[j]
      /\ back \in Seq(Latency) /\ Len(back) = n - k
      /\ \A j \in 1..(n - k) : back[j] = s[k + j]
  <2> HIDE DEF n
  <2>1. front \in Seq(Latency) /\ Len(front) = k /\ \A j \in 1..k : front[j] = s[j]
    BY <1>1, <1>5
  <2>2. back \in Seq(Latency) /\ Len(back) = n - k
    BY <1>1, <1>5
  <2>3. \A j \in 1..(n - k) : back[j] = s[k + j]
    BY <1>1, <1>5
  <2> QED BY <2>1, <2>2, <2>3
<1> HIDE DEF t, front, back, n
<1>10. /\ upto \in Seq(Latency) /\ Len(upto) = k + 1 /\ upto[k + 1] = x
       /\ \A j \in 1..k : upto[j] = s[j]
  BY <1>1, <1>5, <1>9
<1> HIDE DEF upto
<1>11. t \in Seq(Latency) /\ Len(t) = n + 1
  <2>1. t \in Seq(Latency)
    BY <1>8, <1>9, <1>10
  <2>2. upto \in Seq(Latency) /\ back \in Seq(Latency)
    BY <1>9, <1>10
  <2>3. Len(t) = Len(upto) + Len(back)
    BY ONLY <1>8, <2>2
  <2> QED BY <1>1, <1>5, <1>9, <1>10, <2>1, <2>3
<1>12. \A j \in 1..(n + 1) : t[j] = IF j <= k THEN s[j] ELSE IF j = k + 1 THEN x ELSE s[j - 1]
  <2> TAKE j \in 1..(n + 1)
  <2>1. t[j] = IF j <= k + 1 THEN upto[j] ELSE back[j - (k + 1)]
    BY <1>1, <1>5, <1>8, <1>9, <1>10
  <2>2. CASE j <= k
    BY <1>5, <1>10, <2>1, <2>2
  <2>3. CASE j = k + 1
    BY <1>5, <1>10, <2>1, <2>3
  <2>4. CASE j > k + 1
    <3>1. j - (k + 1) \in 1..(n - k) /\ k + (j - (k + 1)) = j - 1
      BY <1>1, <1>5, <2>4
    <3> QED BY <1>5, <1>9, <2>1, <2>4, <3>1
  <2> QED BY <1>5, <2>2, <2>3, <2>4
<1> QED BY <1>5, <1>6, <1>7, <1>11, <1>12 DEF n

LEMMA InsertedSorted ==
  ASSUME NEW s, Sorted(s), NEW x \in Latency
  PROVE  Sorted(Inserted(s, x))
<1> DEFINE n == Len(s)
           t == Inserted(s, x)
           k == Position(s, x)
<1>1. n \in Nat /\ \A j \in 1..n : s[j] \in Int
  BY HugeAssumption DEF Sorted, Latency
<1>2. x \in Int /\ \A i, j \in 1..n : i <= j => s[i] <= s[j]
  BY HugeAssumption DEF Sorted, Latency
<1>3. /\ t \in Seq(Latency) /\ Len(t) = n + 1 /\ k \in 0..n
      /\ \A j \in 1..n : j <= k <=> s[j] <= x
      /\ \A j \in 1..(n + 1) :
           t[j] = IF j <= k THEN s[j] ELSE IF j = k + 1 THEN x ELSE s[j - 1]
  BY InsertedLemma
<1>4. DOMAIN t = 1..(n + 1)
  BY <1>3
<1> HIDE DEF n, t, k
<1>5. ASSUME NEW i \in 1..(n + 1), NEW j \in 1..(n + 1), i <= j PROVE t[i] <= t[j]
  <2>1. CASE j <= k
    <3>1. i \in 1..n /\ j \in 1..n /\ i <= k
      BY <1>1, <1>3, <1>5, <2>1
    <3> QED BY <1>2, <1>3, <1>5, <2>1, <3>1
  <2>2. CASE j = k + 1
    <3>1. CASE i <= k
      BY <1>1, <1>3, <2>2, <3>1
    <3>2. CASE i = k + 1
      BY <1>1, <1>2, <1>3, <2>2, <3>2
    <3> QED BY <1>3, <1>5, <2>2, <3>1, <3>2
  <2>3. CASE j > k + 1
    <3>1. j - 1 \in 1..n /\ ~(j - 1 <= k) /\ t[j] = s[j - 1]
      BY <1>1, <1>3, <2>3
    <3>2. CASE i <= k
      <4>1. i \in 1..n /\ i <= j - 1 /\ t[i] = s[i]
        BY <1>1, <1>3, <2>3, <3>2
      <4> QED BY <1>2, <3>1, <4>1
    <3>3. CASE i = k + 1
      <4>1. t[i] = x /\ ~(s[j - 1] <= x)
        BY <1>3, <3>1, <3>3
      <4> QED BY <1>1, <1>2, <3>1, <4>1
    <3>4. CASE i > k + 1
      <4>1. i - 1 \in 1..n /\ i - 1 <= j - 1 /\ t[i] = s[i - 1]
        BY <1>1, <1>3, <1>5, <3>4
      <4> QED BY <1>2, <3>1, <4>1
    <3> QED BY <1>3, <3>2, <3>3, <3>4
  <2> QED BY <1>3, <2>1, <2>2, <2>3
<1>6. Sorted(t)
  BY <1>3, <1>4, <1>5 DEF Sorted
<1> QED BY <1>6 DEF t

\* One more is below the buckets behind its own.
LEMMA BelowInserted ==
  ASSUME NEW s, Sorted(s), NEW x \in Latency, NEW i \in Nat
  PROVE  Below(Inserted(s, x), i) =
           IF Clamp(x) < i * BucketWidth THEN Below(s, i) + 1 ELSE Below(s, i)
<1> DEFINE n == Len(s)
           t == Inserted(s, x)
           k == Position(s, x)
           v == i * BucketWidth
           c == Below(s, i)
           d == Below(t, i)
<1>1. n \in Nat /\ x \in Int /\ \A j \in 1..n : s[j] \in Int
  BY HugeAssumption DEF Sorted, Latency
<1>2. /\ Len(t) = n + 1 /\ k \in 0..n
      /\ \A j \in 1..n : j <= k <=> s[j] <= x
      /\ \A j \in 1..(n + 1) :
           t[j] = IF j <= k THEN s[j] ELSE IF j = k + 1 THEN x ELSE s[j - 1]
  BY InsertedLemma
<1>3. c \in 0..n /\ \A j \in 1..n : j <= c <=> Clamp(s[j]) < v
  BY CutLemma
<1>4. d \in 0..(n + 1) /\ \A j \in 1..(n + 1) : j <= d <=> Clamp(t[j]) < v
  BY <1>2, InsertedSorted, CutLemma
<1>5. v \in Nat /\ Clamp(x) \in Nat /\ \A j \in 1..n : Clamp(s[j]) \in Nat
  <2>1. v \in Nat
    BY BucketAssumption
  <2>2. Clamp(x) \in Nat /\ \A j \in 1..n : Clamp(s[j]) \in Nat
    <3> HIDE DEF n
    <3> QED BY <1>1, ClampLemma
  <2> QED BY <2>1, <2>2
<1>6. /\ \A j \in 1..n : j <= k => Clamp(s[j]) <= Clamp(x)
      /\ \A j \in 1..n : j > k => Clamp(x) <= Clamp(s[j])
  <2>1. ASSUME NEW j \in 1..n, j <= k PROVE Clamp(s[j]) <= Clamp(x)
    BY <1>1, <1>2, <2>1, ClampLemma
  <2>2. ASSUME NEW j \in 1..n, j > k PROVE Clamp(x) <= Clamp(s[j])
    <3>1. x <= s[j]
      BY <1>1, <1>2, <2>2
    <3> QED BY <1>1, <3>1, ClampLemma
  <2> QED BY <2>1, <2>2
<1> HIDE DEF n, t, k, v, c, d
<1>7. CASE Clamp(x) < v
  <2>1. k <= c
    <3> SUFFICES ASSUME c < k PROVE FALSE
      BY <1>2, <1>3
    <3>1. c + 1 \in 1..n /\ c + 1 <= k
      BY <1>1, <1>2, <1>3
    <3>2. Clamp(s[c + 1]) < v
      BY <1>5, <1>6, <1>7, <3>1
    <3> QED BY <1>3, <3>1, <3>2
  <2>2. d >= c + 1
    <3>1. c + 1 \in 1..(n + 1)
      BY <1>1, <1>3
    <3>2. Clamp(t[c + 1]) < v
      <4>1. CASE c = k
        BY <1>2, <1>7, <3>1, <4>1
      <4>2. CASE c > k
        <5>1. t[c + 1] = s[c] /\ c \in 1..n
          BY <1>2, <1>3, <3>1, <4>2
        <5> QED BY <1>3, <5>1
      <4> QED BY <1>2, <1>3, <2>1, <4>1, <4>2
    <3> QED BY <1>3, <1>4, <3>1, <3>2
  <2>3. d <= c + 1
    <3> SUFFICES ASSUME d > c + 1 PROVE FALSE
      BY <1>3, <1>4
    <3>1. c + 2 \in 1..(n + 1) /\ c + 2 <= d /\ c + 1 \in 1..n
      BY <1>1, <1>3, <1>4
    <3>2. t[c + 2] = s[c + 1]
      <4>1. ~(c + 2 <= k) /\ c + 2 # k + 1 /\ (c + 2) - 1 = c + 1
        BY <1>2, <1>3, <2>1
      <4> QED BY <1>2, <3>1, <4>1
    <3>3. Clamp(s[c + 1]) < v
      BY <1>4, <3>1, <3>2
    <3> QED BY <1>3, <3>1, <3>3
  <2> QED BY <1>3, <1>4, <1>7, <2>2, <2>3 DEF c, d, t, v
<1>8. CASE ~(Clamp(x) < v)
  <2>1. c <= k
    <3> SUFFICES ASSUME k < c PROVE FALSE
      BY <1>2, <1>3
    <3>1. c \in 1..n /\ c > k
      BY <1>2, <1>3
    <3>2. Clamp(x) <= Clamp(s[c]) /\ Clamp(s[c]) < v
      BY <1>3, <1>6, <3>1
    <3> QED BY <1>5, <1>8, <3>1, <3>2
  <2>2. d >= c
    <3>1. CASE c = 0
      BY <1>4, <3>1
    <3>2. CASE c > 0
      <4>1. c \in 1..n /\ c \in 1..(n + 1)
        BY <1>1, <1>3, <3>2
      <4>2. t[c] = s[c]
        BY <1>2, <2>1, <4>1
      <4> QED BY <1>3, <1>4, <4>1, <4>2
    <3> QED BY <1>3, <3>1, <3>2
  <2>3. d <= c
    <3> SUFFICES ASSUME d > c PROVE FALSE
      BY <1>3, <1>4
    <3>1. c + 1 \in 1..(n + 1) /\ Clamp(t[c + 1]) < v
      BY <1>1, <1>3, <1>4
    <3>2. CASE c + 1 <= k
      <4>1. t[c + 1] = s[c + 1] /\ c + 1 \in 1..n
        BY <1>1, <1>2, <1>3, <3>1, <3>2
      <4> QED BY <1>3, <3>1, <4>1
    <3>3. CASE c = k
      BY <1>2, <1>8, <3>1, <3>3
    <3> QED BY <1>2, <1>3, <2>1, <3>2, <3>3
  <2> QED BY <1>3, <1>4, <1>8, <2>2, <2>3 DEF c, d, t, v
<1> QED BY <1>7, <1>8 DEF v

\* It is counted in its own bucket.
LEMMA InBucketInserted ==
  ASSUME NEW s, Sorted(s), NEW x \in Latency, NEW b \in 0..(NumBuckets - 1)
  PROVE  InBucket(Inserted(s, x), b) =
           IF Bucket(x) = b THEN InBucket(s, b) + 1 ELSE InBucket(s, b)
<1>1. x \in Int /\ b \in Nat /\ b + 1 \in Nat
  BY HugeAssumption, BucketAssumption DEF Latency
<1>2. Bucket(x) \in 0..(NumBuckets - 1)
  BY <1>1, BucketLemma
<1>3. /\ Clamp(x) < b * BucketWidth <=> Bucket(x) < b
      /\ Clamp(x) < (b + 1) * BucketWidth <=> Bucket(x) <= b
  BY <1>1, BucketLemma
<1>4. /\ InBucket(s, b) = Below(s, b + 1) - Below(s, b)
      /\ InBucket(Inserted(s, x), b) = Below(Inserted(s, x), b + 1) - Below(Inserted(s, x), b)
  BY <1>1, InBucketLemma, InsertedSorted
<1>5. /\ Below(Inserted(s, x), b) =
           IF Clamp(x) < b * BucketWidth THEN Below(s, b) + 1 ELSE Below(s, b)
      /\ Below(Inserted(s, x), b + 1) =
           IF Clamp(x) < (b + 1) * BucketWidth THEN Below(s, b + 1) + 1 ELSE Below(s, b + 1)
  BY <1>1, BelowInserted
<1>6. Below(s, b) \in Int /\ Below(s, b + 1) \in Int
  BY <1>1, CutLemma
<1> QED BY <1>2, <1>3, <1>4, <1>5, <1>6

\* Its sum is one number more.
LEMMA SumInserted ==
  ASSUME NEW s, Sorted(s), NEW x \in Latency
  PROVE  SumOver(Inserted(s, x), DOMAIN Inserted(s, x)) = SumOver(s, DOMAIN s) + x
<1> DEFINE n == Len(s)
           t == Inserted(s, x)
           k == Position(s, x)
           h == [j \in 1..n |-> IF j <= k THEN j ELSE j + 1]
<1>1. n \in Nat /\ x \in Int /\ DOMAIN s = 1..n /\ \A j \in 1..n : s[j] \in Int
  BY HugeAssumption DEF Sorted, Latency
<1>2. /\ t \in Seq(Latency) /\ Len(t) = n + 1 /\ k \in 0..n
      /\ \A j \in 1..(n + 1) :
           t[j] = IF j <= k THEN s[j] ELSE IF j = k + 1 THEN x ELSE s[j - 1]
  BY InsertedLemma
<1>3. DOMAIN t = 1..(n + 1)
  BY <1>2
<1> HIDE DEF n, t, k
<1>4. \A j \in 1..n : t[h[j]] = s[j]
  <2> TAKE j \in 1..n
  <2>1. CASE j <= k
    <3>1. h[j] = j /\ j \in 1..(n + 1)
      BY <1>1, <2>1
    <3> QED BY <1>2, <2>1, <3>1
  <2>2. CASE ~(j <= k)
    <3>1. h[j] = j + 1 /\ j + 1 \in 1..(n + 1) /\ ~(j + 1 <= k) /\ j + 1 # k + 1
          /\ (j + 1) - 1 = j
      BY <1>1, <1>2, <2>2
    <3> QED BY <1>2, <3>1
  <2> QED BY <2>1, <2>2
<1>5. Renames(h, 1..n)
  BY <1>1, <1>2 DEF Renames
<1>6. Image(h, 1..n) = (1..(n + 1)) \ {k + 1}
  <2>1. ASSUME NEW j \in 1..n PROVE h[j] \in (1..(n + 1)) \ {k + 1}
    BY <1>1, <1>2
  <2>2. ASSUME NEW i \in (1..(n + 1)) \ {k + 1} PROVE \E j \in 1..n : h[j] = i
    <3>1. CASE i <= k
      <4>1. i \in 1..n /\ h[i] = i
        BY <1>1, <1>2, <3>1
      <4> QED BY <4>1
    <3>2. CASE i > k
      <4>1. i - 1 \in 1..n /\ h[i - 1] = i
        BY <1>1, <1>2, <3>2
      <4> QED BY <4>1
    <3> QED BY <1>2, <3>1, <3>2
  <2> HIDE DEF h
  <2> QED BY <2>1, <2>2 DEF Image
<1>7. IsFiniteSet(1..n) /\ IsFiniteSet(1..(n + 1))
  BY <1>1, FS_Interval
<1>8. SumOver(t, Image(h, 1..n)) = SumOver(s, 1..n)
  <2> HIDE DEF h
  <2> QED BY <1>1, <1>4, <1>5, <1>7, SumImage
<1>9. SumOver(t, 1..(n + 1)) = t[k + 1] + SumOver(t, (1..(n + 1)) \ {k + 1})
  <2>1. k + 1 \in 1..(n + 1)
    BY <1>1, <1>2
  <2>2. \A j \in 1..(n + 1) : t[j] \in Int
    BY <1>2, <1>3, HugeAssumption DEF Latency
  <2> QED BY <1>7, <2>1, <2>2, SumRemove
<1>10. t[k + 1] = x /\ SumOver(s, 1..n) \in Int
  <2>1. k + 1 \in 1..(n + 1) /\ ~(k + 1 <= k)
    BY <1>1, <1>2
  <2> QED BY <1>1, <1>2, <1>7, <2>1, SumType
<1> DEFINE A == SumOver(t, Image(h, 1..n))
           B == SumOver(s, 1..n)
           C == SumOver(t, 1..(n + 1))
<1>11. A = B /\ C = x + A /\ B \in Int
  BY <1>6, <1>8, <1>9, <1>10
<1> HIDE DEF A, B, C
<1>12. C = B + x
  BY <1>1, <1>11
<1> QED BY <1>1, <1>3, <1>12 DEF t, B, C

\* The rank of a percentile is a rank.
LEMMA TargetLemma ==
  ASSUME NEW n \in Nat \ {0}, NEW p \in Percentiles
  PROVE  /\ Target(n, p) = (n * p[1] + p[2] - 1) \div p[2]
         /\ Target(n, p) \in 1..n
<1> DEFINE a == p[1]
           d == p[2]
           m == n * a + d - 1
           q == m \div d
<1>1. a \in Nat \ {0} /\ d \in Nat \ {0} /\ a <= d
  BY PercentilesAssumption
<1> HIDE DEF a, d
<1>2. n * a \in Nat /\ a <= n * a /\ n * a <= n * d /\ n * d \in Nat /\ m \in Nat
  <2>1. n * a \in Nat /\ n * d \in Nat
    BY <1>1
  <2>2. a <= n * a
    <3>1. n * a = a + (n - 1) * a /\ (n - 1) * a \in Nat
      BY <1>1
    <3> QED BY <1>1, <2>1, <3>1
  <2>3. n * a <= n * d
    <3>1. n * d = n * a + n * (d - a) /\ n * (d - a) \in Nat
      BY <1>1
    <3> QED BY <2>1, <3>1
  <2> QED BY <1>1, <2>1, <2>2, <2>3
<1>3. q \in Nat /\ q * d <= m /\ m < q * d + d
  <2> HIDE DEF m
  <2> QED BY <1>1, <1>2, DivLemma
<1> HIDE DEF q
<1>4. q >= 1
  <2> SUFFICES ASSUME q = 0 PROVE FALSE
    BY <1>3
  <2>1. q * d = 0
    BY <1>1
  <2> QED BY <1>1, <1>2, <1>3, <2>1
<1>5. q <= n
  <2> SUFFICES ASSUME n + 1 <= q PROVE FALSE
    BY <1>3
  <2>1. (n + 1) * d = n * d + d /\ (n + 1) * d <= q * d /\ q * d \in Nat
    <3>1. n + 1 \in Nat
      OBVIOUS
    <3> QED BY <1>1, <1>3, <3>1, TimesLemma
  <2> QED BY <1>1, <1>2, <1>3, <2>1
<1>6. Target(n, p) = GreaterOf(q, 1)
  BY DEF Target, q, a, d
<1>7. Target(n, p) = q
  BY <1>3, <1>4, <1>6 DEF GreaterOf
<1> QED BY <1>3, <1>4, <1>5, <1>7 DEF q, m, a, d

----------------------------------------------------------------------------
(* Histograms. *)

HistogramType ==
  [buckets : [0..(NumBuckets - 1) -> Nat], total_samples : Nat, sum_ns : Int, min_ns : Int,
   max_ns : Int]

\* A histogram has each of the latencies, and no other.
Exact(hst, all) ==
  /\ hst.total_samples = Len(all)
  /\ hst.sum_ns = SumOver(all, DOMAIN all)
  /\ hst.min_ns = IF all = <<>> THEN Huge ELSE all[1]
  /\ hst.max_ns = IF all = <<>> THEN -Huge ELSE all[Len(all)]
  /\ \A b \in 0..(NumBuckets - 1) : hst.buckets[b] = InBucket(all, b)

\* hst is what r has loaded, and what it has stored since.
PartlyStored(hst, r) ==
  LET known == r.loaded
  IN  /\ hst.total_samples =
           IF "total_samples" \in r.pending THEN known.total_samples ELSE known.total_samples + 1
      /\ hst.sum_ns = IF "range" \in r.pending THEN known.sum_ns ELSE known.sum_ns + r.ns
      /\ hst.min_ns = IF "range" \in r.pending THEN known.min_ns ELSE LesserOf(r.ns, known.min_ns)
      /\ hst.max_ns = IF "range" \in r.pending THEN known.max_ns ELSE GreaterOf(r.ns, known.max_ns)
      /\ \A b \in 0..(NumBuckets - 1) :
           hst.buckets[b] = IF "buckets" \in r.pending \/ b # Bucket(r.ns) THEN known.buckets[b]
                            ELSE known.buckets[b] + 1

RecordType ==
  [thread : Thread, h : Histogram, ns : Latency, loaded : HistogramType,
   pending : SUBSET Fields, locked : BOOLEAN]

\* The record after a store.
After(r, field) == [r EXCEPT !.pending = @ \ {field}]

\* The new histogram has nothing.
LEMMA EmptyIsExact ==
  EmptyHistogram \in HistogramType /\ Sorted(<<>>) /\ Exact(EmptyHistogram, <<>>)
<1>1. EmptyHistogram \in HistogramType
  BY HugeAssumption DEF EmptyHistogram, HistogramType
<1>2. Sorted(<<>>) /\ DOMAIN <<>> = {} /\ Len(<<>>) = 0
  BY DEF Sorted
<1>3. SumOver(<<>>, {}) = 0
  <2>1. IsFiniteSet({}) /\ \A x \in {} : <<>>[x] = 0
    BY FS_EmptySet
  <2> QED BY <2>1, SumZero
<1>4. ASSUME NEW b \in 0..(NumBuckets - 1) PROVE InBucket(<<>>, b) = 0
  <2>1. {i \in DOMAIN <<>> :
           Clamp(<<>>[i]) \in (b * BucketWidth)..((b + 1) * BucketWidth - 1)} = {}
    BY <1>2
  <2> QED BY <2>1, FS_EmptySet DEF InBucket
<1>5. \A b \in 0..(NumBuckets - 1) : EmptyHistogram.buckets[b] = 0
  BY DEF EmptyHistogram
<1>6. Exact(EmptyHistogram, <<>>)
  BY <1>2, <1>3, <1>4, <1>5 DEF Exact, EmptyHistogram
<1> QED BY <1>1, <1>2, <1>6

\* The fields of a histogram, and a histogram of such fields.
LEMMA FieldsLemma ==
  /\ \A hst \in HistogramType :
       /\ hst.buckets \in [0..(NumBuckets - 1) -> Nat] /\ hst.total_samples \in Nat
       /\ hst.sum_ns \in Int /\ hst.min_ns \in Int /\ hst.max_ns \in Int
       /\ hst = [buckets |-> hst.buckets, total_samples |-> hst.total_samples,
                 sum_ns |-> hst.sum_ns, min_ns |-> hst.min_ns, max_ns |-> hst.max_ns]
  /\ \A b \in [0..(NumBuckets - 1) -> Nat], n \in Nat, s \in Int, m \in Int, x \in Int :
       [buckets |-> b, total_samples |-> n, sum_ns |-> s, min_ns |-> m, max_ns |-> x]
         \in HistogramType
BY DEF HistogramType

\* A store is one of the fields of what is stored partly.
LEMMA StoredLemma ==
  ASSUME NEW r \in RecordType, NEW field \in r.pending, NEW hst \in HistogramType,
         PartlyStored(hst, r)
  PROVE  /\ Stored(hst, r, field) \in HistogramType
         /\ After(r, field) \in RecordType
         /\ PartlyStored(Stored(hst, r, field), After(r, field))
<1> DEFINE new == Stored(hst, r, field)
           q == After(r, field)
           known == r.loaded
<1>1. /\ field \in Fields /\ r.ns \in Int /\ known \in HistogramType
      /\ Bucket(r.ns) \in 0..(NumBuckets - 1)
  <2>1. r.ns \in Int
    BY HugeAssumption DEF RecordType, Latency
  <2> QED BY <2>1, BucketLemma DEF RecordType
<1>2. q \in RecordType /\ q.pending = r.pending \ {field} /\ q.ns = r.ns /\ q.loaded = known
  BY DEF After, RecordType
<1>3. /\ hst = [buckets |-> hst.buckets, total_samples |-> hst.total_samples,
                sum_ns |-> hst.sum_ns, min_ns |-> hst.min_ns, max_ns |-> hst.max_ns]
      /\ hst.buckets \in [0..(NumBuckets - 1) -> Nat] /\ hst.total_samples \in Nat
      /\ hst.sum_ns \in Int /\ hst.min_ns \in Int /\ hst.max_ns \in Int
      /\ known.buckets \in [0..(NumBuckets - 1) -> Nat] /\ known.total_samples + 1 \in Nat
      /\ known.sum_ns \in Int /\ known.min_ns \in Int /\ known.max_ns \in Int
  <2> HIDE DEF known
  <2> QED BY <1>1, FieldsLemma
<1>4. CASE field = "total_samples"
  <2>1. new = [hst EXCEPT !.total_samples = known.total_samples + 1]
    BY <1>4 DEF Stored, Counted
  <2> HIDE DEF new, q, known
  <2>2. new = [buckets |-> hst.buckets, total_samples |-> known.total_samples + 1,
               sum_ns |-> hst.sum_ns, min_ns |-> hst.min_ns, max_ns |-> hst.max_ns]
    BY <1>3, <2>1
  <2>3. new \in HistogramType
    BY <1>3, <2>2, FieldsLemma
  <2>4. PartlyStored(new, q)
    BY <1>2, <1>4, <2>2 DEF PartlyStored, known
  <2> QED BY <1>2, <2>3, <2>4 DEF new, q
<1>5. CASE field = "range"
  <2>1. new = [hst EXCEPT !.sum_ns = known.sum_ns + r.ns,
                          !.min_ns = LesserOf(r.ns, known.min_ns),
                          !.max_ns = GreaterOf(r.ns, known.max_ns)]
    BY <1>5 DEF Stored, Ranged
  <2>2. LesserOf(r.ns, known.min_ns) \in Int /\ GreaterOf(r.ns, known.max_ns) \in Int
    BY <1>1, <1>3 DEF LesserOf, GreaterOf
  <2> HIDE DEF new, q, known
  <2>3. new = [buckets |-> hst.buckets, total_samples |-> hst.total_samples,
               sum_ns |-> known.sum_ns + r.ns, min_ns |-> LesserOf(r.ns, known.min_ns),
               max_ns |-> GreaterOf(r.ns, known.max_ns)]
    BY <1>3, <2>1
  <2>4. new \in HistogramType
    <3>1. known.sum_ns + r.ns \in Int
      BY <1>1, <1>3
    <3> QED BY <1>3, <2>2, <2>3, <3>1, FieldsLemma
  <2>5. PartlyStored(new, q)
    BY <1>2, <1>5, <2>3 DEF PartlyStored, known
  <2> QED BY <1>2, <2>4, <2>5 DEF new, q
<1>6. CASE field = "buckets"
  <2> DEFINE c == Bucket(r.ns)
             f == hst.buckets
             v == known.buckets[c] + 1
             filled == [f EXCEPT ![c] = v]
  <2>1. new = [hst EXCEPT !.buckets = filled]
    BY <1>6 DEF Stored, Bucketed
  <2>2. c \in 0..(NumBuckets - 1) /\ f \in [0..(NumBuckets - 1) -> Nat]
    BY <1>1, <1>3
  <2>3. v \in Nat
    <3> DEFINE g == known.buckets
    <3>1. g \in [0..(NumBuckets - 1) -> Nat]
      BY <1>3
    <3> HIDE DEF c, g
    <3>2. g[c] \in Nat
      BY <2>2, <3>1
    <3> QED BY <3>2 DEF g
  <2>4. v = known.buckets[c] + 1
    OBVIOUS
  <2>5. \A b \in 0..(NumBuckets - 1) : f[b] = known.buckets[b]
    BY <1>6 DEF PartlyStored
  <2>6. q.pending = r.pending \ {"buckets"} /\ c = Bucket(q.ns) /\ f = hst.buckets
    BY <1>2, <1>6
  <2> HIDE DEF new, q, known, c, f, v
  <2>7. filled \in [0..(NumBuckets - 1) -> Nat]
    BY <2>2, <2>3
  <2>8. \A b \in 0..(NumBuckets - 1) : filled[b] = IF b = c THEN v ELSE f[b]
    BY <2>2
  <2> HIDE DEF filled
  <2>9. new = [buckets |-> filled, total_samples |-> hst.total_samples,
               sum_ns |-> hst.sum_ns, min_ns |-> hst.min_ns, max_ns |-> hst.max_ns]
    BY <1>3, <2>1
  <2>10. new \in HistogramType
    BY <1>3, <2>7, <2>9, FieldsLemma
  <2>11. \A b \in 0..(NumBuckets - 1) :
           new.buckets[b] = IF "buckets" \in q.pending \/ b # Bucket(q.ns) THEN known.buckets[b]
                            ELSE known.buckets[b] + 1
    BY <2>4, <2>5, <2>6, <2>8, <2>9
  <2>12. PartlyStored(new, q)
    BY <1>2, <1>6, <2>9, <2>11 DEF PartlyStored, known
  <2> QED BY <1>2, <2>10, <2>12 DEF new, q
<1> QED BY <1>1, <1>4, <1>5, <1>6 DEF Fields

\* A record that has stored everything has inserted its latency.
LEMMA AllStored ==
  ASSUME NEW r \in RecordType, r.pending = {}, NEW hst, PartlyStored(hst, r),
         NEW all, Sorted(all), Exact(r.loaded, all)
  PROVE  Exact(hst, Inserted(all, r.ns))
<1> DEFINE known == r.loaded
           x == r.ns
           n == Len(all)
           t == Inserted(all, x)
           k == Position(all, x)
<1>1. /\ x \in Latency /\ x \in Int /\ x <= Huge /\ -Huge <= x /\ n \in Nat
      /\ \A j \in 1..n : all[j] \in Int
  BY HugeAssumption DEF RecordType, Latency, Sorted
<1>2. /\ Len(t) = n + 1 /\ k \in 0..n /\ t \in Seq(Latency)
      /\ \A j \in 1..n : j <= k <=> all[j] <= x
      /\ \A j \in 1..(n + 1) :
           t[j] = IF j <= k THEN all[j] ELSE IF j = k + 1 THEN x ELSE all[j - 1]
  BY <1>1, InsertedLemma
<1>3. /\ hst.total_samples = known.total_samples + 1
      /\ hst.sum_ns = known.sum_ns + x
      /\ hst.min_ns = LesserOf(x, known.min_ns)
      /\ hst.max_ns = GreaterOf(x, known.max_ns)
      /\ \A b \in 0..(NumBuckets - 1) :
           hst.buckets[b] = IF b # Bucket(x) THEN known.buckets[b] ELSE known.buckets[b] + 1
  BY DEF PartlyStored
<1>4. t # <<>> /\ (all = <<>> <=> n = 0)
  BY <1>2 DEF Sorted
<1>5. /\ known.total_samples = n /\ known.sum_ns = SumOver(all, DOMAIN all)
      /\ known.min_ns = IF n = 0 THEN Huge ELSE all[1]
      /\ known.max_ns = IF n = 0 THEN -Huge ELSE all[n]
      /\ \A b \in 0..(NumBuckets - 1) : known.buckets[b] = InBucket(all, b)
  BY <1>4 DEF Exact
<1>6. SumOver(t, DOMAIN t) = SumOver(all, DOMAIN all) + x
  BY <1>1, SumInserted
<1>7. \A b \in 0..(NumBuckets - 1) :
        InBucket(t, b) = IF Bucket(x) = b THEN InBucket(all, b) + 1 ELSE InBucket(all, b)
  BY <1>1, InBucketInserted
<1>8. Huge \in Int
  BY HugeAssumption
<1> HIDE DEF known, x, n, t, k
<1>9. t[1] = LesserOf(x, known.min_ns)
  <2>1. 1 \in 1..(n + 1)
    BY <1>1
  <2>2. CASE n = 0
    BY <1>1, <1>2, <1>5, <1>8, <2>1, <2>2 DEF LesserOf
  <2>3. CASE n > 0
    <3>1. 1 \in 1..n /\ known.min_ns = all[1] /\ all[1] \in Int
      BY <1>1, <1>5, <2>3
    <3>2. CASE k = 0
      BY <1>1, <1>2, <2>1, <3>1, <3>2 DEF LesserOf
    <3>3. CASE k > 0
      BY <1>1, <1>2, <2>1, <3>1, <3>3 DEF LesserOf
    <3> QED BY <1>2, <3>2, <3>3
  <2> QED BY <1>1, <2>2, <2>3
<1>10. t[n + 1] = GreaterOf(x, known.max_ns)
  <2>1. n + 1 \in 1..(n + 1) /\ ~(n + 1 <= k)
    BY <1>1, <1>2
  <2>2. CASE n = 0
    BY <1>1, <1>2, <1>5, <1>8, <2>1, <2>2 DEF GreaterOf
  <2>3. CASE n > 0
    <3>1. n \in 1..n /\ known.max_ns = all[n] /\ all[n] \in Int /\ (n + 1) - 1 = n
      BY <1>1, <1>5, <2>3
    <3>2. CASE k = n
      BY <1>1, <1>2, <2>1, <3>1, <3>2 DEF GreaterOf
    <3>3. CASE k < n
      BY <1>1, <1>2, <2>1, <3>1, <3>3 DEF GreaterOf
    <3> QED BY <1>1, <1>2, <3>2, <3>3
  <2> QED BY <1>1, <2>2, <2>3
<1>11. Exact(hst, t)
  <2>1. hst.total_samples = Len(t) /\ hst.sum_ns = SumOver(t, DOMAIN t)
    BY <1>2, <1>3, <1>5, <1>6
  <2>2. hst.min_ns = t[1] /\ hst.max_ns = t[Len(t)]
    BY <1>2, <1>3, <1>9, <1>10
  <2>3. ASSUME NEW b \in 0..(NumBuckets - 1) PROVE hst.buckets[b] = InBucket(t, b)
    BY <1>3, <1>5, <1>7
  <2> QED BY <1>4, <2>1, <2>2, <2>3 DEF Exact
<1> QED BY <1>11 DEF t, x

\* Whatever has been stored, a bucket has what was recorded before, and no more
\* than that and the latency that is being recorded.
LEMMA BucketBetween ==
  ASSUME NEW r \in RecordType, NEW hst, PartlyStored(hst, r),
         NEW all, Sorted(all), Exact(r.loaded, all), NEW b \in 0..(NumBuckets - 1)
  PROVE  /\ hst.buckets[b] \in Nat /\ InBucket(all, b) <= hst.buckets[b]
         /\ hst.buckets[b] <= InBucket(Inserted(all, r.ns), b)
         /\ hst.total_samples \in Len(all)..Len(Inserted(all, r.ns))
<1>1. r.ns \in Latency /\ Len(all) \in Nat
  BY DEF RecordType, Sorted
<1>2. Len(Inserted(all, r.ns)) = Len(all) + 1
  BY <1>1, InsertedLemma
<1>3. InBucket(Inserted(all, r.ns), b) =
        IF Bucket(r.ns) = b THEN InBucket(all, b) + 1 ELSE InBucket(all, b)
  BY <1>1, InBucketInserted
<1>4. r.loaded.buckets[b] = InBucket(all, b) /\ r.loaded.total_samples = Len(all)
  BY DEF Exact
<1>5. InBucket(all, b) \in Nat
  <2>1. r.loaded \in HistogramType
    BY DEF RecordType
  <2>2. r.loaded.buckets \in [0..(NumBuckets - 1) -> Nat]
    BY <2>1, FieldsLemma
  <2> QED BY <1>4, <2>2
<1>6. hst.buckets[b] = IF "buckets" \in r.pending \/ b # Bucket(r.ns) THEN r.loaded.buckets[b]
                       ELSE r.loaded.buckets[b] + 1
  BY DEF PartlyStored
<1>7. hst.total_samples \in {Len(all), Len(all) + 1}
  BY <1>4 DEF PartlyStored
<1> QED BY <1>1, <1>2, <1>3, <1>4, <1>5, <1>6, <1>7

----------------------------------------------------------------------------
(* The invariant. *)

Times ==
  /\ now \in 0..MaxTime
  /\ DOMAIN active_timers \subseteq TimerName
  /\ \A name \in DOMAIN active_timers : active_timers[name] \in 0..MaxTime
  /\ ending \in [Thread -> SUBSET [name : TimerName, end : 0..now]]

Types ==
  /\ hist \in [Histogram -> HistogramType]
  /\ recording \subseteq RecordType
  /\ samples \in [Histogram -> Seq(Latency)] /\ \A h \in Histogram : Sorted(samples[h])

\* No two records into a histogram run, nor two that hold the lock.
Exclusive ==
  \A r, q \in recording : r.h = q.h \/ (r.locked /\ q.locked) => r = q

\* A record has loaded all that was recorded before.
Kept ==
  /\ \A r \in recording : Exact(r.loaded, samples[r.h]) /\ PartlyStored(hist[r.h], r)
  /\ \A h \in Histogram : Running(h) = {} => Exact(hist[h], samples[h])

ReaderType ==
  [h : Histogram, p : Percentiles, target : Nat, next : Nat, cumulative : Nat,
   answer : SUBSET Nat, known : Seq(Latency)]

\* The sum of the buckets that a reader has loaded lies between what it would
\* be of the latencies known at its begin and of those begun by now; n is the
\* total that it loaded first.
Follows(r, n, begun) ==
  /\ n \in Len(r.known)..Len(begun) /\ r.target = Target(n, r.p)
  /\ \/ n = 0 /\ r.answer = {0}
     \/ /\ n > 0 /\ r.answer = {}
        /\ r.next \in 0..(NumBuckets - 1)
        /\ r.cumulative \in Below(r.known, r.next)..Below(begun, r.next)
        /\ r.cumulative < r.target
     \/ /\ n > 0 /\ r.answer = {MaxLatency}
        /\ Below(r.known, NumBuckets) < r.target
     \/ /\ n > 0
        /\ \E b \in 0..(NumBuckets - 1) :
             /\ r.answer = {Middle(b)}
             /\ Below(r.known, b) < r.target
             /\ r.target <= Below(begun, b + 1)

Reads(r) ==
  /\ r \in ReaderType /\ Sorted(r.known)
  /\ \A b \in 0..(NumBuckets - 1) : InBucket(r.known, b) <= InBucket(samples[r.h], b)
  /\ \E n \in Nat : Follows(r, n, Begun(r.h))

Records == Types /\ Exclusive /\ Kept

IInv == Times /\ Records /\ \A r \in reading : Reads(r)

----------------------------------------------------------------------------
(* What has begun. *)

\* A sequence has become longer, and no bucket emptier.
Grown(s, t) ==
  /\ Sorted(s) /\ Sorted(t) /\ Len(s) <= Len(t)
  /\ \A i \in 0..NumBuckets : Below(s, i) <= Below(t, i)

\* A bucket and those before it are counted in natural numbers.
LEMMA CountsLemma ==
  ASSUME NEW s, Sorted(s), NEW b \in 0..(NumBuckets - 1)
  PROVE  /\ b \in Nat /\ b + 1 \in Nat /\ b + 1 <= NumBuckets
         /\ Below(s, b) \in Nat /\ Below(s, b + 1) \in Nat /\ InBucket(s, b) \in Nat
         /\ Below(s, b + 1) = Below(s, b) + InBucket(s, b)
<1>1. b \in Nat /\ b + 1 \in Nat /\ b + 1 <= NumBuckets /\ Len(s) \in Nat
  BY BucketAssumption DEF Sorted
<1>2. Below(s, b) \in Nat /\ Below(s, b + 1) \in Nat
  <2>1. Below(s, b) \in 0..Len(s) /\ Below(s, b + 1) \in 0..Len(s)
    BY <1>1, CutLemma
  <2> QED BY <1>1, <2>1
<1>3. InBucket(s, b) = Below(s, b + 1) - Below(s, b) /\ Below(s, b) <= Below(s, b + 1)
  BY <1>1, InBucketLemma
<1> QED BY <1>1, <1>2, <1>3

\* What a reader has seen, it could have seen of more.
LEMMA FollowsGrown ==
  ASSUME NEW r \in ReaderType, Sorted(r.known), NEW n \in Nat, NEW s, NEW t,
         Grown(s, t), Follows(r, n, s)
  PROVE  Follows(r, n, t)
<1>1. /\ Len(r.known) \in Nat /\ Len(s) \in Nat /\ Len(t) \in Nat /\ Len(s) <= Len(t)
      /\ Sorted(s) /\ Sorted(t)
  BY DEF Grown, Sorted
<1>2. \A i \in 0..NumBuckets :
        Below(s, i) \in Nat /\ Below(t, i) \in Nat /\ Below(r.known, i) \in Nat
        /\ Below(s, i) <= Below(t, i)
  <2>1. \A i \in 0..NumBuckets : i \in Nat
    BY BucketAssumption
  <2> QED BY <1>1, <2>1, CutLemma DEF Grown
<1>3. n \in Len(r.known)..Len(t) /\ r.target = Target(n, r.p)
  BY <1>1 DEF Follows
<1>4. \A b \in 0..(NumBuckets - 1) : b \in 0..NumBuckets /\ b + 1 \in 0..NumBuckets
  BY BucketAssumption
<1>5. CASE n = 0 /\ r.answer = {0}
  BY <1>3, <1>5 DEF Follows
<1>6. CASE /\ n > 0 /\ r.answer = {}
           /\ r.next \in 0..(NumBuckets - 1)
           /\ r.cumulative \in Below(r.known, r.next)..Below(s, r.next)
           /\ r.cumulative < r.target
  <2>1. r.cumulative \in Below(r.known, r.next)..Below(t, r.next)
    BY <1>2, <1>4, <1>6
  <2> QED BY <1>3, <1>6, <2>1 DEF Follows
<1>7. CASE n > 0 /\ r.answer = {MaxLatency} /\ Below(r.known, NumBuckets) < r.target
  BY <1>3, <1>7 DEF Follows
<1>8. CASE /\ n > 0
           /\ \E b \in 0..(NumBuckets - 1) :
                /\ r.answer = {Middle(b)}
                /\ Below(r.known, b) < r.target
                /\ r.target <= Below(s, b + 1)
  <2>1. r.target \in Int
    BY DEF ReaderType
  <2>2. PICK b \in 0..(NumBuckets - 1) :
          /\ r.answer = {Middle(b)}
          /\ Below(r.known, b) < r.target
          /\ r.target <= Below(s, b + 1)
    BY <1>8
  <2>3. r.target <= Below(t, b + 1)
    BY <1>2, <1>4, <2>1, <2>2
  <2> QED BY <1>3, <1>8, <2>2, <2>3 DEF Follows
<1> QED BY <1>5, <1>6, <1>7, <1>8 DEF Follows

\* One latency more makes a sequence grow.
LEMMA GrownInserted ==
  ASSUME NEW s, Sorted(s), NEW x \in Latency
  PROVE  Grown(s, s) /\ Grown(s, Inserted(s, x))
<1>1. /\ Len(s) \in Nat /\ Len(Inserted(s, x)) = Len(s) + 1 /\ Sorted(Inserted(s, x))
  BY InsertedLemma, InsertedSorted DEF Sorted
<1>2. \A i \in 0..NumBuckets : i \in Nat
  BY BucketAssumption
<1>3. \A i \in 0..NumBuckets : Below(s, i) \in Nat
  BY <1>1, <1>2, CutLemma
<1>4. \A i \in 0..NumBuckets : Below(s, i) <= Below(Inserted(s, x), i)
  BY <1>2, <1>3, BelowInserted
<1> QED BY <1>1, <1>3, <1>4 DEF Grown

\* What has begun depends on the histogram's latencies and its record alone.
BegunOf(all, running) ==
  IF running = {} THEN all ELSE Inserted(all, (CHOOSE r \in running : TRUE).ns)

LEMMA BegunLemma ==
  ASSUME NEW h
  PROVE  /\ Begun(h) = BegunOf(samples[h], Running(h))
         /\ Begun(h)' = BegunOf(samples'[h], Running(h)')
BY DEF Begun, BegunOf

\* Whoever records into a histogram does so alone.
LEMMA RunningLemma ==
  ASSUME Exclusive, NEW r \in recording
  PROVE  Running(r.h) = {r} /\ Begun(r.h) = Inserted(samples[r.h], r.ns)
<1>1. Running(r.h) = {r}
  BY DEF Exclusive, Running
<1>2. (CHOOSE q \in {r} : TRUE) = r
  OBVIOUS
<1> QED BY <1>1, <1>2 DEF Begun

\* What a reader finds in a histogram, while a record into it runs or not, lies
\* between what has been recorded and what has begun to be.
LEMMA Between ==
  ASSUME Records, NEW h \in Histogram
  PROVE  /\ Sorted(samples[h]) /\ Sorted(Begun(h))
         /\ hist[h].total_samples \in Len(samples[h])..Len(Begun(h))
         /\ \A b \in 0..(NumBuckets - 1) :
              /\ hist[h].buckets[b] \in Nat
              /\ InBucket(samples[h], b) <= hist[h].buckets[b]
              /\ hist[h].buckets[b] <= InBucket(Begun(h), b)
<1>1. Sorted(samples[h]) /\ hist[h] \in HistogramType /\ Len(samples[h]) \in Nat
  BY DEF Records, Types, Sorted
<1>2. 0 \in 0..(NumBuckets - 1)
  BY BucketAssumption
<1>3. CASE Running(h) = {}
  <2>1. Begun(h) = samples[h] /\ Exact(hist[h], samples[h])
    BY <1>3 DEF Begun, Records, Kept
  <2>2. /\ hist[h].total_samples = Len(samples[h])
        /\ \A b \in 0..(NumBuckets - 1) : hist[h].buckets[b] = InBucket(samples[h], b)
    BY <2>1 DEF Exact
  <2>3. hist[h].buckets \in [0..(NumBuckets - 1) -> Nat]
    BY <1>1, FieldsLemma
  <2>4. \A b \in 0..(NumBuckets - 1) : hist[h].buckets[b] \in Nat
    BY <2>3
  <2> QED BY <1>1, <2>1, <2>2, <2>4
<1>4. CASE Running(h) # {}
  <2>1. PICK r \in recording : r.h = h
    BY <1>4 DEF Running
  <2>2. r \in RecordType /\ r.ns \in Latency
    BY DEF Records, Types, RecordType
  <2>3. Begun(h) = Inserted(samples[h], r.ns)
    BY <2>1, RunningLemma DEF Records
  <2>4. Exact(r.loaded, samples[h]) /\ PartlyStored(hist[h], r)
    BY <2>1 DEF Records, Kept
  <2>5. Sorted(Begun(h))
    BY <1>1, <2>2, <2>3, InsertedSorted
  <2> QED BY <1>1, <1>2, <2>2, <2>3, <2>4, <2>5, BucketBetween
<1> QED BY <1>3, <1>4

----------------------------------------------------------------------------
(* Every step keeps the invariant. *)

\* The steps that neither record nor read.
LEMMA TimesStep ==
  ASSUME IInv, Times', UNCHANGED <<hist, recording, samples, reading>>
  PROVE  IInv'
BY DEF IInv, Records, Types, Exclusive, Kept, Reads, Begun, Running

\* The begin of a record: it has loaded what is known, and its latency has begun.
LEMMA BeginStep ==
  ASSUME IInv, Times', NEW t \in Thread, NEW h \in Histogram, NEW ns \in Latency,
         NEW locked \in BOOLEAN, Running(h) = {}, locked => LockFree,
         Begin(t, h, ns, locked), UNCHANGED <<hist, samples, reading>>
  PROVE  IInv'
<1> DEFINE new == [thread |-> t, h |-> h, ns |-> ns, loaded |-> hist[h], pending |-> Fields,
                   locked |-> locked]
<1>1. /\ new.h = h /\ new.ns = ns /\ new.loaded = hist[h] /\ new.pending = Fields
      /\ new.locked = locked /\ recording' = recording \cup {new}
  BY DEF Begin
<1>2. new \in RecordType
  BY DEF RecordType, IInv, Records, Types
<1> HIDE DEF new
<1>3. Types'
  BY <1>1, <1>2 DEF IInv, Records, Types
<1>4. \A q \in recording : q.h # h /\ ~(locked /\ q.locked)
  BY DEF Running, LockFree
<1>5. Exclusive'
  BY <1>1, <1>4 DEF IInv, Records, Exclusive
<1>6. Running(h)' = {new} /\ \A g \in Histogram : g # h => Running(g)' = Running(g)
  BY <1>1, <1>4 DEF Running
<1>7. Exact(new.loaded, samples[h]) /\ PartlyStored(hist[h], new)
  <2>1. Exact(hist[h], samples[h])
    BY DEF IInv, Records, Kept
  <2> QED BY <1>1, <2>1 DEF PartlyStored, Fields
<1>8. Kept'
  <2>1. ASSUME NEW r \in recording'
        PROVE  (Exact(r.loaded, samples[r.h]) /\ PartlyStored(hist[r.h], r))'
    BY <1>1, <1>7 DEF IInv, Records, Kept
  <2>2. ASSUME NEW g \in Histogram, Running(g)' = {} PROVE Exact(hist[g], samples[g])'
    BY <1>6, <2>2 DEF IInv, Records, Kept
  <2> QED BY <2>1, <2>2 DEF Kept
<1>9. ASSUME NEW g \in Histogram PROVE Grown(Begun(g), Begun(g)')
  <2>1. Sorted(Begun(g)) /\ Sorted(samples[g])
    BY Between DEF IInv
  <2>2. CASE g # h
    <3>1. Begun(g)' = Begun(g)
      BY <1>6, <2>2, BegunLemma
    <3> QED BY <2>1, <3>1, GrownInserted
  <2>3. CASE g = h
    <3>1. Begun(g) = samples[g]
      BY <2>3 DEF Begun
    <3>2. Begun(g)' = Inserted(samples[g], ns)
      <4>1. (CHOOSE q \in {new} : TRUE) = new
        OBVIOUS
      <4> QED BY <1>1, <1>6, <2>3, <4>1 DEF Begun
    <3> QED BY <2>1, <3>1, <3>2, GrownInserted
  <2> QED BY <2>2, <2>3
<1>10. ASSUME NEW r \in reading PROVE Reads(r)'
  <2>1. /\ r \in ReaderType /\ Sorted(r.known) /\ r.h \in Histogram
        /\ \A b \in 0..(NumBuckets - 1) : InBucket(r.known, b) <= InBucket(samples[r.h], b)
    BY DEF IInv, Reads, ReaderType
  <2>2. PICK n \in Nat : Follows(r, n, Begun(r.h))
    BY DEF IInv, Reads
  <2>3. Follows(r, n, Begun(r.h)')
    BY <1>9, <2>1, <2>2, FollowsGrown
  <2> QED BY <2>1, <2>3 DEF Reads
<1> QED BY <1>3, <1>5, <1>8, <1>10 DEF IInv, Records

\* A store that is not the last one of its record.
LEMMA StoreStep ==
  ASSUME IInv, NEW r \in recording, NEW field \in r.pending, Store(r, field),
         r.pending # {field}
  PROVE  IInv'
<1> DEFINE q == After(r, field)
           stored == Stored(hist[r.h], r, field)
<1>1. /\ recording' = (recording \ {r}) \cup {q}
      /\ hist' = [hist EXCEPT ![r.h] = stored] /\ samples' = samples
      /\ UNCHANGED <<now, active_timers, ending, reading>>
  BY DEF Store, After
<1>2. r \in RecordType /\ r.h \in Histogram /\ hist[r.h] \in HistogramType
  BY DEF IInv, Records, Types, RecordType
<1>3. q \in RecordType /\ q.h = r.h /\ q.ns = r.ns /\ q.loaded = r.loaded /\ q.locked = r.locked
  BY <1>2 DEF After, RecordType
<1>4. Exact(r.loaded, samples[r.h]) /\ PartlyStored(hist[r.h], r)
  BY DEF IInv, Records, Kept
<1>5. stored \in HistogramType /\ PartlyStored(stored, q)
  BY <1>2, <1>4, StoredLemma
<1> HIDE DEF q, stored
<1>6. /\ hist'[r.h] = stored /\ hist' \in [Histogram -> HistogramType]
      /\ \A g \in Histogram : g # r.h => hist'[g] = hist[g]
  BY <1>1, <1>2, <1>5 DEF IInv, Records, Types
<1>7. Types'
  BY <1>1, <1>3, <1>6 DEF IInv, Records, Types
<1>8. \A o \in recording : o # r => o.h # r.h /\ ~(o.locked /\ r.locked)
  BY DEF IInv, Records, Exclusive
<1>9. Exclusive'
  BY <1>1, <1>3, <1>8 DEF IInv, Records, Exclusive
<1>10. /\ Running(r.h) = {r} /\ Running(r.h)' = {q}
       /\ \A g \in Histogram : g # r.h => Running(g)' = Running(g)
  BY <1>1, <1>3, <1>8 DEF Running
<1>11. Kept'
  <2>1. ASSUME NEW o \in recording'
        PROVE  (Exact(o.loaded, samples[o.h]) /\ PartlyStored(hist[o.h], o))'
    <3>1. CASE o = q
      BY <1>1, <1>3, <1>4, <1>5, <1>6, <3>1
    <3>2. CASE o # q
      <4>1. o \in recording /\ o # r /\ o.h # r.h /\ o.h \in Histogram
        BY <1>1, <1>8, <3>2 DEF IInv, Records, Types, RecordType
      <4> QED BY <1>1, <1>6, <4>1 DEF IInv, Records, Kept
    <3> QED BY <3>1, <3>2
  <2>2. ASSUME NEW g \in Histogram, Running(g)' = {} PROVE Exact(hist[g], samples[g])'
    BY <1>1, <1>6, <1>10, <2>2 DEF IInv, Records, Kept
  <2> QED BY <2>1, <2>2 DEF Kept
<1>12. ASSUME NEW g \in Histogram PROVE Begun(g)' = Begun(g)
  <2>1. CASE g # r.h
    BY <1>1, <1>10, <2>1, BegunLemma
  <2>2. CASE g = r.h
    <3>1. (CHOOSE o \in {q} : TRUE) = q /\ (CHOOSE o \in {r} : TRUE) = r
      OBVIOUS
    <3> QED BY <1>1, <1>3, <1>10, <2>2, <3>1 DEF Begun
  <2> QED BY <2>1, <2>2
<1>13. ASSUME NEW o \in reading PROVE Reads(o)'
  <2>1. o.h \in Histogram
    BY DEF IInv, Reads, ReaderType
  <2> QED BY <1>1, <1>12, <2>1 DEF IInv, Reads
<1>14. Times'
  BY <1>1 DEF IInv, Times
<1> QED BY <1>1, <1>7, <1>9, <1>11, <1>13, <1>14 DEF IInv, Records

\* The last store of a record: what had begun is recorded.
LEMMA LastStoreStep ==
  ASSUME IInv, NEW r \in recording, NEW field \in r.pending, Store(r, field),
         r.pending = {field}
  PROVE  IInv'
<1> DEFINE q == After(r, field)
           stored == Stored(hist[r.h], r, field)
           all == samples[r.h]
           more == Inserted(all, r.ns)
<1>1. /\ recording' = recording \ {r}
      /\ hist' = [hist EXCEPT ![r.h] = stored]
      /\ samples' = [samples EXCEPT ![r.h] = more]
      /\ UNCHANGED <<now, active_timers, ending, reading>>
  BY DEF Store
<1>2. /\ r \in RecordType /\ r.h \in Histogram /\ hist[r.h] \in HistogramType
      /\ r.ns \in Latency /\ Sorted(all)
  BY DEF IInv, Records, Types, RecordType
<1>3. q \in RecordType /\ q.ns = r.ns /\ q.loaded = r.loaded /\ q.pending = {}
  BY <1>2 DEF After, RecordType
<1>4. Exact(r.loaded, all) /\ PartlyStored(hist[r.h], r)
  BY DEF IInv, Records, Kept
<1>5. stored \in HistogramType /\ PartlyStored(stored, q)
  BY <1>2, <1>4, StoredLemma
<1>6. Exact(stored, more)
  <2> HIDE DEF q, stored, all
  <2> QED BY <1>2, <1>3, <1>4, <1>5, AllStored
<1>7. Sorted(more) /\ more \in Seq(Latency)
  BY <1>2, InsertedSorted DEF Sorted
<1>8. \A b \in 0..(NumBuckets - 1) :
        InBucket(all, b) \in Nat /\ InBucket(all, b) <= InBucket(more, b)
  <2>1. \A b \in 0..(NumBuckets - 1) : InBucket(all, b) \in Nat
    BY <1>2, CountsLemma
  <2> QED BY <1>2, <2>1, InBucketInserted
<1>9. Begun(r.h) = more
  BY RunningLemma DEF IInv, Records
<1> HIDE DEF q, stored, more
<1>10. /\ hist'[r.h] = stored /\ hist' \in [Histogram -> HistogramType]
       /\ \A g \in Histogram : g # r.h => hist'[g] = hist[g]
  BY <1>1, <1>2, <1>5 DEF IInv, Records, Types
<1>11. /\ samples'[r.h] = more /\ samples' \in [Histogram -> Seq(Latency)]
       /\ \A g \in Histogram : g # r.h => samples'[g] = samples[g]
  BY <1>1, <1>2, <1>7 DEF IInv, Records, Types
<1>12. Types'
  <2>1. \A g \in Histogram : Sorted(samples'[g])
    BY <1>7, <1>11 DEF IInv, Records, Types
  <2> QED BY <1>1, <1>10, <1>11, <2>1 DEF IInv, Records, Types
<1>13. Exclusive'
  BY <1>1 DEF IInv, Records, Exclusive
<1>14. \A o \in recording : o # r => o.h # r.h
  BY DEF IInv, Records, Exclusive
<1>15. Running(r.h)' = {} /\ \A g \in Histogram : g # r.h => Running(g)' = Running(g)
  BY <1>1, <1>14 DEF Running
<1>16. Kept'
  <2>1. ASSUME NEW o \in recording'
        PROVE  (Exact(o.loaded, samples[o.h]) /\ PartlyStored(hist[o.h], o))'
    <3>1. o \in recording /\ o.h # r.h /\ o.h \in Histogram
      BY <1>1, <1>14 DEF IInv, Records, Types, RecordType
    <3> QED BY <1>10, <1>11, <3>1 DEF IInv, Records, Kept
  <2>2. ASSUME NEW g \in Histogram, Running(g)' = {} PROVE Exact(hist[g], samples[g])'
    <3>1. CASE g = r.h
      BY <1>6, <1>10, <1>11, <3>1
    <3>2. CASE g # r.h
      BY <1>10, <1>11, <1>15, <2>2, <3>2 DEF IInv, Records, Kept
    <3> QED BY <3>1, <3>2
  <2> QED BY <2>1, <2>2 DEF Kept
<1>17. ASSUME NEW g \in Histogram PROVE Begun(g)' = Begun(g)
  <2>1. CASE g = r.h
    BY <1>9, <1>11, <1>15, <2>1 DEF Begun
  <2>2. CASE g # r.h
    BY <1>11, <1>15, <2>2, BegunLemma
  <2> QED BY <2>1, <2>2
<1>18. ASSUME NEW o \in reading PROVE Reads(o)'
  <2>1. /\ o \in ReaderType /\ Sorted(o.known) /\ o.h \in Histogram
        /\ \A b \in 0..(NumBuckets - 1) : InBucket(o.known, b) <= InBucket(samples[o.h], b)
        /\ \E n \in Nat : Follows(o, n, Begun(o.h))
    BY DEF IInv, Reads, ReaderType
  <2>2. ASSUME NEW b \in 0..(NumBuckets - 1)
        PROVE  InBucket(o.known, b) <= InBucket(samples'[o.h], b)
    <3>1. CASE o.h # r.h
      BY <1>11, <2>1, <3>1
    <3>2. CASE o.h = r.h
      <4>1. InBucket(o.known, b) \in Nat /\ InBucket(more, b) \in Nat
        BY <1>7, <2>1, CountsLemma
      <4>2. /\ InBucket(all, b) \in Nat /\ InBucket(all, b) <= InBucket(more, b)
            /\ InBucket(o.known, b) <= InBucket(all, b)
        BY <1>8, <2>1, <3>2
      <4>3. InBucket(o.known, b) <= InBucket(more, b)
        BY <4>1, <4>2
      <4> QED BY <1>11, <3>2, <4>3
    <3> QED BY <3>1, <3>2
  <2> QED BY <1>17, <2>1, <2>2 DEF Reads
<1>19. Times'
  BY <1>1 DEF IInv, Times
<1> QED BY <1>1, <1>12, <1>13, <1>16, <1>18, <1>19 DEF IInv, Records

\* A reader begins: it knows what is recorded, and loads a total no less.
LEMMA BeginPercentileStep ==
  ASSUME IInv, NEW h \in Histogram, NEW p \in Percentiles, BeginPercentile(h, p)
  PROVE  IInv'
<1> DEFINE total == hist[h].total_samples
           new == [h |-> h, p |-> p, target |-> Target(total, p), next |-> 0, cumulative |-> 0,
                   answer |-> IF total = 0 THEN {0} ELSE {}, known |-> samples[h]]
<1>1. reading' = {new} /\ UNCHANGED <<now, active_timers, ending, recording, hist, samples>>
  BY DEF BeginPercentile
<1>2. /\ new.h = h /\ new.p = p /\ new.target = Target(total, p) /\ new.next = 0
      /\ new.cumulative = 0 /\ new.answer = (IF total = 0 THEN {0} ELSE {})
      /\ new.known = samples[h]
  OBVIOUS
<1>3. /\ Sorted(samples[h]) /\ Sorted(Begun(h)) /\ samples[h] \in Seq(Latency)
      /\ total \in Len(samples[h])..Len(Begun(h))
  BY Between DEF IInv, Sorted
<1>4. total \in Nat
  BY <1>3 DEF Sorted
<1>5. Target(total, p) \in Nat /\ (total > 0 => 0 < Target(total, p))
  <2> HIDE DEF total
  <2>1. CASE total = 0
    <3>1. p[2] \in Nat \ {0} /\ p[2] - 1 \in Nat /\ 0 * p[1] + p[2] - 1 = p[2] - 1
      BY PercentilesAssumption
    <3>2. (p[2] - 1) \div p[2] \in Nat
      BY <3>1, DivLemma
    <3> QED BY <2>1, <3>1, <3>2 DEF Target, GreaterOf
  <2>2. CASE total # 0
    BY <1>4, <2>2, TargetLemma
  <2> QED BY <2>1, <2>2
<1>6. new \in ReaderType
  BY <1>3, <1>5 DEF ReaderType
<1> HIDE DEF new, total
<1>7. Below(samples[h], 0) = 0 /\ Below(Begun(h), 0) = 0
  <2>1. ASSUME NEW s, Sorted(s) PROVE Below(s, 0) = 0
    <3>1. ASSUME NEW j \in DOMAIN s PROVE ~(Clamp(s[j]) < 0 * BucketWidth)
      <4>1. s[j] \in Int
        BY <2>1, HugeAssumption DEF Sorted, Latency
      <4>2. 0 * BucketWidth = 0
        BY BucketAssumption
      <4> QED BY <4>1, <4>2, ClampLemma
    <3>2. {j \in DOMAIN s : Clamp(s[j]) < 0 * BucketWidth} = {}
      BY <3>1
    <3> QED BY <3>2, FS_EmptySet DEF Below
  <2> QED BY <1>3, <2>1
<1>8. Follows(new, total, Begun(h))
  <2>1. total \in Len(new.known)..Len(Begun(h)) /\ new.target = Target(total, new.p)
    BY <1>2, <1>3
  <2>2. CASE total = 0
    BY <1>2, <2>1, <2>2 DEF Follows
  <2>3. CASE total > 0
    <3>1. new.answer = {} /\ new.next \in 0..(NumBuckets - 1)
      BY <1>2, <2>3, BucketAssumption
    <3>2. new.cumulative \in Below(new.known, new.next)..Below(Begun(h), new.next)
      BY <1>2, <1>7
    <3>3. new.cumulative < new.target
      BY <1>2, <1>5, <2>3
    <3> QED BY <2>1, <2>3, <3>1, <3>2, <3>3 DEF Follows
  <2> QED BY <1>4, <2>2, <2>3
<1>9. \A b \in 0..(NumBuckets - 1) : InBucket(new.known, b) <= InBucket(samples[h], b)
  <2>1. \A b \in 0..(NumBuckets - 1) : InBucket(samples[h], b) \in Nat
    BY <1>3, CountsLemma
  <2> QED BY <1>2, <2>1
<1>10. samples' = samples /\ \A g : Begun(g)' = Begun(g)
  <2>1. \A g : Running(g)' = Running(g)
    BY <1>1 DEF Running
  <2> QED BY <1>1, <2>1, BegunLemma
<1>11. \A r \in reading' : Reads(r)'
  BY <1>1, <1>2, <1>3, <1>4, <1>6, <1>8, <1>9, <1>10 DEF Reads
<1>12. Times' /\ Records'
  BY <1>1 DEF IInv, Times, Records, Types, Exclusive, Kept, Running
<1> QED BY <1>11, <1>12 DEF IInv

\* A reader loads a bucket.
LEMMA LoadBucketStep ==
  ASSUME IInv, LoadBucket
  PROVE  IInv'
<1>1. PICK r \in reading :
        LET cumulative == r.cumulative + hist[r.h].buckets[r.next]
            found == IF Reaches(cumulative, r.target) THEN {Middle(r.next)}
                     ELSE IF r.next + 1 = NumBuckets THEN {MaxLatency} ELSE {}
        IN  /\ r.answer = {}
            /\ reading' = {[r EXCEPT !.cumulative = cumulative, !.next = @ + 1,
                                     !.answer = found]}
            /\ UNCHANGED <<now, active_timers, ending, recording, hist, samples>>
  BY DEF LoadBucket
<1> DEFINE b == r.next
           c == r.cumulative + hist[r.h].buckets[b]
           found == IF Reaches(c, r.target) THEN {Middle(b)}
                    ELSE IF b + 1 = NumBuckets THEN {MaxLatency} ELSE {}
           q == [r EXCEPT !.cumulative = c, !.next = @ + 1, !.answer = found]
           begun == Begun(r.h)
           s == samples[r.h]
<1>2. /\ r.answer = {} /\ reading' = {q}
      /\ UNCHANGED <<now, active_timers, ending, recording, hist, samples>>
  BY <1>1
<1>3. /\ r \in ReaderType /\ Sorted(r.known) /\ r.h \in Histogram /\ r.target \in Int
      /\ \A i \in 0..(NumBuckets - 1) : InBucket(r.known, i) <= InBucket(s, i)
  BY DEF IInv, Reads, ReaderType
<1>4. PICK n \in Nat : Follows(r, n, begun)
  BY DEF IInv, Reads
<1>5. /\ n \in Len(r.known)..Len(begun) /\ r.target = Target(n, r.p)
      /\ n > 0 /\ b \in 0..(NumBuckets - 1)
      /\ r.cumulative \in Below(r.known, b)..Below(begun, b)
      /\ r.cumulative < r.target
  BY <1>2, <1>4 DEF Follows
<1>6. /\ Sorted(s) /\ Sorted(begun)
      /\ hist[r.h].buckets[b] \in Nat
      /\ InBucket(s, b) <= hist[r.h].buckets[b]
      /\ hist[r.h].buckets[b] <= InBucket(begun, b)
  BY <1>3, <1>5, Between DEF IInv
<1>7. b \in Nat /\ b + 1 \in Nat /\ b + 1 <= NumBuckets
  BY <1>5, BucketAssumption
<1>8. /\ Below(r.known, b) \in Nat /\ Below(r.known, b + 1) \in Nat
      /\ Below(begun, b) \in Nat /\ Below(begun, b + 1) \in Nat
      /\ InBucket(r.known, b) \in Nat /\ InBucket(s, b) \in Nat /\ InBucket(begun, b) \in Nat
      /\ Below(r.known, b + 1) = Below(r.known, b) + InBucket(r.known, b)
      /\ Below(begun, b + 1) = Below(begun, b) + InBucket(begun, b)
  <2> HIDE DEF b, s, begun
  <2> QED BY <1>3, <1>5, <1>6, CountsLemma
<1>9. c \in Nat /\ Below(r.known, b + 1) <= c /\ c <= Below(begun, b + 1)
  <2> DEFINE x == hist[r.h].buckets[b]
             y == r.cumulative
  <2>1. InBucket(r.known, b) <= InBucket(s, b)
    BY <1>3, <1>5
  <2>2. x \in Nat /\ InBucket(s, b) <= x /\ x <= InBucket(begun, b) /\ c = y + x
    BY <1>6
  <2>3. y \in Int /\ Below(r.known, b) <= y /\ y <= Below(begun, b)
    BY <1>5
  <2> HIDE DEF b, s, begun, c, x, y
  <2> QED BY <1>8, <2>1, <2>2, <2>3
<1>10. found \in SUBSET Nat
  <2>1. MaxLatency \in Nat
    BY BucketAssumption, TimesLemma DEF MaxLatency
  <2>2. Middle(b) \in Nat
    <3>1. b * BucketWidth \in Nat
      BY <1>7, BucketAssumption, TimesLemma
    <3>2. BucketWidth \div 2 \in Nat
      BY BucketAssumption, DivLemma
    <3> QED BY <3>1, <3>2 DEF Middle
  <2> HIDE DEF b, c
  <2> QED BY <2>1, <2>2
<1>11. /\ q \in ReaderType /\ q.h = r.h /\ q.p = r.p /\ q.known = r.known
       /\ q.target = r.target /\ q.cumulative = c /\ q.next = b + 1 /\ q.answer = found
  <2> HIDE DEF c, found
  <2> QED BY <1>3, <1>7, <1>9, <1>10 DEF ReaderType
<1> HIDE DEF q, c, begun, s, b
<1>12. Follows(q, n, begun)
  <2>1. n \in Len(q.known)..Len(begun) /\ q.target = Target(n, q.p)
    BY <1>5, <1>11
  <2>2. CASE Reaches(c, r.target)
    <3>1. Below(q.known, b) < q.target
      BY <1>3, <1>5, <1>8, <1>11
    <3>2. q.target <= Below(begun, b + 1)
      BY <1>3, <1>8, <1>9, <1>11, <2>2 DEF Reaches
    <3> QED BY <1>5, <1>11, <2>1, <2>2, <3>1, <3>2 DEF Follows
  <2>3. CASE ~Reaches(c, r.target) /\ b + 1 = NumBuckets
    <3>1. Below(q.known, NumBuckets) < q.target
      BY <1>3, <1>8, <1>9, <1>11, <2>3 DEF Reaches
    <3> QED BY <1>5, <1>11, <2>1, <2>3, <3>1 DEF Follows
  <2>4. CASE ~Reaches(c, r.target) /\ b + 1 # NumBuckets
    <3>1. q.next \in 0..(NumBuckets - 1) /\ q.answer = {}
      BY <1>7, <1>11, <2>4, BucketAssumption
    <3>2. q.cumulative \in Below(q.known, q.next)..Below(begun, q.next)
      BY <1>8, <1>9, <1>11
    <3>3. q.cumulative < q.target
      BY <1>3, <1>9, <1>11, <2>4 DEF Reaches
    <3> QED BY <1>5, <2>1, <3>1, <3>2, <3>3 DEF Follows
  <2> QED BY <2>2, <2>3, <2>4
<1>13. samples' = samples /\ Begun(r.h)' = Begun(r.h)
  <2>1. Running(r.h)' = Running(r.h)
    BY <1>2 DEF Running
  <2> QED BY <1>2, <2>1, BegunLemma
<1>14. ASSUME NEW o \in reading' PROVE Reads(o)'
  <2>1. o = q
    BY <1>2
  <2>2. /\ o \in ReaderType /\ Sorted(o.known) /\ o.h = r.h
        /\ \A i \in 0..(NumBuckets - 1) : InBucket(o.known, i) <= InBucket(samples'[o.h], i)
    BY <1>3, <1>11, <1>13, <2>1 DEF s
  <2>3. Follows(o, n, begun) /\ begun = Begun(o.h)'
    BY <1>12, <1>13, <2>1, <2>2 DEF begun
  <2> HIDE DEF found, begun
  <2>4. Follows(o, n, Begun(o.h)')
    BY <2>3
  <2> QED BY <2>2, <2>4 DEF Reads
<1>15. Times' /\ Records'
  BY <1>2 DEF IInv, Times, Records, Types, Exclusive, Kept, Running
<1> QED BY <1>14, <1>15 DEF IInv

\* An end_timer that holds the lock; what it measures may be negative.
LEMMA EndTimerStep ==
  ASSUME IInv, NEW t \in Thread, EndTimerLocked(t)
  PROVE  IInv'
<1>1. PICK e \in ending[t] :
        LET found == {e.name} \cap DOMAIN active_timers
            to    == UNION {Route[name] : name \in found}
        IN  /\ LockFree
            /\ \A h \in to : \A r \in Running(h) : r.locked
            /\ active_timers' = [n \in DOMAIN active_timers \ found |-> active_timers[n]]
            /\ ending' = [ending EXCEPT ![t] = {}]
            /\ IF to = {} THEN UNCHANGED recording
               ELSE \E h \in to : Begin(t, h, e.end - active_timers[e.name], TRUE)
            /\ UNCHANGED <<now, hist, reading, samples>>
  BY DEF EndTimerLocked
<1> DEFINE found == {e.name} \cap DOMAIN active_timers
           to    == UNION {Route[name] : name \in found}
<1>2. Times
  BY DEF IInv
<1>3. Times'
  <2>1. /\ now' = now /\ ending' = [ending EXCEPT ![t] = {}]
        /\ DOMAIN active_timers' \subseteq DOMAIN active_timers
        /\ \A n \in DOMAIN active_timers' : active_timers'[n] = active_timers[n]
    BY <1>1
  <2>2. ending' \in [Thread -> SUBSET [name : TimerName, end : 0..now']]
    BY <1>2, <2>1 DEF Times
  <2> QED BY <1>2, <2>1, <2>2 DEF Times
<1>4. CASE to = {}
  <2>1. UNCHANGED <<hist, recording, samples, reading>>
    BY <1>1, <1>4
  <2> QED BY <1>3, <2>1, TimesStep
<1>5. CASE to # {}
  <2>1. PICK h \in to : Begin(t, h, e.end - active_timers[e.name], TRUE)
    BY <1>1, <1>5
  <2>2. e.name \in DOMAIN active_timers /\ h \in Route[e.name]
    OBVIOUS
  <2>3. h \in Histogram
    BY <1>2, <2>2, RouteAssumption DEF Times
  <2>4. e.end - active_timers[e.name] \in Latency
    <3>1. e.end \in 0..now
      BY <1>2 DEF Times
    <3>2. active_timers[e.name] \in 0..MaxTime /\ now \in 0..MaxTime
      BY <1>2, <2>2 DEF Times
    <3> QED BY <3>1, <3>2, LatenciesAssumption, HugeAssumption DEF Latency
  <2>5. Running(h) = {} /\ LockFree
    BY <1>1 DEF Running, LockFree
  <2>6. UNCHANGED <<hist, samples, reading>>
    BY <1>1
  <2> HIDE DEF to
  <2> QED BY <1>3, <2>1, <2>3, <2>4, <2>5, <2>6, BeginStep
<1> QED BY <1>4, <1>5

LEMMA Initially == Init => IInv
<1> SUFFICES ASSUME Init PROVE IInv
  OBVIOUS
<1>1. Times
  BY LatenciesAssumption, HugeAssumption DEF Init, Times
<1>2. /\ hist \in [Histogram -> HistogramType] /\ samples \in [Histogram -> Seq(Latency)]
      /\ \A h \in Histogram : Sorted(samples[h]) /\ Exact(hist[h], samples[h])
  BY EmptyIsExact DEF Init
<1>3. recording = {} /\ reading = {}
  BY DEF Init
<1> QED BY <1>1, <1>2, <1>3 DEF IInv, Records, Types, Exclusive, Kept

LEMMA Invariance ==
  ASSUME IInv, [Next]_vars
  PROVE  IInv'
<1>1. Times
  BY DEF IInv
<1>2. CASE Tick
  <2>1. Times'
    <3>1. now \in 0..MaxTime /\ now < MaxTime /\ now' = now + 1 /\ MaxTime \in Nat
      BY <1>1, <1>2, LatenciesAssumption, HugeAssumption DEF Tick, Times
    <3>2. now' \in 0..MaxTime /\ 0..now \subseteq 0..now'
      BY <3>1
    <3>3. UNCHANGED <<active_timers, ending>>
      BY <1>2 DEF Tick
    <3>4. [name : TimerName, end : 0..now] \subseteq [name : TimerName, end : 0..now']
      BY <3>2
    <3>5. \A t \in Thread : ending[t] \in SUBSET [name : TimerName, end : 0..now']
      BY <1>1, <3>4 DEF Times
    <3> QED BY <1>1, <3>2, <3>3, <3>5 DEF Times
  <2> QED BY <1>2, <2>1, TimesStep DEF Tick
<1>3. CASE \E t \in Thread, name \in TimerName : start_timer(t, name)
  <2>1. PICK t \in Thread, name \in TimerName : start_timer(t, name)
    BY <1>3
  <2>2. Times'
    BY <1>1, <2>1 DEF start_timer, Times
  <2> QED BY <2>1, <2>2, TimesStep DEF start_timer
<1>4. CASE \E t \in Thread, name \in TimerName : end_timer(t, name)
  <2>1. PICK t \in Thread, name \in TimerName : end_timer(t, name)
    BY <1>4
  <2>2. Times'
    <3>1. [name |-> name, end |-> now] \in [name : TimerName, end : 0..now]
      BY <1>1 DEF Times
    <3> QED BY <1>1, <2>1, <3>1 DEF end_timer, Times
  <2> QED BY <2>1, <2>2, TimesStep DEF end_timer
<1>5. CASE \E t \in Thread : EndTimerLocked(t)
  BY <1>5, EndTimerStep
<1>6. CASE \E t \in Thread, h \in Histogram, ns \in DirectLatencies : RecordLatency(t, h, ns)
  <2>1. PICK t \in Thread, h \in Histogram, ns \in DirectLatencies : RecordLatency(t, h, ns)
    BY <1>6
  <2>2. Times'
    BY <1>1, <2>1 DEF RecordLatency, Times
  <2>3. ns \in Latency
    BY LatenciesAssumption DEF Latency
  <2> QED BY <2>1, <2>2, <2>3, BeginStep DEF RecordLatency
<1>7. CASE \E r \in recording : \E field \in r.pending : Store(r, field)
  BY <1>7, StoreStep, LastStoreStep
<1>8. CASE \E h \in Histogram, p \in Percentiles : BeginPercentile(h, p)
  BY <1>8, BeginPercentileStep
<1>9. CASE LoadBucket
  BY <1>9, LoadBucketStep
<1>10. CASE reset
  <2>1. /\ recording' = {} /\ reading' = {} /\ Times'
        /\ hist' = [h \in Histogram |-> EmptyHistogram]
        /\ samples' = [h \in Histogram |-> <<>>]
    BY <1>1, <1>10 DEF reset, Times
  <2>2. /\ hist' \in [Histogram -> HistogramType] /\ samples' \in [Histogram -> Seq(Latency)]
        /\ \A h \in Histogram : Sorted(samples'[h]) /\ Exact(hist'[h], samples'[h])
    BY <2>1, EmptyIsExact
  <2> QED BY <2>1, <2>2 DEF IInv, Records, Types, Exclusive, Kept
<1>11. CASE UNCHANGED vars
  <2>1. Times'
    BY <1>1, <1>11 DEF vars, Times
  <2> QED BY <1>11, <2>1, TimesStep DEF vars
<1> QED BY <1>2, <1>3, <1>4, <1>5, <1>6, <1>7, <1>8, <1>9, <1>10, <1>11 DEF Next

----------------------------------------------------------------------------
(* What follows from it. *)

LEMMA TypesFollow == IInv => TypeOK
<1> SUFFICES ASSUME IInv PROVE TypeOK
  OBVIOUS
<1>1. \A h \in Histogram : IsHistogram(hist[h])
  <2>1. \A h \in Histogram : hist[h] \in HistogramType
    BY DEF IInv, Records, Types
  <2> QED BY <2>1, FieldsLemma DEF IsHistogram
<1>2. \A r \in recording : r.thread \in Thread /\ r.h \in Histogram /\ r.pending \subseteq Fields
  BY DEF IInv, Records, Types, RecordType
<1>3. Cardinality({r \in recording : r.locked}) <= 1
  <2> DEFINE L == {r \in recording : r.locked}
  <2>1. CASE L = {}
    BY <2>1, FS_EmptySet
  <2>2. CASE L # {}
    <3>1. PICK r \in L : TRUE
      BY <2>2
    <3>2. L = {r}
      BY <3>1 DEF IInv, Records, Exclusive
    <3>3. Cardinality({r}) = 1
      BY FS_Singleton
    <3> QED BY <3>2, <3>3
  <2> QED BY <2>1, <2>2
<1>4. \A t \in Thread : \A e \in ending[t] : e.name \in TimerName /\ e.end \in 0..now
  BY DEF IInv, Times
<1> QED BY <1>1, <1>2, <1>3, <1>4 DEF TypeOK, IInv, Times

LEMMA ExactnessFollows == IInv => HistogramIsExact
<1> SUFFICES ASSUME IInv, NEW h \in Histogram, Running(h) = {}
    PROVE  LET all == samples[h]
           IN  /\ hist[h].total_samples = Len(all)
               /\ hist[h].sum_ns = MapThenSumSet(LAMBDA i : all[i], DOMAIN all)
               /\ all # <<>> => hist[h].min_ns = all[1] /\ hist[h].max_ns = all[Len(all)]
               /\ \A b \in 0..(NumBuckets - 1) :
                    hist[h].buckets[b] =
                      Cardinality({i \in DOMAIN all :
                        Clamp(all[i]) \in (b * BucketWidth)..((b + 1) * BucketWidth - 1)})
  BY DEF HistogramIsExact
<1>1. Exact(hist[h], samples[h])
  BY DEF IInv, Records, Kept
<1> QED BY <1>1 DEF Exact, SumOver, InBucket

LEMMA BracketsFollow == IInv => PercentileBracketed
<1> SUFFICES ASSUME IInv, NEW r \in reading, NEW v \in r.answer
    PROVE  LET begun == Begun(r.h)
               half  == BucketWidth \div 2
           IN  \E n \in Len(r.known)..Len(begun) :
                 LET k == (n * r.p[1] + r.p[2] - 1) \div r.p[2]
                 IN  \/ n = 0 /\ v = 0
                     \/ /\ n > 0 /\ v = MaxLatency
                        /\ Len(r.known) < k
                     \/ /\ n > 0 /\ v # MaxLatency
                        /\ Clamp(begun[k]) - half <= v
                        /\ k <= Len(r.known) => v <= Clamp(r.known[k]) + half
  BY DEF PercentileBracketed
<1> DEFINE begun == Begun(r.h)
           known == r.known
           half  == BucketWidth \div 2
           k(n)  == (n * r.p[1] + r.p[2] - 1) \div r.p[2]
<1>1. /\ Sorted(known) /\ Sorted(begun) /\ r.p \in Percentiles /\ r.h \in Histogram
      /\ r.target \in Nat /\ Len(known) \in Nat /\ Len(begun) \in Nat
  BY Between DEF IInv, Reads, ReaderType, Sorted
<1>2. PICK n \in Nat : Follows(r, n, begun)
  BY DEF IInv, Reads
<1>3. n \in Len(known)..Len(begun) /\ r.target = Target(n, r.p)
  BY <1>2 DEF Follows
<1>4. n > 0 => r.target = k(n) /\ k(n) \in 1..n
  BY <1>1, <1>3, TargetLemma
<1>5. half \in Nat /\ BucketWidth <= 2 * half + 1 /\ half < BucketWidth
  <2>1. half \in Nat /\ half * 2 <= BucketWidth /\ BucketWidth < half * 2 + 2
    <3>1. BucketWidth \in Nat /\ 2 \in Nat \ {0}
      BY BucketAssumption
    <3> QED BY <3>1, DivLemma
  <2> HIDE DEF half
  <2> QED BY <2>1, BucketAssumption
<1>6. ASSUME NEW s, Sorted(s), NEW j \in 1..Len(s)
      PROVE  Clamp(s[j]) \in Nat /\ Clamp(s[j]) < MaxLatency
  <2>1. s[j] \in Int
    BY <1>6, HugeAssumption DEF Sorted, Latency
  <2> QED BY <2>1, ClampLemma DEF MaxLatency
<1>7. /\ \A j \in 1..Len(begun) : Clamp(begun[j]) \in Nat
      /\ \A j \in 1..Len(known) : Clamp(known[j]) \in Nat /\ Clamp(known[j]) < MaxLatency
  <2> HIDE DEF begun, known
  <2> QED BY <1>1, <1>6
<1> HIDE DEF begun, known, half, k
<1>8. CASE n = 0 /\ r.answer = {0}
  BY <1>3, <1>8 DEF begun, known, half, k
<1>9. CASE /\ n > 0 /\ r.answer = {MaxLatency}
           /\ Below(known, NumBuckets) < r.target
  <2>1. Below(known, NumBuckets) = Len(known)
    <3>1. /\ Below(known, NumBuckets) \in 0..Len(known)
          /\ \A j \in 1..Len(known) : j <= Below(known, NumBuckets)
                                      <=> Clamp(known[j]) < NumBuckets * BucketWidth
      BY <1>1, CutLemma, BucketAssumption
    <3>2. Len(known) > 0 => Len(known) \in 1..Len(known)
      BY <1>1
    <3>3. Len(known) > 0 => Len(known) <= Below(known, NumBuckets)
      BY <1>7, <3>1, <3>2 DEF MaxLatency
    <3> QED BY <1>1, <3>1, <3>3
  <2>2. n > 0 /\ v = MaxLatency /\ Len(known) < k(n)
    BY <1>4, <1>9, <2>1
  <2> QED BY <1>3, <2>2 DEF begun, known, half, k
<1>10. CASE /\ n > 0
            /\ \E b \in 0..(NumBuckets - 1) :
                 /\ r.answer = {Middle(b)}
                 /\ Below(known, b) < r.target
                 /\ r.target <= Below(begun, b + 1)
  <2>1. PICK b \in 0..(NumBuckets - 1) :
          /\ r.answer = {Middle(b)}
          /\ Below(known, b) < r.target
          /\ r.target <= Below(begun, b + 1)
    BY <1>10
  <2> DEFINE w == BucketWidth
             bw == b * w
             m == k(n)
  <2>2. /\ b \in Nat /\ b + 1 \in Nat /\ b + 1 <= NumBuckets /\ w \in Nat \ {0}
        /\ NumBuckets \in Nat
    BY BucketAssumption
  <2>3. bw \in Nat /\ (b + 1) * w = bw + w /\ bw + w <= MaxLatency /\ MaxLatency \in Nat
    BY <2>2, TimesLemma DEF MaxLatency
  <2>4. v = bw + half
    BY <2>1 DEF Middle, half
  <2>5. m \in 1..n /\ Below(known, b) < m /\ m <= Below(begun, b + 1)
    BY <1>4, <1>10, <2>1
  <2>6. /\ Below(begun, b + 1) \in 0..Len(begun)
        /\ \A j \in 1..Len(begun) : j <= Below(begun, b + 1) <=> Clamp(begun[j]) < (b + 1) * w
        /\ Below(known, b) \in 0..Len(known)
        /\ \A j \in 1..Len(known) : j <= Below(known, b) <=> Clamp(known[j]) < bw
    BY <1>1, <2>2, CutLemma
  <2> HIDE DEF bw, w, m
  <2>7. m \in 1..Len(begun)
    BY <1>1, <2>5, <2>6
  <2>8. Clamp(begun[m]) \in Nat /\ Clamp(begun[m]) < bw + w
    BY <1>7, <2>3, <2>5, <2>6, <2>7
  <2>9. half \in Nat /\ w <= 2 * half + 1 /\ half < w
    BY <1>5 DEF w
  <2>10. Clamp(begun[m]) - half <= v
    BY <2>2, <2>3, <2>4, <2>8, <2>9
  <2>11. v # MaxLatency
    BY <2>2, <2>3, <2>4, <2>9
  <2>12. ASSUME m <= Len(known) PROVE v <= Clamp(known[m]) + half
    <3>1. m \in 1..Len(known) /\ ~(m <= Below(known, b))
      BY <1>1, <2>5, <2>6, <2>12
    <3>2. Clamp(known[m]) \in Nat /\ ~(Clamp(known[m]) < bw)
      BY <1>7, <2>6, <3>1
    <3> QED BY <2>3, <2>4, <2>9, <3>2
  <2> QED BY <1>3, <1>10, <2>10, <2>11, <2>12 DEF begun, known, half, k, m
<1>11. r.answer # {}
  OBVIOUS
<1> QED BY <1>2, <1>8, <1>9, <1>10, <1>11 DEF Follows, known

----------------------------------------------------------------------------
(* The theorems. *)

LEMMA AlwaysIInv == Spec => []IInv
BY Initially, Invariance, PTL DEF Spec

\* Every variable keeps its type, and timer_mutex_ has at most one holder:
\* end_timer records while it holds the lock.
THEOREM TypeCorrect == Spec => []TypeOK
BY AlwaysIInv, TypesFollow, PTL

\* Whenever no record into it runs, a histogram has every latency recorded
\* since its last reset in its bucket, and the count, the sum and the extremes
\* of all of them, in whatever order the stores of record became visible.
THEOREM NothingIsLost == Spec => []HistogramIsExact
BY AlwaysIInv, ExactnessFollows, PTL

\* What percentile answers while others record is, to half a bucket, the
\* latency of the rank it asked for among those known at its begin and those
\* begun since, however many were recorded between its loads.
THEOREM PercentilesAreBracketed == Spec => []PercentileBracketed
BY AlwaysIInv, BracketsFollow, PTL
=============================================================================
