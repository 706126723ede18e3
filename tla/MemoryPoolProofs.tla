-------------------------- MODULE MemoryPoolProofs --------------------------
(***************************************************************************)
(* MemoryPool for every capacity and every finite set of threads, of which *)
(* at most one allocates: slots are neither lost nor given out twice, and  *)
(* the pool implements SlotPool.                                           *)
(***************************************************************************)
EXTENDS MemoryPool, SumProofs

\* A second allocating thread can take a slot and give it back between the
\* first one's read of next_free and its exchange.
OneAllocator == \A s, t \in Allocator : s = t

----------------------------------------------------------------------------
(* The free list, in order. *)

\* q lists the slots from free_head_ to the end.
IsFreeList(n, q) ==
  /\ q \in [1..n -> Slot]
  /\ \A j, k \in 1..n : q[j] = q[k] => j = k
  /\ free_head = IF n = 0 THEN Capacity ELSE q[1]
  /\ \A k \in 1..n : next_free[q[k]] = IF k = n THEN Capacity ELSE q[k + 1]

Ordered == \E n \in 0..Capacity : \E q \in [1..n -> Slot] : IsFreeList(n, q)

Listed(q, n) == {q[k] : k \in 1..n}

\* A list has no more slots than the pool.
LEMMA ListFits ==
  ASSUME NEW n \in Nat, NEW q \in [1..n -> Slot], \A j, k \in 1..n : q[j] = q[k] => j = k
  PROVE  n \in 0..Capacity
<1>1. Capacity \in Nat /\ Capacity - 1 \in Int
  BY CapacityAssumption
<1>2. IsFiniteSet(Slot) /\ Cardinality(Slot) = Capacity
  <2>1. IsFiniteSet(0..(Capacity - 1))
        /\ Cardinality(0..(Capacity - 1)) = IF 0 > Capacity - 1 THEN 0 ELSE (Capacity - 1) - 0 + 1
    BY <1>1, FS_Interval
  <2> QED BY <1>1, <2>1 DEF Slot
<1>3. q \in Injection(1..n, Slot)
  BY DEF Injection, IsInjective
<1>4. Cardinality(1..n) <= Cardinality(Slot)
  <2> HIDE DEF Slot
  <2> QED BY <1>2, <1>3, FS_Injection
<1>5. Cardinality(1..n) = n
  <2>1. Cardinality(1..n) = IF 1 > n THEN 0 ELSE n - 1 + 1
    BY FS_Interval
  <2> QED BY <2>1
<1> QED BY <1>1, <1>2, <1>4, <1>5

\* The first slots of a walk are those of the list.
WalkIsList == \A n \in 0..Capacity : \A q : IsFreeList(n, q) => FreeList = Listed(q, n)

LEMMA WalkLemma == WalkIsList
<1> SUFFICES ASSUME NEW n \in 0..Capacity, NEW q, IsFreeList(n, q)
             PROVE  FreeList = Listed(q, n)
  BY DEF WalkIsList
<1> DEFINE Upto(m) == {q[k] : k \in {j \in 1..n : j <= m + 1}}
           Walk(R) == R = [m \in 0..Capacity |->
                             IF m = 0 THEN {free_head} \cap Slot
                             ELSE R[m - 1] \cup ({next_free[i] : i \in R[m - 1]} \cap Slot)]
           walk == [m \in 0..Capacity |-> Upto(m)]
<1>1. Capacity \in Nat /\ n \in Nat /\ n <= Capacity /\ Capacity \notin Slot
  BY CapacityAssumption DEF Slot
<1>2. q \in [1..n -> Slot]
  BY DEF IsFreeList
<1>3. {free_head} \cap Slot = Upto(0)
  <2>1. CASE n = 0
    <3>1. free_head = Capacity
      BY <2>1 DEF IsFreeList
    <3> QED BY <1>1, <2>1, <3>1
  <2>2. CASE n # 0
    <3>1. free_head = q[1] /\ 1 \in 1..n
      BY <1>1, <2>2 DEF IsFreeList
    <3>2. q[1] \in Slot
      BY <1>2, <3>1
    <3>3. \A j \in 1..n : j <= 0 + 1 => j = 1
      OBVIOUS
    <3> QED BY <3>1, <3>2, <3>3
  <2> QED BY <2>1, <2>2
<1>4. ASSUME NEW m \in 0..Capacity, m # 0
      PROVE  Upto(m) = Upto(m - 1) \cup ({next_free[i] : i \in Upto(m - 1)} \cap Slot)
  <2> DEFINE prev == Upto(m - 1)
             next == {next_free[i] : i \in prev} \cap Slot
  <2>1. ASSUME NEW i \in Upto(m) PROVE i \in prev \cup next
    <3>1. PICK k \in 1..n : i = q[k] /\ k <= m + 1
      OBVIOUS
    <3>2. CASE k <= m
      BY <3>1, <3>2
    <3>3. CASE ~(k <= m)
      <4>1. k - 1 \in 1..n /\ k - 1 <= (m - 1) + 1 /\ k - 1 # n /\ (k - 1) + 1 = k
        BY <1>1, <1>4, <3>1, <3>3
      <4>2. next_free[q[k - 1]] = q[k]
        BY <4>1 DEF IsFreeList
      <4>3. q[k - 1] \in prev /\ q[k] \in Slot
        BY <1>2, <4>1
      <4> HIDE DEF prev
      <4> QED BY <3>1, <4>2, <4>3
    <3> QED BY <3>2, <3>3
  <2>2. prev \subseteq Upto(m)
    <3>1. \A j \in 1..n : j <= (m - 1) + 1 => j <= m + 1
      OBVIOUS
    <3> QED BY <3>1
  <2>3. ASSUME NEW i \in next PROVE i \in Upto(m)
    <3>1. PICK k \in 1..n : k <= (m - 1) + 1 /\ i = next_free[q[k]] /\ i \in Slot
      OBVIOUS
    <3>2. k # n /\ i = q[k + 1]
      BY <1>1, <3>1 DEF IsFreeList
    <3>3. k + 1 \in 1..n /\ k + 1 <= m + 1
      BY <3>1, <3>2
    <3> QED BY <3>2, <3>3
  <2> QED BY <2>1, <2>2, <2>3
<1>5. Walk(walk)
  <2> HIDE DEF Upto
  <2>1. ASSUME NEW m \in 0..Capacity
        PROVE  walk[m] = IF m = 0 THEN {free_head} \cap Slot
                         ELSE walk[m - 1] \cup ({next_free[i] : i \in walk[m - 1]} \cap Slot)
    <3>1. m # 0 => m - 1 \in 0..Capacity
      BY <1>1
    <3> QED BY <1>3, <1>4, <3>1
  <2>2. walk = [m \in 0..Capacity |-> walk[m]]
    OBVIOUS
  <2> HIDE DEF walk
  <2> QED BY <2>1, <2>2
<1>6. Reached = CHOOSE R : Walk(R)
  BY DEF Reached
<1>7. Walk(Reached)
  <2> HIDE DEF Walk, walk
  <2> QED BY <1>5, <1>6
<1> DEFINE T == {m \in Nat : m <= Capacity => Reached[m] = Upto(m)}
<1> HIDE DEF Upto
<1>8. 0 \in T
  BY <1>1, <1>3, <1>7
<1>9. ASSUME NEW m \in Nat, m \in T PROVE m + 1 \in T
  <2> SUFFICES ASSUME m + 1 <= Capacity PROVE Reached[m + 1] = Upto(m + 1)
    BY <1>9
  <2>1. m + 1 \in 0..Capacity /\ m + 1 # 0 /\ (m + 1) - 1 = m /\ m <= Capacity
    BY <1>1
  <2>2. Reached[m] = Upto(m)
    BY <1>9, <2>1
  <2>3. Reached[m + 1] = Reached[m] \cup ({next_free[i] : i \in Reached[m]} \cap Slot)
    BY <1>7, <2>1
  <2> HIDE DEF Walk
  <2>4. Upto(m + 1) = Upto(m) \cup ({next_free[i] : i \in Upto(m)} \cap Slot)
    BY <1>4, <2>1
  <2> QED BY <2>2, <2>3, <2>4
<1>10. Nat \subseteq T
  <2> HIDE DEF T
  <2> QED BY <1>8, <1>9, NatLemma
<1>11. FreeList = Upto(Capacity)
  BY <1>1, <1>10 DEF FreeList
<1>12. \A j \in 1..n : j <= Capacity + 1
  BY <1>1
<1> QED BY <1>11, <1>12 DEF Upto, Listed
----------------------------------------------------------------------------
(* The inductive invariant. *)

\* TypeOK, but for the bounds of allocated_.
Types ==
  /\ next_free \in [Slot -> 0..Capacity]
  /\ in_use \in [Slot -> BOOLEAN]
  /\ free_head \in 0..Capacity
  /\ allocated \in Int
  /\ pc \in [Thread -> {"idle", "read", "exchange", "mark", "count",
                        "load", "link", "push", "uncount"}]
  /\ idx \in [Thread -> 0..Capacity] /\ seen \in [Thread -> 0..Capacity]
  /\ held \in [Slot -> Nat]
  /\ refused \in BOOLEAN

\* A slot that allocate has read is still on the list, with the link it read;
\* one that deallocate has linked still has the link it wrote.
ThreadOK(t) ==
  /\ pc[t] # "idle" => idx[t] \in Slot
  /\ pc[t] \in {"read", "exchange", "mark", "count"} => t \in Allocator
  /\ pc[t] \in {"read", "exchange"} => idx[t] \in FreeList
  /\ pc[t] \in {"exchange", "push"} => next_free[idx[t]] = seen[t]
  /\ pc[t] = "count" => in_use[idx[t]]

\* A slot is on the list, or with one client, or in the hands of one call.
SlotOK(i) ==
  /\ held[i] > 0 => in_use[i]
  /\ \/ i \in FreeList /\ held[i] = 0 /\ InHand(i) = {}
     \/ i \notin FreeList /\ held[i] = 1 /\ InHand(i) = {}
     \/ i \notin FreeList /\ held[i] = 0 /\ \E t \in Thread : InHand(i) = {t}

\* Where threads and slots are.
PlacesInv ==
  /\ Types
  /\ Ordered
  /\ \A t \in Thread : ThreadOK(t)
  /\ \A i \in Slot : SlotOK(i)

IInv == PlacesInv /\ CountsSlots

----------------------------------------------------------------------------
(* What the writes to free_head_ and next_free do to the list. *)

\* A list that keeps its head and its links stays.
LEMMA ListStays ==
  ASSUME Ordered, free_head' = free_head, \A i \in FreeList : next_free'[i] = next_free[i]
  PROVE  Ordered' /\ FreeList' = FreeList
<1>0. PICK n \in 0..Capacity : \E q \in [1..n -> Slot] : IsFreeList(n, q)
  BY DEF Ordered
<1>1. PICK q \in [1..n -> Slot] : IsFreeList(n, q)
  BY <1>0
<1>2. FreeList = Listed(q, n)
  BY <1>1, WalkLemma DEF WalkIsList
<1>3. IsFreeList(n, q)'
  BY <1>1, <1>2 DEF IsFreeList, Listed
<1>4. FreeList' = Listed(q, n)
  <2>1. WalkIsList'
    BY WalkLemma, PTL
  <2> QED BY <1>3, <2>1 DEF WalkIsList, Listed
<1> QED BY <1>1, <1>2, <1>3, <1>4 DEF Ordered

\* The head of the list, if it has one, is on it.
LEMMA HeadIsFree ==
  ASSUME Ordered, free_head \in Slot
  PROVE  free_head \in FreeList
<1>0. PICK n \in 0..Capacity : \E q \in [1..n -> Slot] : IsFreeList(n, q)
  BY DEF Ordered
<1>1. PICK q \in [1..n -> Slot] : IsFreeList(n, q)
  BY <1>0
<1>2. n \in Nat /\ n # 0 /\ free_head = q[1] /\ 1 \in 1..n
  BY <1>1, CapacityAssumption DEF IsFreeList, Slot
<1>3. FreeList = Listed(q, n)
  BY <1>1, WalkLemma DEF WalkIsList
<1> QED BY <1>2, <1>3 DEF Listed

\* The list has slots of the pool only.
LEMMA ListInSlots ==
  ASSUME Ordered
  PROVE  FreeList \subseteq Slot
<1>0. PICK n \in 0..Capacity : \E q \in [1..n -> Slot] : IsFreeList(n, q)
  BY DEF Ordered
<1>1. PICK q \in [1..n -> Slot] : IsFreeList(n, q)
  BY <1>0
<1>2. FreeList = Listed(q, n)
  BY <1>1, WalkLemma DEF WalkIsList
<1> QED BY <1>2 DEF Listed

\* A head that is no slot is the end of an empty list.
LEMMA EndIsEmpty ==
  ASSUME Ordered, free_head = Capacity
  PROVE  FreeList = {}
<1>0. PICK n \in 0..Capacity : \E q \in [1..n -> Slot] : IsFreeList(n, q)
  BY DEF Ordered
<1>1. PICK q \in [1..n -> Slot] : IsFreeList(n, q)
  BY <1>0
<1>2. n = 0
  <2>1. n # 0 => q[1] \in Slot
    BY CapacityAssumption
  <2> QED BY <1>1, <2>1, CapacityAssumption DEF IsFreeList, Slot
<1>3. FreeList = Listed(q, n)
  BY <1>1, WalkLemma DEF WalkIsList
<1> QED BY <1>2, <1>3 DEF Listed

\* allocate's exchange takes the head off the list.
LEMMA ListPops ==
  ASSUME Ordered, free_head \in Slot, free_head' = next_free[free_head], next_free' = next_free
  PROVE  /\ Ordered'
         /\ free_head \in FreeList
         /\ FreeList' = FreeList \ {free_head}
<1>0. PICK n \in 0..Capacity : \E q \in [1..n -> Slot] : IsFreeList(n, q)
  BY DEF Ordered
<1>1. PICK q \in [1..n -> Slot] : IsFreeList(n, q)
  BY <1>0
<1>2. n \in Nat /\ Capacity \in Nat /\ n # 0 /\ n - 1 \in Nat /\ n - 1 \in 0..Capacity
      /\ 1 \in 1..n
  BY <1>1, CapacityAssumption DEF IsFreeList, Slot
<1>3. free_head = q[1] /\ free_head' = IF n = 1 THEN Capacity ELSE q[2]
  BY <1>1, <1>2 DEF IsFreeList
<1> DEFINE r == [k \in 1..(n - 1) |-> q[k + 1]]
<1>4. \A k \in 1..(n - 1) : k + 1 \in 1..n /\ (k = n - 1 <=> k + 1 = n)
  BY <1>2
<1>5. r \in [1..(n - 1) -> Slot]
  BY <1>4
<1>6. IsFreeList(n - 1, r)'
  <2>1. \A j, k \in 1..(n - 1) : r[j] = r[k] => j = k
    <3> SUFFICES ASSUME NEW j \in 1..(n - 1), NEW k \in 1..(n - 1), q[j + 1] = q[k + 1]
                 PROVE  j = k
      OBVIOUS
    <3>1. j + 1 = k + 1
      BY <1>1, <1>4 DEF IsFreeList
    <3> QED BY <3>1
  <2>2. free_head' = IF n - 1 = 0 THEN Capacity ELSE r[1]
    BY <1>2, <1>3
  <2>3. \A k \in 1..(n - 1) :
          next_free[r[k]] = IF k = n - 1 THEN Capacity ELSE r[k + 1]
    <3> SUFFICES ASSUME NEW k \in 1..(n - 1)
                 PROVE  next_free[q[k + 1]] = IF k = n - 1 THEN Capacity ELSE r[k + 1]
      OBVIOUS
    <3>1. next_free[q[k + 1]] = IF k + 1 = n THEN Capacity ELSE q[(k + 1) + 1]
      BY <1>1, <1>4 DEF IsFreeList
    <3>2. k # n - 1 => k + 1 \in 1..(n - 1)
      BY <1>2
    <3> QED BY <1>4, <3>1, <3>2
  <2> HIDE DEF r
  <2> QED BY <1>5, <2>1, <2>2, <2>3 DEF IsFreeList
<1>7. FreeList = Listed(q, n)
  BY <1>1, WalkLemma DEF WalkIsList
<1>8. FreeList' = Listed(r, n - 1)
  <2>1. WalkIsList'
    BY WalkLemma, PTL
  <2> HIDE DEF r
  <2> QED BY <1>2, <1>6, <2>1 DEF WalkIsList, Listed
<1>9. Listed(r, n - 1) = Listed(q, n) \ {q[1]}
  <2>1. ASSUME NEW k \in 1..n, k # 1 PROVE k - 1 \in 1..(n - 1) /\ r[k - 1] = q[k]
    BY <1>2, <2>1
  <2>2. ASSUME NEW k \in 1..(n - 1) PROVE r[k] = q[k + 1] /\ k + 1 \in 1..n /\ q[k + 1] # q[1]
    BY <1>1, <1>2, <1>4 DEF IsFreeList
  <2> HIDE DEF r
  <2> QED BY <2>1, <2>2 DEF Listed
<1>10. Ordered'
  <2> HIDE DEF r
  <2> QED BY <1>2, <1>5, <1>6 DEF Ordered
<1> QED BY <1>2, <1>3, <1>7, <1>8, <1>9, <1>10 DEF Listed

\* deallocate's exchange puts a slot that links to the head before it.
LEMMA ListPushes ==
  ASSUME Ordered, NEW i \in Slot, i \notin FreeList, next_free[i] = free_head,
         free_head' = i, next_free' = next_free
  PROVE  Ordered' /\ FreeList' = FreeList \cup {i}
<1>0. PICK n \in 0..Capacity : \E q \in [1..n -> Slot] : IsFreeList(n, q)
  BY DEF Ordered
<1>1. PICK q \in [1..n -> Slot] : IsFreeList(n, q)
  BY <1>0
<1>2. n \in Nat /\ n + 1 \in Nat
  BY CapacityAssumption
<1>3. FreeList = Listed(q, n)
  BY <1>1, WalkLemma DEF WalkIsList
<1> DEFINE r == [k \in 1..(n + 1) |-> IF k = 1 THEN i ELSE q[k - 1]]
<1>4. \A k \in 1..(n + 1) : k # 1 => k - 1 \in 1..n /\ (k = n + 1 <=> k - 1 = n)
  BY <1>2
<1>5. r \in [1..(n + 1) -> Slot]
  BY <1>4
<1>6. \A k \in 1..n : q[k] # i
  BY <1>3 DEF Listed
<1>7. \A j, k \in 1..(n + 1) : r[j] = r[k] => j = k
  <2> SUFFICES ASSUME NEW j \in 1..(n + 1), NEW k \in 1..(n + 1), r[j] = r[k]
               PROVE  j = k
    OBVIOUS
  <2>1. CASE j = 1 \/ k = 1
    BY <1>4, <1>6, <2>1
  <2>2. CASE j # 1 /\ k # 1
    <3>1. q[j - 1] = q[k - 1] /\ j - 1 \in 1..n /\ k - 1 \in 1..n
      BY <1>4, <2>2
    <3>2. j - 1 = k - 1
      BY <1>1, <3>1 DEF IsFreeList
    <3> QED BY <3>2
  <2> QED BY <2>1, <2>2
<1>8. IsFreeList(n + 1, r)'
  <2>1. free_head' = IF n + 1 = 0 THEN Capacity ELSE r[1]
    BY <1>2
  <2>2. ASSUME NEW k \in 1..(n + 1)
        PROVE  next_free[r[k]] = IF k = n + 1 THEN Capacity ELSE r[k + 1]
    <3>1. k # n + 1 => k + 1 \in 1..(n + 1) /\ k + 1 # 1 /\ (k + 1) - 1 = k
      BY <1>2
    <3>2. CASE k = 1
      <4>1. r[k] = i /\ free_head = IF n = 0 THEN Capacity ELSE q[1]
        BY <1>1, <3>2 DEF IsFreeList
      <4>2. n # 0 => r[k + 1] = q[1]
        BY <1>2, <3>1, <3>2
      <4>3. k = n + 1 <=> n = 0
        BY <1>2, <3>2
      <4> HIDE DEF r
      <4> QED BY <4>1, <4>2, <4>3
    <3>3. CASE k # 1
      <4>1. r[k] = q[k - 1] /\ k - 1 \in 1..n /\ (k = n + 1 <=> k - 1 = n) /\ (k - 1) + 1 = k
        BY <1>4, <3>3
      <4>2. next_free[q[k - 1]] = IF k - 1 = n THEN Capacity ELSE q[k]
        BY <1>1, <4>1 DEF IsFreeList
      <4>3. k # n + 1 => r[k + 1] = q[k]
        BY <3>1
      <4> HIDE DEF r
      <4> QED BY <4>1, <4>2, <4>3
    <3> QED BY <3>2, <3>3
  <2> HIDE DEF r
  <2> QED BY <1>5, <1>7, <2>1, <2>2 DEF IsFreeList
<1>9. n + 1 \in 0..Capacity
  <2> HIDE DEF r
  <2> QED BY <1>2, <1>5, <1>7, ListFits
<1>10. FreeList' = Listed(r, n + 1)
  <2>1. WalkIsList'
    BY WalkLemma, PTL
  <2> HIDE DEF r
  <2> QED BY <1>8, <1>9, <2>1 DEF WalkIsList, Listed
<1>11. Listed(r, n + 1) = Listed(q, n) \cup {i}
  <2>1. r[1] = i /\ 1 \in 1..(n + 1)
    BY <1>2
  <2>2. \A k \in 1..(n + 1) : k # 1 => r[k] = q[k - 1]
    OBVIOUS
  <2>3. \A k \in 1..n : k + 1 \in 1..(n + 1) /\ r[k + 1] = q[k]
    BY <1>2
  <2> HIDE DEF r
  <2> QED BY <1>4, <2>1, <2>2, <2>3 DEF Listed
<1> QED BY <1>3, <1>5, <1>8, <1>9, <1>10, <1>11 DEF Ordered

----------------------------------------------------------------------------
(* Steps of a thread, as the others see them. *)

InHandAt == {"mark", "count", "load", "link", "push"}

\* Thread t goes on; nobody else does.
OnlyMoves(t) ==
  \A s \in Thread \ {t} : pc'[s] = pc[s] /\ idx'[s] = idx[s] /\ seen'[s] = seen[s]

\* A thread that takes a slot into its hands, keeps what it has, or lets it go.
LEMMA HandLemma ==
  ASSUME NEW t \in Thread, OnlyMoves(t)
  PROVE  /\ pc[t] \notin InHandAt /\ pc'[t] \notin InHandAt => \A i : InHand(i)' = InHand(i)
         /\ pc[t] \in InHandAt /\ pc'[t] \in InHandAt /\ idx'[t] = idx[t]
              => \A i : InHand(i)' = InHand(i)
         /\ pc[t] \notin InHandAt /\ pc'[t] \in InHandAt
              => \A i : InHand(i)' = IF i = idx'[t] THEN InHand(i) \cup {t} ELSE InHand(i)
         /\ pc[t] \in InHandAt /\ pc'[t] \notin InHandAt
              => \A i : InHand(i)' = IF i = idx[t] THEN InHand(i) \ {t} ELSE InHand(i)
BY DEF OnlyMoves, InHand, InHandAt

\* The others are where they were as long as their slots and links are.
LEMMA OthersLemma ==
  ASSUME PlacesInv, NEW t \in Thread, OnlyMoves(t), NEW s \in Thread \ {t},
         pc[s] \in {"read", "exchange"} => idx[s] \in FreeList',
         pc[s] \in {"exchange", "push"} => next_free'[idx[s]] = next_free[idx[s]],
         pc[s] = "count" => in_use'[idx[s]] = in_use[idx[s]]
  PROVE  ThreadOK(s)'
<1>1. pc'[s] = pc[s] /\ idx'[s] = idx[s] /\ seen'[s] = seen[s]
  BY DEF OnlyMoves
<1>2. ThreadOK(s)
  BY DEF PlacesInv
<1> QED BY <1>1, <1>2 DEF ThreadOK

\* Two threads never have one slot in hand, and no slot in hand is on the list
\* or with a client.
LEMMA InHandAlone ==
  ASSUME PlacesInv, NEW t \in Thread, pc[t] \in InHandAt
  PROVE  /\ idx[t] \in Slot /\ idx[t] \notin FreeList /\ held[idx[t]] = 0
         /\ InHand(idx[t]) = {t}
<1>1. ThreadOK(t) /\ pc[t] # "idle"
  BY DEF PlacesInv, InHandAt
<1>2. idx[t] \in Slot
  BY <1>1 DEF ThreadOK
<1>3. SlotOK(idx[t]) /\ t \in InHand(idx[t])
  BY <1>2 DEF PlacesInv, InHand, InHandAt
<1> QED BY <1>2, <1>3 DEF SlotOK

\* A step that leaves the list, the flags and the pointers alone.
LEMMA QuietStep ==
  ASSUME PlacesInv, NEW t \in Thread, OnlyMoves(t), Types', ThreadOK(t)',
         UNCHANGED <<next_free, in_use, free_head, held>>,
         \/ pc[t] \notin InHandAt /\ pc'[t] \notin InHandAt
         \/ pc[t] \in InHandAt /\ pc'[t] \in InHandAt /\ idx'[t] = idx[t]
  PROVE  PlacesInv' /\ FreeList' = FreeList
<1>1. Ordered' /\ FreeList' = FreeList
  BY ListStays DEF PlacesInv
<1>2. \A i : InHand(i)' = InHand(i)
  BY HandLemma
<1>3. ASSUME NEW s \in Thread \ {t} PROVE ThreadOK(s)'
  <2>1. ThreadOK(s)
    BY DEF PlacesInv
  <2> QED BY <1>1, <2>1, OthersLemma DEF ThreadOK
<1>4. \A i \in Slot : SlotOK(i)'
  BY <1>1, <1>2 DEF PlacesInv, SlotOK
<1> QED BY <1>1, <1>3, <1>4 DEF PlacesInv

----------------------------------------------------------------------------
(* allocate *)

\* What allocate does before it has a slot.
LEMMA AllocateLooks ==
  ASSUME PlacesInv, NEW t \in Thread,
         AllocateLoad(t) \/ AllocateRead(t) \/ AllocateRetry(t)
  PROVE  PlacesInv' /\ FreeList' = FreeList
<1>1. UNCHANGED <<next_free, in_use, free_head, held>> /\ ThreadOK(t)
  BY DEF PlacesInv, AllocateLoad, AllocateRead, AllocateRetry, AllocateSees
<1>2. CASE AllocateLoad(t) \/ AllocateRetry(t)
  <2>1. OnlyMoves(t)
    BY <1>2 DEF PlacesInv, Types, OnlyMoves, AllocateLoad, AllocateRetry, AllocateSees, Goto
  <2>2. Types'
    BY <1>2 DEF PlacesInv, Types, AllocateLoad, AllocateRetry, AllocateSees, Goto
  <2>3. /\ pc[t] \in {"idle", "exchange"} /\ t \in Allocator
        /\ pc'[t] \in {"idle", "read"} /\ idx'[t] = free_head
        /\ pc'[t] = "read" => free_head \in Slot
    <3>1. pc[t] \in {"idle", "exchange"} /\ t \in Allocator
      BY <1>1, <1>2 DEF AllocateLoad, AllocateRetry, AllocateSees, Goto, ThreadOK
    <3>2. /\ pc'[t] = IF free_head >= Capacity THEN "idle" ELSE "read"
          /\ idx'[t] = free_head
      BY <1>2 DEF PlacesInv, Types, AllocateLoad, AllocateRetry, AllocateSees, Goto
    <3>3. free_head < Capacity => free_head \in Slot
      BY CapacityAssumption DEF PlacesInv, Types, Slot
    <3> QED BY <3>1, <3>2, <3>3, CapacityAssumption DEF PlacesInv, Types
  <2>4. pc'[t] = "read" => free_head \in FreeList'
    <3>1. FreeList' = FreeList
      BY <1>1, ListStays DEF PlacesInv
    <3> SUFFICES ASSUME free_head \in Slot PROVE free_head \in FreeList
      BY <2>3, <3>1
    <3> QED BY HeadIsFree DEF PlacesInv
  <2>5. ThreadOK(t)'
    BY <2>3, <2>4 DEF ThreadOK
  <2> QED BY <1>1, <2>1, <2>2, <2>3, <2>5, QuietStep DEF InHandAt
<1>3. CASE AllocateRead(t)
  <2>1. OnlyMoves(t)
    BY <1>3 DEF PlacesInv, Types, OnlyMoves, AllocateRead, Goto
  <2>2. /\ pc[t] = "read" /\ pc'[t] = "exchange" /\ idx'[t] = idx[t]
        /\ seen'[t] = next_free[idx[t]]
    BY <1>3 DEF PlacesInv, Types, AllocateRead, Goto
  <2>3. idx[t] \in Slot /\ t \in Allocator /\ idx[t] \in FreeList
    BY <1>1, <2>2 DEF ThreadOK
  <2>4. Types'
    BY <1>3, <2>3 DEF PlacesInv, Types, AllocateRead, Goto
  <2>5. FreeList' = FreeList
    BY <1>1, ListStays DEF PlacesInv
  <2>6. ThreadOK(t)'
    BY <1>1, <2>2, <2>3, <2>5 DEF ThreadOK
  <2> QED BY <1>1, <2>1, <2>2, <2>4, <2>6, QuietStep DEF InHandAt
<1> QED BY <1>2, <1>3

\* The exchange takes the head: what was read of it still holds, since nobody
\* else takes slots from the list.
LEMMA AllocateTakes ==
  ASSUME OneAllocator, PlacesInv, NEW t \in Thread, AllocateExchange(t)
  PROVE  /\ PlacesInv'
         /\ idx[t] \in FreeList /\ FreeList' = FreeList \ {idx[t]}
         /\ pc[t] = "exchange" /\ pc'[t] = "mark" /\ OnlyMoves(t)
         /\ refused' = FALSE
<1>1. /\ pc[t] = "exchange" /\ pc'[t] = "mark" /\ idx'[t] = idx[t] /\ OnlyMoves(t)
      /\ free_head = idx[t] /\ free_head' = seen[t] /\ refused' = FALSE
      /\ UNCHANGED <<next_free, in_use, held>>
  BY DEF PlacesInv, Types, AllocateExchange, Goto, OnlyMoves
<1>2. Types'
  BY DEF PlacesInv, Types, AllocateExchange, Goto
<1>3. ThreadOK(t) /\ idx[t] \in Slot /\ t \in Allocator /\ seen[t] = next_free[idx[t]]
  BY <1>1 DEF PlacesInv, ThreadOK
<1>4. Ordered' /\ idx[t] \in FreeList /\ FreeList' = FreeList \ {idx[t]}
  BY <1>1, <1>3, ListPops DEF PlacesInv
<1>5. ASSUME NEW s \in Thread PROVE ThreadOK(s)'
  <2>1. CASE s = t
    BY <1>1, <1>3, <2>1 DEF ThreadOK
  <2>2. CASE s # t
    <3>1. ThreadOK(s)
      BY DEF PlacesInv
    <3>2. pc[s] \notin {"read", "exchange"}
      BY <1>3, <2>2, <3>1 DEF ThreadOK, OneAllocator
    <3> QED BY <1>1, <2>2, <3>2, OthersLemma
  <2> QED BY <2>1, <2>2
<1>6. ASSUME NEW i \in Slot PROVE SlotOK(i)'
  <2>1. InHand(i)' = IF i = idx[t] THEN InHand(i) \cup {t} ELSE InHand(i)
    BY <1>1, HandLemma DEF InHandAt
  <2>2. SlotOK(i)
    BY DEF PlacesInv
  <2> QED BY <1>1, <1>4, <2>1, <2>2 DEF SlotOK
<1> QED BY <1>1, <1>2, <1>4, <1>5, <1>6 DEF PlacesInv

\* The flag of a slot that is in hand is set, or the pointer to it handed out.
LEMMA AllocateEnds ==
  ASSUME PlacesInv, NEW t \in Thread, AllocateMark(t) \/ AllocateCount(t)
  PROVE  PlacesInv' /\ FreeList' = FreeList
<1>1. pc[t] \in {"mark", "count"} /\ ThreadOK(t)
  BY DEF PlacesInv, AllocateMark, AllocateCount, Goto
<1>2. /\ idx[t] \in Slot /\ idx[t] \notin FreeList /\ held[idx[t]] = 0 /\ InHand(idx[t]) = {t}
      /\ t \in Allocator
  BY <1>1, InHandAlone DEF InHandAt, ThreadOK
<1>3. /\ OnlyMoves(t) /\ idx'[t] = idx[t] /\ UNCHANGED <<next_free, free_head>>
      /\ \A i \in Slot : i # idx[t] => held'[i] = held[i] /\ in_use'[i] = in_use[i]
  BY DEF PlacesInv, Types, AllocateMark, AllocateCount, Goto, OnlyMoves
<1>4. Ordered' /\ FreeList' = FreeList
  BY <1>3, ListStays DEF PlacesInv
<1>5. CASE AllocateMark(t)
  <2>1. Types' /\ pc[t] = "mark" /\ pc'[t] = "count" /\ in_use'[idx[t]] = TRUE /\ held' = held
    BY <1>2, <1>5 DEF PlacesInv, Types, AllocateMark, Goto
  <2>2. ASSUME NEW s \in Thread PROVE ThreadOK(s)'
    <3>1. CASE s = t
      BY <1>2, <1>3, <2>1, <3>1 DEF ThreadOK
    <3>2. CASE s # t
      <4>1. ThreadOK(s)
        BY DEF PlacesInv
      <4>2. pc[s] = "count" => idx[s] \in Slot /\ idx[s] # idx[t]
        BY <1>2, <3>2, <4>1 DEF ThreadOK, InHand
      <4>3. pc[s] = "count" => in_use'[idx[s]] = in_use[idx[s]]
        BY <1>3, <4>2
      <4> QED BY <1>3, <1>4, <3>2, <4>1, <4>3, OthersLemma DEF ThreadOK
    <3> QED BY <3>1, <3>2
  <2>3. ASSUME NEW i \in Slot PROVE SlotOK(i)'
    <3>1. InHand(i)' = InHand(i)
      BY <1>3, <2>1, HandLemma DEF InHandAt
    <3>2. SlotOK(i)
      BY DEF PlacesInv
    <3> QED BY <1>2, <1>3, <1>4, <2>1, <3>1, <3>2 DEF SlotOK
  <2> QED BY <1>4, <2>1, <2>2, <2>3 DEF PlacesInv
<1>6. CASE AllocateCount(t)
  <2>1. /\ Types' /\ pc[t] = "count" /\ pc'[t] = "idle" /\ in_use' = in_use
        /\ held'[idx[t]] = held[idx[t]] + 1
    BY <1>2, <1>6 DEF PlacesInv, Types, AllocateCount, Goto
  <2>2. in_use[idx[t]]
    BY <1>1, <2>1 DEF ThreadOK
  <2>3. ASSUME NEW s \in Thread PROVE ThreadOK(s)'
    <3>1. CASE s = t
      BY <2>1, <3>1 DEF ThreadOK
    <3>2. CASE s # t
      <4>1. ThreadOK(s)
        BY DEF PlacesInv
      <4> QED BY <1>3, <1>4, <2>1, <3>2, <4>1, OthersLemma DEF ThreadOK
    <3> QED BY <3>1, <3>2
  <2>4. ASSUME NEW i \in Slot PROVE SlotOK(i)'
    <3>1. InHand(i)' = IF i = idx[t] THEN InHand(i) \ {t} ELSE InHand(i)
      BY <1>3, <2>1, HandLemma DEF InHandAt
    <3>2. SlotOK(i)
      BY DEF PlacesInv
    <3>3. CASE i = idx[t]
      BY <1>2, <1>4, <2>1, <2>2, <3>1, <3>3 DEF SlotOK
    <3>4. CASE i # idx[t]
      BY <1>3, <1>4, <2>1, <3>1, <3>2, <3>4 DEF SlotOK
    <3> QED BY <3>3, <3>4
  <2> QED BY <1>4, <2>1, <2>3, <2>4 DEF PlacesInv
<1> QED BY <1>5, <1>6

----------------------------------------------------------------------------
(* deallocate *)

\* A client gives up its pointer; no thread is about the slot then.
LEMMA DeallocateBegins ==
  ASSUME PlacesInv, NEW t \in Thread, NEW i \in Slot, DeallocateUnmark(t, i)
  PROVE  PlacesInv' /\ FreeList' = FreeList
<1>1. /\ pc[t] = "idle" /\ pc'[t] = "load" /\ idx'[t] = i /\ held[i] > 0
      /\ OnlyMoves(t) /\ UNCHANGED <<next_free, free_head>> /\ Types'
      /\ held'[i] = held[i] - 1
      /\ \A j \in Slot : j # i => held'[j] = held[j] /\ in_use'[j] = in_use[j]
  <2>1. i \in 0..Capacity
    BY CapacityAssumption DEF Slot
  <2>2. held[i] \in Nat
    BY DEF PlacesInv, Types
  <2>3. held[i] > 0 /\ held[i] - 1 \in Nat
    BY <2>2 DEF DeallocateUnmark
  <2> QED BY <2>1, <2>3 DEF PlacesInv, Types, DeallocateUnmark, Goto, OnlyMoves
<1>2. i \notin FreeList /\ held[i] = 1 /\ InHand(i) = {}
  <2>1. SlotOK(i)
    BY DEF PlacesInv
  <2> QED BY <1>1, <2>1 DEF SlotOK
<1>3. Ordered' /\ FreeList' = FreeList
  BY <1>1, ListStays DEF PlacesInv
<1>4. ASSUME NEW s \in Thread PROVE ThreadOK(s)'
  <2>1. CASE s = t
    BY <1>1, <2>1 DEF ThreadOK
  <2>2. CASE s # t
    <3>1. ThreadOK(s)
      BY DEF PlacesInv
    <3>2. pc[s] = "count" => idx[s] \in Slot /\ idx[s] # i
      BY <1>2, <3>1 DEF ThreadOK, InHand
    <3>3. pc[s] = "count" => in_use'[idx[s]] = in_use[idx[s]]
      BY <1>1, <3>2
    <3> QED BY <1>1, <1>3, <2>2, <3>1, <3>3, OthersLemma DEF ThreadOK
  <2> QED BY <2>1, <2>2
<1>5. ASSUME NEW j \in Slot PROVE SlotOK(j)'
  <2>1. InHand(j)' = IF j = i THEN InHand(j) \cup {t} ELSE InHand(j)
    BY <1>1, HandLemma DEF InHandAt
  <2>2. SlotOK(j)
    BY DEF PlacesInv
  <2> QED BY <1>1, <1>2, <1>3, <2>1, <2>2 DEF SlotOK
<1> QED BY <1>1, <1>3, <1>4, <1>5 DEF PlacesInv

\* The loads of free_head_, and the count, touch no slot.
LEMMA DeallocateLooks ==
  ASSUME PlacesInv, NEW t \in Thread, DeallocateLoad(t) \/ DeallocateRetry(t)
  PROVE  PlacesInv' /\ FreeList' = FreeList
<1>1. /\ pc[t] \in {"load", "push"} /\ pc'[t] = "link" /\ idx'[t] = idx[t] /\ OnlyMoves(t)
      /\ UNCHANGED <<next_free, in_use, free_head, held>> /\ Types'
  BY DEF PlacesInv, Types, DeallocateLoad, DeallocateRetry, DeallocateSees, Goto, OnlyMoves
<1>2. ThreadOK(t)
  BY DEF PlacesInv
<1>3. ThreadOK(t)'
  BY <1>1, <1>2 DEF ThreadOK
<1> QED BY <1>1, <1>3, QuietStep DEF InHandAt

\* The link is written in a slot that is in hand, so in nobody else's list or
\* hands.
LEMMA DeallocateLinks ==
  ASSUME PlacesInv, NEW t \in Thread, DeallocateLink(t)
  PROVE  PlacesInv' /\ FreeList' = FreeList
<1>1. /\ pc[t] = "link" /\ pc'[t] = "push" /\ idx'[t] = idx[t] /\ seen'[t] = seen[t]
      /\ OnlyMoves(t) /\ UNCHANGED <<in_use, free_head, held>>
      /\ next_free' = [next_free EXCEPT ![idx[t]] = seen[t]]
  BY DEF PlacesInv, Types, DeallocateLink, Goto, OnlyMoves
<1>2. idx[t] \in Slot /\ idx[t] \notin FreeList /\ InHand(idx[t]) = {t}
  BY <1>1, InHandAlone DEF InHandAt
<1>3. Types'
  BY DEF PlacesInv, Types, DeallocateLink, Goto
<1>4. /\ next_free'[idx[t]] = seen[t]
      /\ \A i \in Slot : i # idx[t] => next_free'[i] = next_free[i]
  BY <1>1, <1>2 DEF PlacesInv, Types
<1>5. FreeList \subseteq Slot
  BY ListInSlots DEF PlacesInv
<1>6. Ordered' /\ FreeList' = FreeList
  <2>1. \A i \in FreeList : next_free'[i] = next_free[i]
    BY <1>2, <1>4, <1>5
  <2> QED BY <1>1, <2>1, ListStays DEF PlacesInv
<1>7. ASSUME NEW s \in Thread PROVE ThreadOK(s)'
  <2>1. ThreadOK(s)
    BY DEF PlacesInv
  <2>2. CASE s = t
    BY <1>1, <1>2, <1>4, <2>1, <2>2 DEF ThreadOK
  <2>3. CASE s # t
    <3>1. pc[s] \in {"exchange", "push"} => idx[s] \in Slot /\ idx[s] # idx[t]
      BY <1>2, <2>1, <2>3 DEF ThreadOK, InHand
    <3>2. pc[s] \in {"exchange", "push"} => next_free'[idx[s]] = next_free[idx[s]]
      BY <1>4, <3>1
    <3> QED BY <1>1, <1>6, <2>1, <2>3, <3>2, OthersLemma DEF ThreadOK
  <2> QED BY <2>2, <2>3
<1>8. ASSUME NEW i \in Slot PROVE SlotOK(i)'
  <2>1. InHand(i)' = InHand(i)
    BY <1>1, HandLemma DEF InHandAt
  <2>2. SlotOK(i)
    BY DEF PlacesInv
  <2> QED BY <1>1, <1>6, <2>1, <2>2 DEF SlotOK
<1> QED BY <1>3, <1>6, <1>7, <1>8 DEF PlacesInv

\* The exchange puts the slot, with its link, before the head it links to.
LEMMA DeallocatePuts ==
  ASSUME PlacesInv, NEW t \in Thread, DeallocateExchange(t)
  PROVE  /\ PlacesInv'
         /\ idx[t] \in Slot \ FreeList /\ FreeList' = FreeList \cup {idx[t]}
         /\ pc[t] = "push" /\ pc'[t] = "uncount" /\ OnlyMoves(t)
         /\ refused' = FALSE
<1>1. /\ pc[t] = "push" /\ pc'[t] = "uncount" /\ idx'[t] = idx[t] /\ OnlyMoves(t)
      /\ free_head = seen[t] /\ free_head' = idx[t] /\ refused' = FALSE
      /\ UNCHANGED <<next_free, in_use, held>>
  BY DEF PlacesInv, Types, DeallocateExchange, Goto, OnlyMoves
<1>2. Types'
  BY DEF PlacesInv, Types, DeallocateExchange, Goto
<1>3. /\ idx[t] \in Slot /\ idx[t] \notin FreeList /\ held[idx[t]] = 0
      /\ InHand(idx[t]) = {t}
  BY <1>1, InHandAlone DEF InHandAt
<1>4. ThreadOK(t) /\ next_free[idx[t]] = free_head
  BY <1>1 DEF PlacesInv, ThreadOK
<1>5. Ordered' /\ FreeList' = FreeList \cup {idx[t]}
  BY <1>1, <1>3, <1>4, ListPushes DEF PlacesInv
<1>6. ASSUME NEW s \in Thread PROVE ThreadOK(s)'
  <2>1. CASE s = t
    BY <1>1, <1>3, <2>1 DEF ThreadOK
  <2>2. CASE s # t
    <3>1. ThreadOK(s)
      BY DEF PlacesInv
    <3> QED BY <1>1, <1>5, <2>2, <3>1, OthersLemma DEF ThreadOK
  <2> QED BY <2>1, <2>2
<1>7. ASSUME NEW i \in Slot PROVE SlotOK(i)'
  <2>1. InHand(i)' = IF i = idx[t] THEN InHand(i) \ {t} ELSE InHand(i)
    BY <1>1, HandLemma DEF InHandAt
  <2>2. SlotOK(i)
    BY DEF PlacesInv
  <2>3. CASE i = idx[t]
    BY <1>1, <1>3, <1>5, <2>1, <2>3 DEF SlotOK
  <2>4. CASE i # idx[t]
    BY <1>1, <1>5, <2>1, <2>2, <2>4 DEF SlotOK
  <2> QED BY <2>3, <2>4
<1> QED BY <1>1, <1>2, <1>3, <1>5, <1>6, <1>7 DEF PlacesInv

\* The count is the last of a call.
LEMMA DeallocateEnds ==
  ASSUME PlacesInv, NEW t \in Thread, DeallocateUncount(t)
  PROVE  PlacesInv' /\ FreeList' = FreeList
<1>1. /\ pc[t] = "uncount" /\ pc'[t] = "idle" /\ OnlyMoves(t) /\ Types'
      /\ UNCHANGED <<next_free, in_use, free_head, held>>
  BY DEF PlacesInv, Types, DeallocateUncount, Goto, OnlyMoves
<1>2. ThreadOK(t)'
  BY <1>1 DEF ThreadOK
<1> QED BY <1>1, <1>2, QuietStep DEF InHandAt

----------------------------------------------------------------------------
(* allocated_ *)

\* The slots that are not on the list, and the calls whose count is due.
Taken == Slot \ FreeList
ToCount == {t \in Thread : pc[t] \in {"mark", "count"}}
ToUncount == {t \in Thread : pc[t] = "uncount"}

\* These sets are finite.
LEMMA CountsAreNumbers ==
  /\ IsFiniteSet(Slot) /\ Cardinality(Slot) = Capacity
  /\ IsFiniteSet(Taken) /\ Cardinality(Taken) \in 0..Capacity
  /\ IsFiniteSet(ToCount) /\ Cardinality(ToCount) \in Nat
  /\ IsFiniteSet(ToUncount) /\ Cardinality(ToUncount) \in 0..Cardinality(Thread)
<1>1. Capacity \in Nat /\ Capacity - 1 \in Int
  BY CapacityAssumption
<1>2. IsFiniteSet(Slot) /\ Cardinality(Slot) = Capacity
  <2>1. IsFiniteSet(0..(Capacity - 1))
        /\ Cardinality(0..(Capacity - 1)) = IF 0 > Capacity - 1 THEN 0 ELSE (Capacity - 1) - 0 + 1
    BY <1>1, FS_Interval
  <2> QED BY <1>1, <2>1 DEF Slot
<1>3. Taken \subseteq Slot /\ ToCount \subseteq Thread /\ ToUncount \subseteq Thread
  BY DEF Taken, ToCount, ToUncount
<1>4. IsFiniteSet(Thread) /\ Cardinality(Thread) \in Nat
  BY ThreadAssumption, FS_CardinalityType
<1>5. IsFiniteSet(Taken) /\ Cardinality(Taken) <= Capacity /\ Cardinality(Taken) \in Nat
  BY <1>2, <1>3, FS_Subset, FS_CardinalityType
<1>6. IsFiniteSet(ToCount) /\ Cardinality(ToCount) \in Nat
  BY <1>3, <1>4, FS_Subset, FS_CardinalityType
<1>7. /\ IsFiniteSet(ToUncount) /\ Cardinality(ToUncount) <= Cardinality(Thread)
      /\ Cardinality(ToUncount) \in Nat
  BY <1>3, <1>4, FS_Subset, FS_CardinalityType
<1> QED BY <1>1, <1>2, <1>4, <1>5, <1>6, <1>7

\* A step of one thread moves that thread alone into or out of these sets.
LEMMA DueLemma ==
  ASSUME NEW t \in Thread, OnlyMoves(t)
  PROVE  /\ ToCount' = IF pc'[t] \in {"mark", "count"} THEN ToCount \cup {t} ELSE ToCount \ {t}
         /\ ToUncount' = IF pc'[t] = "uncount" THEN ToUncount \cup {t} ELSE ToUncount \ {t}
         /\ t \in ToCount <=> pc[t] \in {"mark", "count"}
         /\ t \in ToUncount <=> pc[t] = "uncount"
BY DEF OnlyMoves, ToCount, ToUncount

\* Each call counts once for the slot it moved.
LEMMA CountStep ==
  ASSUME OneAllocator, IInv, Next
  PROVE  CountsSlots'
<1>1. PICK t \in Thread : Allocate(t) \/ Deallocate(t)
  BY DEF Next
<1> DEFINE a == Cardinality(Taken)
           b == Cardinality(ToCount)
           c == Cardinality(ToUncount)
<1>2. allocated = a - b + c /\ a \in Nat /\ b \in Nat /\ c \in Nat
  BY CountsAreNumbers DEF IInv, CountsSlots, Taken, ToCount, ToUncount
<1>3. OnlyMoves(t) /\ PlacesInv
  BY <1>1 DEF IInv, PlacesInv, Types, OnlyMoves, Goto, Allocate, Deallocate, AllocateLoad,
     AllocateRetry, AllocateSees, AllocateRead, AllocateExchange, AllocateMark, AllocateCount,
     DeallocateUnmark, DeallocateLoad, DeallocateRetry, DeallocateSees, DeallocateLink,
     DeallocateExchange, DeallocateUncount
<1>4. /\ ToCount' = IF pc'[t] \in {"mark", "count"} THEN ToCount \cup {t} ELSE ToCount \ {t}
      /\ ToUncount' = IF pc'[t] = "uncount" THEN ToUncount \cup {t} ELSE ToUncount \ {t}
      /\ t \in ToCount <=> pc[t] \in {"mark", "count"}
      /\ t \in ToUncount <=> pc[t] = "uncount"
  BY <1>3, DueLemma
<1>5. /\ IsFiniteSet(ToCount) /\ IsFiniteSet(ToUncount) /\ IsFiniteSet(Taken)
  BY CountsAreNumbers
<1>6. SUFFICES allocated' = Cardinality(Taken') - Cardinality(ToCount') + Cardinality(ToUncount')
  BY DEF CountsSlots, Taken, ToCount, ToUncount
<1>7. CASE AllocateLoad(t) \/ AllocateRead(t) \/ AllocateRetry(t) \/ AllocateMark(t)
           \/ (\E i \in Slot : DeallocateUnmark(t, i)) \/ DeallocateLoad(t) \/ DeallocateLink(t)
           \/ DeallocateRetry(t)
  <2>1. FreeList' = FreeList
    BY <1>3, <1>7, AllocateLooks, AllocateEnds, DeallocateBegins, DeallocateLooks, DeallocateLinks
  <2>2. allocated' = allocated /\ ToCount' = ToCount /\ ToUncount' = ToUncount
    BY <1>3, <1>4, <1>7 DEF PlacesInv, Types, Goto, AllocateLoad, AllocateRetry, AllocateSees,
       AllocateRead, AllocateMark, DeallocateUnmark, DeallocateLoad, DeallocateRetry,
       DeallocateSees, DeallocateLink
  <2> QED BY <1>2, <2>1, <2>2 DEF Taken
<1>8. CASE AllocateExchange(t)
  <2>1. /\ idx[t] \in FreeList /\ FreeList' = FreeList \ {idx[t]} /\ pc[t] = "exchange"
        /\ pc'[t] = "mark" /\ allocated' = allocated
    BY <1>3, <1>8, AllocateTakes DEF AllocateExchange
  <2>2. Taken' = Taken \cup {idx[t]} /\ idx[t] \notin Taken
    <3>1. FreeList \subseteq Slot
      BY <1>3, ListInSlots DEF PlacesInv
    <3> QED BY <2>1, <3>1 DEF Taken
  <2>3. Cardinality(Taken') = a + 1
    BY <1>5, <2>2, FS_AddElement
  <2>4. ToCount' = ToCount \cup {t} /\ t \notin ToCount /\ ToUncount' = ToUncount
    BY <1>4, <2>1
  <2>5. Cardinality(ToCount') = b + 1
    BY <1>5, <2>4, FS_AddElement
  <2> HIDE DEF a, b, c
  <2> QED BY <1>2, <2>1, <2>3, <2>4, <2>5 DEF c
<1>9. CASE AllocateCount(t)
  <2>1. FreeList' = FreeList
    BY <1>3, <1>9, AllocateEnds
  <2>2. pc[t] = "count" /\ pc'[t] = "idle" /\ allocated' = allocated + 1
    BY <1>3, <1>9 DEF AllocateCount, Goto, PlacesInv, Types
  <2>3. ToCount' = ToCount \ {t} /\ t \in ToCount /\ ToUncount' = ToUncount /\ Taken' = Taken
    BY <1>4, <2>1, <2>2 DEF Taken
  <2>4. Cardinality(ToCount') = b - 1
    BY <1>5, <2>3, FS_RemoveElement
  <2> HIDE DEF b
  <2> QED BY <1>2, <2>2, <2>3, <2>4
<1>10. CASE DeallocateExchange(t)
  <2>1. /\ idx[t] \in Slot \ FreeList /\ FreeList' = FreeList \cup {idx[t]} /\ pc[t] = "push"
        /\ pc'[t] = "uncount" /\ allocated' = allocated
    BY <1>3, <1>10, DeallocatePuts DEF DeallocateExchange
  <2>2. Taken' = Taken \ {idx[t]} /\ idx[t] \in Taken
    BY <2>1 DEF Taken
  <2>3. Cardinality(Taken') = a - 1
    BY <1>5, <2>2, FS_RemoveElement
  <2>4. ToUncount' = ToUncount \cup {t} /\ t \notin ToUncount /\ ToCount' = ToCount
    BY <1>4, <2>1
  <2>5. Cardinality(ToUncount') = c + 1
    BY <1>5, <2>4, FS_AddElement
  <2> HIDE DEF a, b, c
  <2> QED BY <1>2, <2>1, <2>3, <2>4, <2>5 DEF b
<1>11. CASE DeallocateUncount(t)
  <2>1. FreeList' = FreeList
    BY <1>3, <1>11, DeallocateEnds
  <2>2. pc[t] = "uncount" /\ pc'[t] = "idle" /\ allocated' = allocated - 1
    BY <1>3, <1>11 DEF DeallocateUncount, Goto, PlacesInv, Types
  <2>3. ToUncount' = ToUncount \ {t} /\ t \in ToUncount /\ ToCount' = ToCount /\ Taken' = Taken
    BY <1>4, <2>1, <2>2 DEF Taken
  <2>4. Cardinality(ToUncount') = c - 1
    BY <1>5, <2>3, FS_RemoveElement
  <2> HIDE DEF c
  <2> QED BY <1>2, <2>2, <2>3, <2>4
<1> QED BY <1>1, <1>7, <1>8, <1>9, <1>10, <1>11 DEF Allocate, Deallocate

----------------------------------------------------------------------------
(* The theorems. *)

\* The constructor links all slots in order.
LEMMA InitIInv == Init => IInv
<1> SUFFICES ASSUME Init PROVE IInv
  OBVIOUS
<1>1. Capacity \in Nat \ {0}
  BY CapacityAssumption
<1>2. Types
  <2>1. \A i \in Slot : i + 1 \in 0..Capacity
    BY <1>1 DEF Slot
  <2>2. 0 \in 0..Capacity /\ 0 \in Nat /\ 0 \in Int
    BY <1>1
  <2>3. next_free \in [Slot -> 0..Capacity] /\ held \in [Slot -> Nat]
    BY <2>1, <2>2 DEF Init
  <2>4. idx \in [Thread -> 0..Capacity] /\ seen \in [Thread -> 0..Capacity]
    BY <2>2 DEF Init
  <2> QED BY <2>2, <2>3, <2>4 DEF Init, Types
<1> DEFINE q == [k \in 1..Capacity |-> k - 1]
<1>3. q \in [1..Capacity -> Slot] /\ Capacity \in 0..Capacity
  BY <1>1 DEF Slot
<1>4. IsFreeList(Capacity, q)
  <2>1. \A j, k \in 1..Capacity : q[j] = q[k] => j = k
    BY <1>1
  <2>2. free_head = q[1] /\ 1 \in 1..Capacity
    BY <1>1 DEF Init
  <2>3. ASSUME NEW k \in 1..Capacity
        PROVE  next_free[q[k]] = IF k = Capacity THEN Capacity ELSE q[k + 1]
    <3>1. k - 1 \in Slot /\ (k - 1) + 1 = k /\ (k # Capacity => k + 1 \in 1..Capacity)
      BY <1>1 DEF Slot
    <3>2. next_free[k - 1] = k
      BY <3>1 DEF Init
    <3>3. k # Capacity => q[k + 1] = k
      BY <3>1
    <3> QED BY <3>2, <3>3
  <2> HIDE DEF q
  <2> QED BY <1>1, <1>3, <2>1, <2>2, <2>3 DEF IsFreeList
<1>5. Ordered
  <2> HIDE DEF q
  <2> QED BY <1>3, <1>4 DEF Ordered
<1>6. FreeList = Slot
  <2>1. FreeList = Listed(q, Capacity)
    <3> HIDE DEF q
    <3> QED BY <1>3, <1>4, WalkLemma DEF WalkIsList
  <2>2. ASSUME NEW i \in Slot PROVE i \in Listed(q, Capacity)
    <3>1. i + 1 \in 1..Capacity /\ q[i + 1] = i
      BY <1>1 DEF Slot
    <3> HIDE DEF q
    <3> QED BY <3>1 DEF Listed
  <2>3. Listed(q, Capacity) \subseteq Slot
    BY <1>3 DEF Listed
  <2> QED BY <2>1, <2>2, <2>3
<1>7. \A t \in Thread : ThreadOK(t)
  BY DEF Init, ThreadOK
<1>8. \A i \in Slot : SlotOK(i)
  BY <1>6 DEF Init, SlotOK, InHand
<1>9. CountsSlots
  <2>1. Slot \ FreeList = {} /\ ToCount = {} /\ ToUncount = {}
    BY <1>6 DEF Init, ToCount, ToUncount
  <2>2. Cardinality({}) = 0
    BY FS_EmptySet
  <2> QED BY <2>1, <2>2 DEF Init, CountsSlots, ToCount, ToUncount
<1> QED BY <1>2, <1>5, <1>7, <1>8, <1>9 DEF IInv, PlacesInv

\* Every step of every thread keeps the invariant.
LEMMA NextIInv == OneAllocator /\ IInv /\ [Next]_vars => IInv'
<1> SUFFICES ASSUME OneAllocator, IInv, [Next]_vars PROVE IInv'
  OBVIOUS
<1>1. CASE Next
  <2>1. PICK t \in Thread : Allocate(t) \/ Deallocate(t)
    BY <1>1 DEF Next
  <2>2. PlacesInv'
    BY <2>1, AllocateLooks, AllocateTakes, AllocateEnds, DeallocateBegins, DeallocateLooks,
       DeallocateLinks, DeallocatePuts, DeallocateEnds DEF IInv, Allocate, Deallocate
  <2> QED BY <1>1, <2>2, CountStep DEF IInv
<1>2. CASE UNCHANGED vars
  <2>1. Types' /\ \A i \in Slot : InHand(i)' = InHand(i)
    BY <1>2 DEF vars, IInv, PlacesInv, Types, InHand
  <2>2. Ordered' /\ FreeList' = FreeList
    BY <1>2, ListStays DEF vars, IInv, PlacesInv
  <2>3. \A t \in Thread : ThreadOK(t)'
    BY <1>2, <2>2 DEF vars, IInv, PlacesInv, ThreadOK
  <2>4. \A i \in Slot : SlotOK(i)'
    BY <1>2, <2>1, <2>2 DEF vars, IInv, PlacesInv, SlotOK
  <2>5. CountsSlots'
    BY <1>2, <2>2 DEF vars, IInv, CountsSlots
  <2> QED BY <2>1, <2>2, <2>3, <2>4, <2>5 DEF IInv, PlacesInv
<1> QED BY <1>1, <1>2

\* The invariant holds in every state of a pool with one allocating thread.
THEOREM Invariance == OneAllocator => (Spec => []IInv)
<1> SUFFICES ASSUME OneAllocator PROVE Spec => []IInv
  OBVIOUS
<1>1. IInv /\ [Next]_vars => IInv'
  BY NextIInv
<1> QED BY <1>1, InitIInv, PTL DEF Spec

\* A slot whose allocation is not counted yet is off the list, and nobody
\* else's, so allocated_ does not go below zero.
LEMMA DueAreTaken ==
  ASSUME IInv
  PROVE  Cardinality(ToCount) <= Cardinality(Taken)
<1> DEFINE f == [t \in ToCount |-> idx[t]]
<1>1. ASSUME NEW t \in ToCount
      PROVE  idx[t] \in Taken /\ InHand(idx[t]) = {t}
  <2>1. t \in Thread /\ pc[t] \in InHandAt
    BY DEF ToCount, InHandAt
  <2> QED BY <2>1, InHandAlone DEF IInv, Taken
<1>2. f \in Injection(ToCount, Taken)
  BY <1>1 DEF Injection, IsInjective
<1> HIDE DEF f
<1> QED BY <1>2, CountsAreNumbers, FS_Injection

\* Every variable of the pool has its type; allocated_ in particular never goes
\* below zero, and exceeds the capacity by no more than the calls under way.
THEOREM TypeCorrect == OneAllocator => (Spec => []TypeOK)
<1> SUFFICES ASSUME OneAllocator PROVE Spec => []TypeOK
  OBVIOUS
<1>1. IInv => TypeOK
  <2> SUFFICES ASSUME IInv PROVE TypeOK
    OBVIOUS
  <2> DEFINE a == Cardinality(Taken)
             b == Cardinality(ToCount)
             c == Cardinality(ToUncount)
             d == Cardinality(Thread)
  <2>1. allocated = a - b + c
    BY DEF IInv, CountsSlots, Taken, ToCount, ToUncount
  <2>2. a \in 0..Capacity /\ b \in Nat /\ c \in 0..d /\ b <= a
    BY CountsAreNumbers, DueAreTaken
  <2>3. Capacity \in Nat /\ d \in Nat
    BY CapacityAssumption, ThreadAssumption, FS_CardinalityType
  <2> HIDE DEF a, b, c, d
  <2>4. allocated \in 0..(Capacity + d)
    BY <2>1, <2>2, <2>3
  <2> QED BY <2>4 DEF IInv, PlacesInv, Types, TypeOK, d
<1> QED BY <1>1, Invariance, PTL

\* Whatever calls interleave and whatever exchanges fail, a slot is on the free
\* list, in the hands of one call, or with one client.
THEOREM SlotsHaveOnePlace == OneAllocator => (Spec => []OnePlace)
<1> SUFFICES ASSUME OneAllocator PROVE Spec => []OnePlace
  OBVIOUS
<1>1. IInv => OnePlace
  <2> SUFFICES ASSUME IInv, NEW i \in Slot
               PROVE  Cardinality(InHand(i)) + held[i] + (IF i \in FreeList THEN 1 ELSE 0) = 1
    BY DEF OnePlace
  <2>1. SlotOK(i)
    BY DEF IInv, PlacesInv
  <2>2. CASE InHand(i) = {}
    <3>1. Cardinality(InHand(i)) = 0
      BY <2>2, FS_EmptySet
    <3> QED BY <2>1, <2>2, <3>1 DEF SlotOK
  <2>3. CASE \E t \in Thread : InHand(i) = {t}
    <3>1. Cardinality(InHand(i)) = 1 /\ InHand(i) # {}
      BY <2>3, FS_Singleton
    <3> QED BY <2>1, <3>1 DEF SlotOK
  <2> QED BY <2>1, <2>2, <2>3 DEF SlotOK
<1> QED BY <1>1, Invariance, PTL

\* allocated_ is the number of slots off the list, but for the calls that have
\* moved a slot and not counted it.
THEOREM AllocatedIsExact == OneAllocator => (Spec => []CountsSlots)
<1> SUFFICES ASSUME OneAllocator PROVE Spec => []CountsSlots
  OBVIOUS
<1>1. IInv => CountsSlots
  BY DEF IInv
<1> QED BY <1>1, Invariance, PTL

\* The assertion of deallocate never fails for a client that gives back what it
\* was given, once.
THEOREM AssertionHolds == OneAllocator => (Spec => []NoDoubleFree)
<1> SUFFICES ASSUME OneAllocator PROVE Spec => []NoDoubleFree
  OBVIOUS
<1>1. IInv => NoDoubleFree
  BY DEF IInv, PlacesInv, SlotOK, NoDoubleFree
<1> QED BY <1>1, Invariance, PTL

----------------------------------------------------------------------------
(* The pool implements SlotPool. *)

\* The first state of the pool is one of SlotPool.
LEMMA InitRefines == Init => Pool!Init
<1> SUFFICES ASSUME Init PROVE Pool!Init
  OBVIOUS
<1>1. \A i \in Slot : i \in FreeList
  <2> SUFFICES ASSUME NEW i \in Slot PROVE i \in FreeList
    OBVIOUS
  <2>1. SlotOK(i)
    BY InitIInv DEF IInv, PlacesInv
  <2> QED BY <2>1 DEF SlotOK, Init, InHand
<1>2. FreeList \subseteq Slot
  BY InitIInv, ListInSlots DEF IInv, PlacesInv
<1> QED BY <1>1, <1>2 DEF Init, Pool!Init

\* The exchanges take a slot or give one back; a load that finds the end of the
\* list refuses; nothing else changes the abstract pool.
LEMMA StepRefines == OneAllocator /\ IInv /\ [Next]_vars => [Pool!Next]_(Pool!vars)
<1> SUFFICES ASSUME OneAllocator, IInv, [Next]_vars PROVE [Pool!Next]_(Pool!vars)
  OBVIOUS
<1> USE DEF Pool!vars
<1>1. CASE UNCHANGED vars
  BY <1>1 DEF vars, FreeList, Reached
<1>2. ASSUME NEW t \in Thread, Allocate(t) \/ Deallocate(t)
      PROVE  [Pool!Next]_(Pool!vars)
  <2>1. PlacesInv
    BY DEF IInv
  <2>2. CASE AllocateLoad(t) \/ AllocateRetry(t)
    <3>1. FreeList' = FreeList /\ refused' = (refused \/ free_head >= Capacity)
      BY <2>1, <2>2, AllocateLooks DEF AllocateLoad, AllocateRetry, AllocateSees
    <3>2. CASE free_head >= Capacity
      <4>1. FreeList = {}
        BY <2>1, <3>2, EndIsEmpty, CapacityAssumption DEF PlacesInv, Types
      <4> QED BY <3>1, <3>2, <4>1 DEF Pool!Next, Pool!Refuse
    <3>3. CASE ~(free_head >= Capacity)
      BY <2>1, <3>1, <3>3 DEF PlacesInv, Types
    <3> QED BY <3>2, <3>3
  <2>3. CASE AllocateRead(t) \/ AllocateMark(t) \/ AllocateCount(t)
             \/ (\E i \in Slot : DeallocateUnmark(t, i)) \/ DeallocateLoad(t)
             \/ DeallocateRetry(t) \/ DeallocateLink(t) \/ DeallocateUncount(t)
    <3>1. FreeList' = FreeList
      BY <2>1, <2>3, AllocateLooks, AllocateEnds, DeallocateBegins, DeallocateLooks,
         DeallocateLinks, DeallocateEnds
    <3>2. refused' = refused
      BY <2>3 DEF AllocateRead, AllocateMark, AllocateCount, DeallocateUnmark, DeallocateLoad,
         DeallocateRetry, DeallocateSees, DeallocateLink, DeallocateUncount
    <3> QED BY <3>1, <3>2
  <2>4. CASE AllocateExchange(t)
    <3>1. idx[t] \in FreeList /\ FreeList' = FreeList \ {idx[t]} /\ refused' = FALSE
      BY <2>1, <2>4, AllocateTakes
    <3> QED BY <3>1 DEF Pool!Next, Pool!Take
  <2>5. CASE DeallocateExchange(t)
    <3>1. idx[t] \in Slot \ FreeList /\ FreeList' = FreeList \cup {idx[t]} /\ refused' = FALSE
      BY <2>1, <2>5, DeallocatePuts
    <3> QED BY <3>1 DEF Pool!Next, Pool!GiveBack
  <2> QED BY <1>2, <2>2, <2>3, <2>4, <2>5 DEF Allocate, Deallocate
<1> QED BY <1>1, <1>2 DEF Next

\* The lock-free list implements a set of slots: allocations and deallocations
\* take effect one at a time, at their exchange, and an allocation is refused
\* only while every slot is taken.
THEOREM PoolIsSlotPool == OneAllocator => (Spec => ImplementsSlotPool)
<1> SUFFICES ASSUME OneAllocator PROVE Spec => ImplementsSlotPool
  OBVIOUS
<1>1. IInv /\ [Next]_vars => [Pool!Next]_(Pool!vars)
  BY StepRefines
<1> QED BY <1>1, InitRefines, Invariance, PTL DEF Spec, ImplementsSlotPool, Pool!Spec
=============================================================================
