----------------------------- MODULE SumProofs -----------------------------
(***************************************************************************)
(* What the proofs about totals need of MapThenSumSet: the sum over a set  *)
(* with one element more, or with one value changed.  MapThenSumSet is a   *)
(* recursive function, so the facts are by induction on the size of the    *)
(* set; the set that an induction is about is the parameter of the lemmas  *)
(* NatLemma and SubsetLemma.                                               *)
(***************************************************************************)
EXTENDS Integers, FiniteSetsExt, FiniteSetTheorems, WellFoundedInduction, TLAPS

\* The sum of the values of f over S.
SumOver(f, S) == MapThenSumSet(LAMBDA x : f[x], S)

----------------------------------------------------------------------------
(* Induction. *)

\* A set of natural numbers has a least element.
LEMMA LeastLemma ==
  ASSUME NEW S \in SUBSET Nat, S # {}
  PROVE  \E n \in S : \A m \in S : n <= m
<1> DEFINE R == OpToRel(<, Nat)
<1>1. IsWellFoundedOn(R, Nat)
  BY NatLessThanWellFounded
<1>2. \A i, j \in Nat : i < j => <<i, j>> \in R
  BY DEF OpToRel
<1> HIDE DEF R
<1>3. PICK n \in S : \A m \in S : ~(<<m, n>> \in R)
  BY <1>1, WFMin
<1>4. \A m \in S : n <= m
  <2> TAKE m \in S
  <2>1. n \in Nat /\ m \in Nat
    OBVIOUS
  <2>2. ~(m < n)
    BY <1>2, <1>3, <2>1
  <2> QED BY <2>1, <2>2
<1> QED BY <1>4

\* A set with 0, and with the successor of each of its numbers, has them all.
LEMMA NatLemma ==
  ASSUME NEW T, 0 \in T, \A n \in Nat : n \in T => n + 1 \in T
  PROVE  Nat \subseteq T
<1> SUFFICES ASSUME Nat \ T # {} PROVE FALSE
  OBVIOUS
<1>1. Nat \ T \in SUBSET Nat
  OBVIOUS
<1>2. PICK n \in Nat \ T : \A m \in Nat \ T : n <= m
  BY <1>1, LeastLemma
<1>3. n # 0 /\ n \in Nat /\ n \notin T
  OBVIOUS
<1>4. n - 1 \in Nat
  BY <1>3
<1>5. n - 1 \in T
  BY <1>2, <1>3, <1>4
<1>6. n \in T
  <2>1. (n - 1) + 1 = n
    BY <1>3
  <2> QED BY <1>4, <1>5, <2>1
<1> QED BY <1>3, <1>6

\* A set T of subsets of the finite set S, with every subset whose subsets of
\* one element less it has, has them all.
LEMMA SubsetLemma ==
  ASSUME NEW S, IsFiniteSet(S), NEW T,
         \A s \in SUBSET S : (\A x \in s : s \ {x} \in T) => s \in T
  PROVE  SUBSET S \subseteq T
<1> SUFFICES ASSUME NEW u \in SUBSET S, u \notin T PROVE FALSE
  OBVIOUS
<1> DEFINE Sizes == {Cardinality(s) : s \in (SUBSET S) \ T}
<1>1. \A s \in SUBSET S : IsFiniteSet(s) /\ Cardinality(s) \in Nat
  BY FS_Subset, FS_CardinalityType
<1>2. Sizes \in SUBSET Nat /\ Sizes # {}
  BY <1>1
<1>3. PICK n \in Sizes : \A m \in Sizes : n <= m
  BY <1>2, LeastLemma
<1>4. PICK s \in (SUBSET S) \ T : n = Cardinality(s)
  OBVIOUS
<1>5. ASSUME NEW x \in s PROVE s \ {x} \in T
  <2>1. Cardinality(s \ {x}) = Cardinality(s) - 1
    BY <1>1, FS_RemoveElement
  <2>2. s \ {x} \in SUBSET S
    OBVIOUS
  <2>3. Cardinality(s \ {x}) \notin Sizes
    BY <1>1, <1>3, <1>4, <2>1
  <2> QED BY <2>2, <2>3
<1> QED BY <1>4, <1>5

----------------------------------------------------------------------------
(* The recursion of MapThenSumSet is well defined. *)

Chosen(s) == CHOOSE x \in s : TRUE

\* ch takes an element from every subset of S that has one.
Choice(ch, S) == \A s \in SUBSET S : s # {} => ch[s] \in s

\* dh and ch take the same from every subset of S.
SameChoice(dh, ch, S) == \A s \in SUBSET S : dh[s] = ch[s]

\* MapThenSumSet takes whatever CHOOSE does.
AnyChoice(S) == [s \in SUBSET S |-> Chosen(s)]

\* it is a recursive function that sums what ch takes, on the subsets in D.
SumsOn(it, f, ch, D) ==
  it = [s \in D |-> IF s = {} THEN 0 ELSE f[ch[s]] + it[s \ {ch[s]}]]

\* There is such a function on the subsets of any size.
LEMMA SumsExist ==
  ASSUME NEW f, NEW S, IsFiniteSet(S), NEW ch, Choice(ch, S)
  PROVE  \E it : SumsOn(it, f, ch, SUBSET S)
<1> DEFINE UpTo(n) == {s \in SUBSET S : Cardinality(s) <= n}
           T == {n \in Nat : \E it : SumsOn(it, f, ch, UpTo(n))}
<1>1. \A s \in SUBSET S : IsFiniteSet(s) /\ Cardinality(s) \in Nat
                          /\ Cardinality(s) <= Cardinality(S)
  BY FS_Subset, FS_CardinalityType
<1>2. \A s \in SUBSET S : Cardinality(s) <= 0 => s = {}
  BY <1>1, FS_EmptySet
<1>3. 0 \in T
  <2> DEFINE it == [s \in UpTo(0) |-> 0]
  <2>1. \A s \in UpTo(0) : s = {}
    BY <1>2
  <2>2. it = [s \in UpTo(0) |-> IF s = {} THEN 0 ELSE f[ch[s]] + it[s \ {ch[s]}]]
    BY <2>1
  <2> HIDE DEF it
  <2>3. SumsOn(it, f, ch, UpTo(0))
    BY <2>2 DEF SumsOn
  <2> QED BY <2>3
<1>4. ASSUME NEW n \in Nat, n \in T PROVE n + 1 \in T
  <2>1. PICK g : SumsOn(g, f, ch, UpTo(n))
    BY <1>4
  <2> DEFINE h == [s \in UpTo(n + 1) |->
                     IF s = {} THEN 0 ELSE f[ch[s]] + g[s \ {ch[s]}]]
  <2>2. \A s \in UpTo(n) : s \in UpTo(n + 1) /\ h[s] = g[s]
    <3> TAKE s \in UpTo(n)
    <3>1. s \in UpTo(n + 1)
      BY <1>1
    <3>2. g[s] = IF s = {} THEN 0 ELSE f[ch[s]] + g[s \ {ch[s]}]
      BY <2>1 DEF SumsOn
    <3> QED BY <3>1, <3>2
  <2>3. \A s \in UpTo(n + 1) : s # {} => s \ {ch[s]} \in UpTo(n)
    <3> SUFFICES ASSUME NEW s \in UpTo(n + 1), s # {} PROVE s \ {ch[s]} \in UpTo(n)
      OBVIOUS
    <3>1. ch[s] \in s
      BY DEF Choice
    <3>2. Cardinality(s \ {ch[s]}) = Cardinality(s) - 1
      BY <1>1, <3>1, FS_RemoveElement
    <3> QED BY <1>1, <3>2
  <2>4. \A s \in UpTo(n + 1) :
          h[s] = IF s = {} THEN 0 ELSE f[ch[s]] + h[s \ {ch[s]}]
    BY <2>2, <2>3
  <2>5. h = [s \in UpTo(n + 1) |-> h[s]]
    OBVIOUS
  <2> HIDE DEF h
  <2>6. SumsOn(h, f, ch, UpTo(n + 1))
    BY <2>4, <2>5 DEF SumsOn
  <2> HIDE DEF UpTo
  <2>7. n + 1 \in Nat /\ \E it : SumsOn(it, f, ch, UpTo(n + 1))
    BY <2>6
  <2> QED BY <2>7
<1> HIDE DEF T
<1>5. Nat \subseteq T
  BY <1>3, <1>4, NatLemma
<1>6. Cardinality(S) \in T
  BY <1>5, FS_CardinalityType
<1>7. UpTo(Cardinality(S)) = SUBSET S
  BY <1>1
<1> QED BY <1>6, <1>7 DEF T

\* Two such functions agree where both are defined.
LEMMA SumsUnique ==
  ASSUME NEW f, NEW S, IsFiniteSet(S), NEW C, S \subseteq C, NEW it, NEW jt,
         NEW ch, Choice(ch, S), NEW dh, SameChoice(dh, ch, S),
         SumsOn(it, f, ch, SUBSET S), SumsOn(jt, f, dh, SUBSET C)
  PROVE  \A s \in SUBSET S : it[s] = jt[s]
<1> DEFINE T == {s \in SUBSET S : it[s] = jt[s]}
<1>1. ASSUME NEW s \in SUBSET S, \A x \in s : s \ {x} \in T
      PROVE  s \in T
  <2>1. (s # {} => ch[s] \in s) /\ dh[s] = ch[s]
    BY DEF Choice, SameChoice
  <2>2. /\ it[s] = IF s = {} THEN 0 ELSE f[ch[s]] + it[s \ {ch[s]}]
        /\ jt[s] = IF s = {} THEN 0 ELSE f[dh[s]] + jt[s \ {dh[s]}]
    BY DEF SumsOn
  <2> QED BY <1>1, <2>1, <2>2
<1> HIDE DEF T
<1>2. SUBSET S \subseteq T
  BY <1>1, SubsetLemma
<1> QED BY <1>2 DEF T

\* The sum is the value of such a function.
LEMMA SumIsFold ==
  ASSUME NEW f, NEW S, IsFiniteSet(S)
  PROVE  \E it : SumsOn(it, f, AnyChoice(S), SUBSET S) /\ SumOver(f, S) = it[S]
<1> DEFINE ch == AnyChoice(S)
           OfTheSum(it) ==
             it = [s \in SUBSET S |->
                     IF s = {} THEN 0 ELSE f[Chosen(s)] + it[s \ {Chosen(s)}]]
<1>1. SumOver(f, S) = (CHOOSE it : OfTheSum(it))[S]
  BY DEF SumOver, MapThenSumSet, MapThenFoldSet, Chosen
<1>2. \A s \in SUBSET S : ch[s] = Chosen(s)
  BY DEF AnyChoice
<1>3. Choice(ch, S)
  BY <1>2 DEF Choice, Chosen
<1> HIDE DEF ch
<1>4. ASSUME NEW it PROVE OfTheSum(it) <=> SumsOn(it, f, ch, SUBSET S)
  <2>1. [s \in SUBSET S |-> IF s = {} THEN 0 ELSE f[Chosen(s)] + it[s \ {Chosen(s)}]] =
        [s \in SUBSET S |-> IF s = {} THEN 0 ELSE f[ch[s]] + it[s \ {ch[s]}]]
    BY <1>2
  <2> QED BY <2>1 DEF SumsOn
<1>5. \E it : SumsOn(it, f, ch, SUBSET S)
  BY <1>3, SumsExist
<1>6. \E it : OfTheSum(it)
  BY <1>4, <1>5
<1> HIDE DEF OfTheSum
<1>7. OfTheSum(CHOOSE it : OfTheSum(it))
  BY <1>6
<1> QED BY <1>1, <1>4, <1>7 DEF ch

\* The recursion of MapThenSumSet, for the sum itself.
LEMMA SumUnfold ==
  ASSUME NEW f, NEW S, IsFiniteSet(S)
  PROVE  SumOver(f, S) = IF S = {} THEN 0 ELSE f[Chosen(S)] + SumOver(f, S \ {Chosen(S)})
<1> DEFINE rest == S \ {Chosen(S)}
<1>1. PICK it : SumsOn(it, f, AnyChoice(S), SUBSET S) /\ SumOver(f, S) = it[S]
  BY SumIsFold
<1>2. rest \subseteq S /\ IsFiniteSet(rest)
  BY FS_Subset
<1>3. PICK jt : SumsOn(jt, f, AnyChoice(rest), SUBSET rest) /\ SumOver(f, rest) = jt[rest]
  BY <1>2, SumIsFold
<1>4. jt[rest] = it[rest]
  <2> DEFINE ch == AnyChoice(rest)
             dh == AnyChoice(S)
  <2> HIDE DEF rest
  <2>1. Choice(ch, rest)
    BY DEF Choice, AnyChoice, Chosen
  <2>2. SameChoice(dh, ch, rest)
    BY <1>2 DEF AnyChoice, SameChoice
  <2>3. SumsOn(jt, f, ch, SUBSET rest) /\ SumsOn(it, f, dh, SUBSET S)
    BY <1>1, <1>3
  <2> HIDE DEF ch, dh
  <2>4. \A s \in SUBSET rest : jt[s] = it[s]
    BY <1>2, <2>1, <2>2, <2>3, SumsUnique
  <2> QED BY <2>4
<1>5. it[S] = IF S = {} THEN 0 ELSE f[Chosen(S)] + it[rest]
  BY <1>1 DEF SumsOn, AnyChoice
<1> QED BY <1>1, <1>3, <1>4, <1>5

----------------------------------------------------------------------------
(* Sums of integers. *)

\* A sum of integers is an integer.
LEMMA SumType ==
  ASSUME NEW S, IsFiniteSet(S), NEW f, \A x \in S : f[x] \in Int
  PROVE  SumOver(f, S) \in Int
<1> DEFINE T == {s \in SUBSET S : SumOver(f, s) \in Int}
<1>1. ASSUME NEW s \in SUBSET S, \A x \in s : s \ {x} \in T
      PROVE  s \in T
  <2>1. s # {} => Chosen(s) \in s
    BY DEF Chosen
  <2>2. SumOver(f, s) = IF s = {} THEN 0 ELSE f[Chosen(s)] + SumOver(f, s \ {Chosen(s)})
    BY FS_Subset, SumUnfold
  <2>3. SumOver(f, s) \in Int
    BY <1>1, <2>1, <2>2
  <2> QED BY <2>3
<1> HIDE DEF T
<1>2. SUBSET S \subseteq T
  BY <1>1, SubsetLemma
<1> QED BY <1>2 DEF T

\* Functions that agree on a set have the same sum over it.
LEMMA SumSame ==
  ASSUME NEW S, IsFiniteSet(S), NEW f, NEW g, \A x \in S : f[x] = g[x]
  PROVE  SumOver(f, S) = SumOver(g, S)
<1> DEFINE T == {s \in SUBSET S : SumOver(f, s) = SumOver(g, s)}
<1>1. ASSUME NEW s \in SUBSET S, \A x \in s : s \ {x} \in T
      PROVE  s \in T
  <2>1. s # {} => Chosen(s) \in s
    BY DEF Chosen
  <2>2. /\ SumOver(f, s) = IF s = {} THEN 0 ELSE f[Chosen(s)] + SumOver(f, s \ {Chosen(s)})
        /\ SumOver(g, s) = IF s = {} THEN 0 ELSE g[Chosen(s)] + SumOver(g, s \ {Chosen(s)})
    BY FS_Subset, SumUnfold
  <2>3. SumOver(f, s) = SumOver(g, s)
    BY <1>1, <2>1, <2>2
  <2> QED BY <2>3
<1> HIDE DEF T
<1>2. SUBSET S \subseteq T
  BY <1>1, SubsetLemma
<1> QED BY <1>2 DEF T

\* Any element can be taken out of the sum, not only the chosen one.
LEMMA SumRemove ==
  ASSUME NEW S, IsFiniteSet(S), NEW f, \A x \in S : f[x] \in Int, NEW a \in S
  PROVE  SumOver(f, S) = f[a] + SumOver(f, S \ {a})
<1> DEFINE T == {s \in SUBSET S : \A x \in s : SumOver(f, s) = f[x] + SumOver(f, s \ {x})}
<1>1. ASSUME NEW s \in SUBSET S, \A x \in s : s \ {x} \in T
      PROVE  s \in T
  <2> SUFFICES ASSUME NEW x \in s PROVE SumOver(f, s) = f[x] + SumOver(f, s \ {x})
    OBVIOUS
  <2> DEFINE y == Chosen(s)
  <2>1. y \in s
    BY DEF Chosen
  <2>2. SumOver(f, s) = f[y] + SumOver(f, s \ {y})
    BY FS_Subset, SumUnfold
  <2> HIDE DEF y
  <2>3. CASE x = y
    BY <2>2, <2>3
  <2>4. CASE x # y
    <3> DEFINE u == (s \ {x}) \ {y}
    <3>1. u = (s \ {y}) \ {x}
      OBVIOUS
    <3>2. SumOver(f, s \ {y}) = f[x] + SumOver(f, (s \ {y}) \ {x})
      BY <1>1, <2>1, <2>4
    <3>3. SumOver(f, s \ {x}) = f[y] + SumOver(f, u)
      BY <1>1, <2>1, <2>4
    <3>4. SumOver(f, u) \in Int /\ f[x] \in Int /\ f[y] \in Int
      BY <2>1, FS_Subset, SumType
    <3> HIDE DEF u
    <3> QED BY <2>2, <3>1, <3>2, <3>3, <3>4
  <2> QED BY <2>3, <2>4
<1> HIDE DEF T
<1>2. SUBSET S \subseteq T
  BY <1>1, SubsetLemma
<1> QED BY <1>2 DEF T

\* The sum over a set with one element more.
LEMMA SumAdd ==
  ASSUME NEW S, IsFiniteSet(S), NEW a, a \notin S, NEW f, \A x \in S \cup {a} : f[x] \in Int
  PROVE  SumOver(f, S \cup {a}) = f[a] + SumOver(f, S)
<1>1. IsFiniteSet(S \cup {a}) /\ (S \cup {a}) \ {a} = S
  BY FS_AddElement
<1> QED BY <1>1, SumRemove

\* The sum of functions that differ in one value.
LEMMA SumUpdate ==
  ASSUME NEW S, IsFiniteSet(S), NEW f, NEW g, \A x \in S : f[x] \in Int /\ g[x] \in Int,
         NEW a \in S, \A x \in S : x # a => f[x] = g[x]
  PROVE  SumOver(g, S) = SumOver(f, S) + (g[a] - f[a])
<1>1. IsFiniteSet(S \ {a})
  BY FS_Subset
<1>2. SumOver(f, S \ {a}) = SumOver(g, S \ {a})
  BY <1>1, SumSame
<1>3. SumOver(f, S \ {a}) \in Int
  BY <1>1, SumType
<1>4. SumOver(f, S) = f[a] + SumOver(f, S \ {a}) /\ SumOver(g, S) = g[a] + SumOver(g, S \ {a})
  BY SumRemove
<1> QED BY <1>2, <1>3, <1>4

\* A sum of zeros is zero.
LEMMA SumZero ==
  ASSUME NEW S, IsFiniteSet(S), NEW f, \A x \in S : f[x] = 0
  PROVE  SumOver(f, S) = 0
<1> DEFINE T == {s \in SUBSET S : SumOver(f, s) = 0}
<1>1. ASSUME NEW s \in SUBSET S, \A x \in s : s \ {x} \in T
      PROVE  s \in T
  <2>1. s # {} => Chosen(s) \in s
    BY DEF Chosen
  <2>2. SumOver(f, s) = IF s = {} THEN 0 ELSE f[Chosen(s)] + SumOver(f, s \ {Chosen(s)})
    BY FS_Subset, SumUnfold
  <2>3. SumOver(f, s) = 0
    BY <1>1, <2>1, <2>2
  <2> QED BY <2>3
<1> HIDE DEF T
<1>2. SUBSET S \subseteq T
  BY <1>1, SubsetLemma
<1> QED BY <1>2 DEF T

\* A sum of smaller values is no larger.
LEMMA SumMonotone ==
  ASSUME NEW S, IsFiniteSet(S), NEW f, NEW g,
         \A x \in S : f[x] \in Int /\ g[x] \in Int /\ f[x] <= g[x]
  PROVE  SumOver(f, S) <= SumOver(g, S)
<1> DEFINE T == {s \in SUBSET S : SumOver(f, s) <= SumOver(g, s)}
<1>1. ASSUME NEW s \in SUBSET S, \A x \in s : s \ {x} \in T
      PROVE  s \in T
  <2>1. s # {} => Chosen(s) \in s
    BY DEF Chosen
  <2>2. IsFiniteSet(s) /\ IsFiniteSet(s \ {Chosen(s)})
    BY FS_Subset
  <2>3. /\ SumOver(f, s) = IF s = {} THEN 0 ELSE f[Chosen(s)] + SumOver(f, s \ {Chosen(s)})
        /\ SumOver(g, s) = IF s = {} THEN 0 ELSE g[Chosen(s)] + SumOver(g, s \ {Chosen(s)})
    BY <2>2, SumUnfold
  <2>4. SumOver(f, s \ {Chosen(s)}) \in Int /\ SumOver(g, s \ {Chosen(s)}) \in Int
    <3> DEFINE r == s \ {Chosen(s)}
    <3>1. IsFiniteSet(r) /\ (\A x \in r : f[x] \in Int) /\ (\A x \in r : g[x] \in Int)
      BY <2>2
    <3> HIDE DEF r
    <3>2. SumOver(f, r) \in Int /\ SumOver(g, r) \in Int
      BY <3>1, SumType
    <3> QED BY <3>2 DEF r
  <2>5. SumOver(f, s) <= SumOver(g, s)
    BY <1>1, <2>1, <2>3, <2>4
  <2> QED BY <2>5
<1> HIDE DEF T
<1>2. SUBSET S \subseteq T
  BY <1>1, SubsetLemma
<1> QED BY <1>2 DEF T

\* The sum over two sets without a common element.
LEMMA SumUnion ==
  ASSUME NEW S, IsFiniteSet(S), NEW R, IsFiniteSet(R), S \cap R = {},
         NEW f, \A x \in S \cup R : f[x] \in Int
  PROVE  SumOver(f, S \cup R) = SumOver(f, S) + SumOver(f, R)
<1> DEFINE T == {s \in SUBSET S : SumOver(f, s \cup R) = SumOver(f, s) + SumOver(f, R)}
<1>1. ASSUME NEW s \in SUBSET S, \A x \in s : s \ {x} \in T
      PROVE  s \in T
  <2> SUFFICES SumOver(f, s \cup R) = SumOver(f, s) + SumOver(f, R)
    OBVIOUS
  <2>1. IsFiniteSet(s) /\ IsFiniteSet(s \cup R) /\ \A x \in s \cup R : f[x] \in Int
    BY FS_Subset, FS_Union
  <2>2. CASE s = {}
    <3> DEFINE u == s \cup R
    <3>1. u = R
      BY <2>2
    <3>2. SumOver(f, s) = 0
      BY <2>1, <2>2, SumUnfold
    <3>3. SumOver(f, R) \in Int
      BY SumType
    <3> HIDE DEF T, u
    <3>4. SumOver(f, u) = SumOver(f, s) + SumOver(f, R)
      BY <3>1, <3>2, <3>3
    <3> QED BY <3>4 DEF u
  <2>3. CASE s # {}
    <3>1. PICK x \in s : TRUE
      BY <2>3
    <3>2. SumOver(f, s) = f[x] + SumOver(f, s \ {x})
      BY <2>1, SumRemove
    <3>3. SumOver(f, s \cup R) = f[x] + SumOver(f, (s \cup R) \ {x})
      BY <2>1, SumRemove
    <3>4. (s \cup R) \ {x} = (s \ {x}) \cup R
      OBVIOUS
    <3>5. SumOver(f, (s \ {x}) \cup R) = SumOver(f, s \ {x}) + SumOver(f, R)
      BY <1>1
    <3>6. SumOver(f, s \ {x}) \in Int /\ SumOver(f, R) \in Int /\ f[x] \in Int
      BY <2>1, FS_Subset, SumType
    <3> DEFINE a == SumOver(f, s)
               b == SumOver(f, s \cup R)
               c == SumOver(f, s \ {x})
               d == SumOver(f, R)
    <3>7. a = f[x] + c /\ b = f[x] + (c + d)
      BY <3>2, <3>3, <3>4, <3>5
    <3>8. c \in Int /\ d \in Int /\ f[x] \in Int
      BY <3>6
    <3> HIDE DEF a, b, c, d, T
    <3>9. b = a + d
      BY <3>7, <3>8
    <3> QED BY <3>9 DEF a, b, d
  <2> QED BY <2>2, <2>3
<1> HIDE DEF T
<1>2. SUBSET S \subseteq T
  BY <1>1, SubsetLemma
<1> QED BY <1>2 DEF T

\* h renames the elements of S, no two to the same.
Renames(h, S) == \A x, y \in S : h[x] = h[y] => x = y

Image(h, S) == {h[x] : x \in S}

\* The sum does not depend on what the elements are called.
LEMMA SumImage ==
  ASSUME NEW S, IsFiniteSet(S), NEW f, \A x \in S : f[x] \in Int,
         NEW h, Renames(h, S), NEW g, \A x \in S : g[h[x]] = f[x]
  PROVE  IsFiniteSet(Image(h, S)) /\ SumOver(g, Image(h, S)) = SumOver(f, S)
<1> DEFINE T == {s \in SUBSET S : /\ IsFiniteSet(Image(h, s))
                                  /\ SumOver(g, Image(h, s)) = SumOver(f, s)}
<1>1. ASSUME NEW s \in SUBSET S, \A x \in s : s \ {x} \in T
      PROVE  s \in T
  <2>1. IsFiniteSet(s) /\ \A x \in s : f[x] \in Int
    BY FS_Subset
  <2>2. CASE s = {}
    <3>1. Image(h, s) = {} /\ IsFiniteSet({})
      BY <2>2, FS_EmptySet DEF Image
    <3> QED BY <2>1, <2>2, <3>1, SumUnfold
  <2>3. CASE s # {}
    <3>1. PICK x \in s : TRUE
      BY <2>3
    <3> DEFINE R == Image(h, s \ {x})
    <3>2. IsFiniteSet(R) /\ SumOver(g, R) = SumOver(f, s \ {x})
      BY <1>1
    <3>3. Image(h, s) = R \cup {h[x]} /\ h[x] \notin R
      BY DEF Image, Renames
    <3>4. \A y \in R \cup {h[x]} : g[y] \in Int
      BY DEF Image
    <3> HIDE DEF R
    <3>5. SumOver(g, R \cup {h[x]}) = g[h[x]] + SumOver(g, R)
      BY <3>2, <3>3, <3>4, SumAdd
    <3>6. SumOver(f, s) = f[x] + SumOver(f, s \ {x})
      BY <2>1, SumRemove
    <3>7. IsFiniteSet(R \cup {h[x]})
      BY <3>2, FS_AddElement
    <3> QED BY <3>2, <3>3, <3>5, <3>6, <3>7
  <2> QED BY <2>2, <2>3
<1> HIDE DEF T
<1>2. SUBSET S \subseteq T
  BY <1>1, SubsetLemma
<1> QED BY <1>2 DEF T

----------------------------------------------------------------------------
(* Sums that are written otherwise. *)

\* it sums what ch takes, as a fold from the left does.
LeftSumsOn(it, f, ch, D) ==
  it = [s \in D |-> IF s = {} THEN 0 ELSE it[s \ {ch[s]}] + f[ch[s]]]

\* A fold from the left that adds values up yields their sum.
LEMMA LeftSumsLemma ==
  ASSUME NEW S, IsFiniteSet(S), NEW f, \A x \in S : f[x] \in Int, NEW ch, Choice(ch, S)
  PROVE  /\ \E it : LeftSumsOn(it, f, ch, SUBSET S)
         /\ \A it : LeftSumsOn(it, f, ch, SUBSET S) => it[S] = SumOver(f, S)
<1>1. \A s \in SUBSET S : s # {} => ch[s] \in s /\ f[ch[s]] \in Int
  BY DEF Choice
<1>2. \A s \in SUBSET S : SumOver(f, s) \in Int
  <2> TAKE s \in SUBSET S
  <2>1. IsFiniteSet(s) /\ \A x \in s : f[x] \in Int
    BY FS_Subset
  <2> QED BY <2>1, SumType
<1>3. \E it : LeftSumsOn(it, f, ch, SUBSET S)
  <2>1. PICK it : SumsOn(it, f, ch, SUBSET S)
    BY SumsExist
  <2>2. \A s \in SUBSET S : it[s] = SumOver(f, s)
    <3> DEFINE T == {s \in SUBSET S : it[s] = SumOver(f, s)}
    <3>1. ASSUME NEW s \in SUBSET S, \A x \in s : s \ {x} \in T
          PROVE  s \in T
      <4>1. it[s] = IF s = {} THEN 0 ELSE f[ch[s]] + it[s \ {ch[s]}]
        BY <2>1 DEF SumsOn
      <4>2. IsFiniteSet(s) /\ \A x \in s : f[x] \in Int
        BY FS_Subset
      <4>3. CASE s = {}
        BY <4>1, <4>2, <4>3, SumUnfold
      <4>4. CASE s # {}
        <5>1. SumOver(f, s) = f[ch[s]] + SumOver(f, s \ {ch[s]})
          BY <1>1, <4>2, <4>4, SumRemove
        <5> QED BY <1>1, <3>1, <4>1, <4>4, <5>1
      <4> QED BY <4>3, <4>4
    <3> HIDE DEF T
    <3>2. SUBSET S \subseteq T
      BY <3>1, SubsetLemma
    <3> QED BY <3>2 DEF T
  <2>3. \A s \in SUBSET S : s # {} =>
          f[ch[s]] + it[s \ {ch[s]}] = it[s \ {ch[s]}] + f[ch[s]]
    <3> SUFFICES ASSUME NEW s \in SUBSET S, s # {}
                 PROVE  f[ch[s]] + it[s \ {ch[s]}] = it[s \ {ch[s]}] + f[ch[s]]
      OBVIOUS
    <3>1. it[s \ {ch[s]}] \in Int
      BY <1>2, <2>2
    <3> QED BY <1>1, <3>1
  <2>4. LeftSumsOn(it, f, ch, SUBSET S)
    BY <2>1, <2>3 DEF SumsOn, LeftSumsOn
  <2> QED BY <2>4
<1>4. ASSUME NEW it, LeftSumsOn(it, f, ch, SUBSET S)
      PROVE  it[S] = SumOver(f, S)
  <2> DEFINE T == {s \in SUBSET S : it[s] = SumOver(f, s)}
  <2>1. ASSUME NEW s \in SUBSET S, \A x \in s : s \ {x} \in T
        PROVE  s \in T
    <3>1. IsFiniteSet(s) /\ \A x \in s : f[x] \in Int
      BY FS_Subset
    <3>2. it[s] = IF s = {} THEN 0 ELSE it[s \ {ch[s]}] + f[ch[s]]
      BY <1>4 DEF LeftSumsOn
    <3>3. CASE s = {}
      BY <3>1, <3>2, <3>3, SumUnfold
    <3>4. CASE s # {}
      <4>1. ch[s] \in s /\ f[ch[s]] \in Int
        BY <1>1, <3>4
      <4>2. SumOver(f, s) = f[ch[s]] + SumOver(f, s \ {ch[s]})
        BY <3>1, <4>1, SumRemove
      <4>3. it[s \ {ch[s]}] = SumOver(f, s \ {ch[s]}) /\ SumOver(f, s \ {ch[s]}) \in Int
        BY <1>2, <2>1, <4>1
      <4> QED BY <3>2, <3>4, <4>1, <4>2, <4>3
    <3> QED BY <3>3, <3>4
  <2> HIDE DEF T
  <2>2. SUBSET S \subseteq T
    BY <2>1, SubsetLemma
  <2> QED BY <2>2 DEF T
<1> QED BY <1>3, <1>4
=============================================================================
