----------------------------- MODULE SumLemmas ------------------------------
(***************************************************************************)
(* How a sum changes when one value does, or when one is added, for any    *)
(* function with a finite domain.                                          *)
(*                                                                         *)
(* SumOf adds the values in an order that CHOOSE makes.  The lemmas first  *)
(* show that the recursive function behind it exists, then that the order  *)
(* does not matter, both by induction on finite sets, which is stated here *)
(* for a set of sets in place of a predicate.                              *)
(***************************************************************************)
EXTENDS Sums, FiniteSets, FiniteSetTheorems, TLAPS

Pick(s) == CHOOSE x \in s : TRUE

\* The equation of a running sum g of f at the set s.
SumsAt(g, f, s) == g[s] = IF s = {} THEN 0 ELSE f[Pick(s)] + g[s \ {Pick(s)}]

\* g has the running sums of f over every subset of D.
SumsOver(g, f, D) == g \in [SUBSET D -> Int] /\ \A s \in SUBSET D : SumsAt(g, f, s)

\* A running sum of f over the subsets of D, and the one that SumOf picks.
RunningSum(g, f, D) ==
    g = [s \in SUBSET D |-> IF s = {} THEN 0 ELSE f[Pick(s)] + g[s \ {Pick(s)}]]

TheSum(f) == CHOOSE g : RunningSum(g, f, DOMAIN f)

LEMMA SumUnfolds == ASSUME NEW f PROVE SumOf(f) = TheSum(f)[DOMAIN f]
  BY DEF SumOf, FoldFunction, FoldFunctionOnSet, MapThenFoldSet, TheSum, RunningSum, Pick, Plus

LEMMA PickIn == ASSUME NEW s, s # {} PROVE Pick(s) \in s
  BY DEF Pick

\* Induction over the natural numbers and over finite sets: the set of those
\* that have the property in place of the property.
LEMMA LeastNatural ==
    ASSUME NEW T, T \subseteq Nat, T # {} PROVE \E n \in T : \A m \in T : ~(m < n)
<1>1. PICK n \in T : \A m \in T : ~(<<m, n>> \in OpToRel(<, Nat))
  BY NatLessThanWellFounded, WFMin
<1>2. \A m \in T : m < n => <<m, n>> \in OpToRel(<, Nat)
  BY DEF OpToRel
<1> QED
  BY <1>1, <1>2

LEMMA NaturalsInSet ==
    ASSUME NEW P, 0 \in P, \A n \in Nat : n \in P => n + 1 \in P PROVE Nat \subseteq P
<1> SUFFICES ASSUME Nat \ P # {} PROVE FALSE
  OBVIOUS
<1>1. PICK n \in Nat \ P : \A m \in Nat \ P : ~(m < n)
  BY LeastNatural
<1>2. n # 0 /\ n - 1 \in Nat /\ n - 1 < n
  OBVIOUS
<1>3. n - 1 \in P
  BY <1>1, <1>2
<1>4. (n - 1) + 1 \in P
  BY <1>2, <1>3
<1> QED
  BY <1>1, <1>4

LEMMA LeastSubset ==
    ASSUME NEW D, IsFiniteSet(D), NEW T, T \subseteq SUBSET D, T # {}
    PROVE  \E s \in T : \A t \in T : t \subseteq s => t = s
<1>1. FiniteSubsetsOf(D) = SUBSET D
  BY FS_FiniteSubsetsOfFinite
<1>2. IsWellFoundedOn(StrictSubsetOrdering(D), SUBSET D)
  BY <1>1, FS_StrictSubsetOrderingWellFounded
<1>3. PICK s \in T : \A t \in T : ~(<<t, s>> \in StrictSubsetOrdering(D))
  BY <1>2, WFMin
<1>4. \A t \in T : t \subseteq s /\ t # s => <<t, s>> \in StrictSubsetOrdering(D)
  BY DEF StrictSubsetOrdering
<1>5. ASSUME NEW t \in T, t \subseteq s PROVE t = s
  BY <1>3, <1>4, <1>5
<1> QED
  BY <1>5

LEMMA SubsetsInSet ==
    ASSUME NEW D, IsFiniteSet(D), NEW P,
           \A s \in SUBSET D : (\A t \in SUBSET s : t # s => t \in P) => s \in P
    PROVE  SUBSET D \subseteq P
<1> SUFFICES ASSUME (SUBSET D) \ P # {} PROVE FALSE
  OBVIOUS
<1> DEFINE T == (SUBSET D) \ P
<1>1. T \subseteq SUBSET D /\ T # {}
  OBVIOUS
<1> HIDE DEF T
<1>2. PICK s \in T : \A t \in T : t \subseteq s => t = s
  BY <1>1, LeastSubset
<1>3. s \in SUBSET D /\ s \notin P
  BY DEF T
<1>4. ASSUME NEW t \in SUBSET s, t # s PROVE t \in P
  BY <1>2, <1>3, <1>4 DEF T
<1> QED
  BY <1>3, <1>4

-----------------------------------------------------------------------------
\* A running sum exists: each size of subset extends the one before.
LEMMA RunningSumExists ==
    ASSUME NEW D, IsFiniteSet(D), NEW f \in [D -> Int]
    PROVE  \E g \in [SUBSET D -> Int] : \A s \in SUBSET D : SumsAt(g, f, s)
<1> DEFINE Sub(n) == {s \in SUBSET D : Cardinality(s) <= n}
           Reach == {n \in Nat : \E g \in [Sub(n) -> Int] : \A s \in Sub(n) : SumsAt(g, f, s)}
<1>1. \A s \in SUBSET D : IsFiniteSet(s) /\ Cardinality(s) \in Nat
  BY FS_Subset, FS_CardinalityType
<1>2. ASSUME NEW s \in SUBSET D, s # {}
      PROVE  /\ Pick(s) \in D /\ f[Pick(s)] \in Int
             /\ s \ {Pick(s)} \in SUBSET D /\ Cardinality(s \ {Pick(s)}) = Cardinality(s) - 1
  <2>1. Pick(s) \in s
    BY <1>2, PickIn
  <2> QED
    BY <2>1, <1>1, FS_RemoveElement
<1>3. 0 \in Reach
  <2>1. Sub(0) = {{}}
    BY <1>1, FS_EmptySet
  <2> DEFINE g == [s \in Sub(0) |-> 0]
  <2>2. g \in [Sub(0) -> Int] /\ \A s \in Sub(0) : SumsAt(g, f, s)
    BY <2>1 DEF SumsAt
  <2> HIDE DEF g
  <2> QED
    BY <2>2
<1>4. ASSUME NEW n \in Nat, n \in Reach PROVE n + 1 \in Reach
  <2>1. PICK g \in [Sub(n) -> Int] : \A s \in Sub(n) : SumsAt(g, f, s)
    BY <1>4
  <2> DEFINE h == [s \in Sub(n + 1) |-> IF s = {} THEN 0 ELSE f[Pick(s)] + g[s \ {Pick(s)}]]
  <2>2. ASSUME NEW s \in Sub(n + 1), s # {}
        PROVE  s \ {Pick(s)} \in Sub(n) /\ s \ {Pick(s)} \in Sub(n + 1) /\ f[Pick(s)] \in Int
    BY <2>2, <1>1, <1>2
  <2>3. h \in [Sub(n + 1) -> Int]
    BY <2>1, <2>2
  <2>4. ASSUME NEW s \in Sub(n) PROVE s \in Sub(n + 1) /\ h[s] = g[s]
    <3>1. s \in Sub(n + 1)
      BY <1>1
    <3> QED
      BY <3>1, <2>1 DEF SumsAt
  <2>5. ASSUME NEW s \in Sub(n + 1) PROVE SumsAt(h, f, s)
    <3>1. s # {} => h[s \ {Pick(s)}] = g[s \ {Pick(s)}]
      BY <2>2, <2>4
    <3> QED
      BY <3>1 DEF SumsAt
  <2> HIDE DEF h
  <2>6. n + 1 \in Nat
    OBVIOUS
  <2> HIDE DEF Sub
  <2> QED
    BY <2>3, <2>5, <2>6
<1>5. Nat \subseteq Reach
  <2> HIDE DEF Reach
  <2> QED
    BY <1>3, <1>4, NaturalsInSet
<1>6. PICK n \in Nat : n = Cardinality(D)
  BY FS_CardinalityType
<1>7. Sub(n) = SUBSET D
  BY <1>6, FS_Subset
<1> QED
  BY <1>5, <1>6, <1>7

LEMMA TheSumIs ==
    ASSUME NEW D, IsFiniteSet(D), NEW f \in [D -> Int]
    PROVE  SumsOver(TheSum(f), f, D)
<1>1. PICK g \in [SUBSET D -> Int] : \A s \in SUBSET D : SumsAt(g, f, s)
  BY RunningSumExists
<1>2. RunningSum(g, f, D)
  BY <1>1 DEF RunningSum, SumsAt
<1>3. DOMAIN f = D
  OBVIOUS
<1>4. RunningSum(TheSum(f), f, D)
  BY <1>2, <1>3 DEF TheSum
<1> DEFINE h == TheSum(f)
<1>5. h = [s \in SUBSET D |-> IF s = {} THEN 0 ELSE f[Pick(s)] + h[s \ {Pick(s)}]]
  BY <1>4 DEF RunningSum
<1> HIDE DEF h
<1>6. \A s \in SUBSET D : SumsAt(h, f, s)
  BY <1>5 DEF SumsAt
<1>7. SUBSET D \subseteq {s \in SUBSET D : h[s] = g[s]}
  <2> DEFINE P == {s \in SUBSET D : h[s] = g[s]}
  <2>1. ASSUME NEW s \in SUBSET D, \A t \in SUBSET s : t # s => t \in P PROVE s \in P
    <3>1. CASE s = {}
      BY <3>1, <1>1, <1>6 DEF SumsAt
    <3>2. CASE s # {}
      <4>1. s \ {Pick(s)} \in P
        BY <2>1, <3>2, PickIn
      <4> QED
        BY <4>1, <3>2, <1>1, <1>6 DEF SumsAt
    <3> QED
      BY <3>1, <3>2
  <2> HIDE DEF P
  <2>2. SUBSET D \subseteq P
    BY <2>1, SubsetsInSet
  <2> QED
    BY <2>2 DEF P
<1>8. h \in [SUBSET D -> Int]
  BY <1>1, <1>5, <1>7
<1> QED
  BY <1>6, <1>8 DEF h, SumsOver

-----------------------------------------------------------------------------
\* The order does not matter: any element can be taken out first.
LEMMA AnyFirst ==
    ASSUME NEW D, IsFiniteSet(D), NEW f \in [D -> Int], NEW h, SumsOver(h, f, D)
    PROVE  \A x \in D : h[D] = f[x] + h[D \ {x}]
<1> USE DEF SumsOver
<1> DEFINE First(s) == \A x \in s : h[s] = f[x] + h[s \ {x}]
           P == {s \in SUBSET D : First(s)}
<1>1. ASSUME NEW s \in SUBSET D, \A t \in SUBSET s : t # s => t \in P PROVE s \in P
  <2>1. ASSUME NEW x \in s PROVE h[s] = f[x] + h[s \ {x}]
    <3> DEFINE p == Pick(s)
    <3>1. p \in s
      BY PickIn
    <3> HIDE DEF p
    <3>2. h[s] = f[p] + h[s \ {p}]
      BY DEF SumsAt, p
    <3>3. CASE x = p
      BY <3>2, <3>3
    <3>4. CASE x # p
      <4>1. h[s \ {p}] = f[x] + h[(s \ {p}) \ {x}]
        BY <1>1, <3>1, <3>4
      <4>2. h[s \ {x}] = f[p] + h[(s \ {x}) \ {p}]
        BY <1>1, <3>1, <3>4
      <4>3. (s \ {p}) \ {x} = (s \ {x}) \ {p}
        OBVIOUS
      <4>4. (s \ {p}) \ {x} \in SUBSET D /\ x \in D /\ p \in D
        BY <3>1
      <4>5. f[x] \in Int /\ f[p] \in Int /\ h[(s \ {p}) \ {x}] \in Int
        BY <4>4
      <4>6. PICK a \in Int, b \in Int, c \in Int :
                a = f[x] /\ b = f[p] /\ c = h[(s \ {p}) \ {x}]
        BY <4>5
      <4>7. h[s] = b + (a + c) /\ h[s \ {x}] = b + c
        BY <3>2, <4>1, <4>2, <4>3, <4>6
      <4>8. b + (a + c) = a + (b + c)
        OBVIOUS
      <4> QED
        BY <4>6, <4>7, <4>8
    <3> QED
      BY <3>3, <3>4
  <2> QED
    BY <2>1
<1> HIDE DEF P
<1>2. SUBSET D \subseteq P
  BY <1>1, SubsetsInSet
<1> QED
  BY <1>2, D \in SUBSET D DEF P

\* Two functions that agree on a set have the same sum over it.
LEMMA SameSum ==
    ASSUME NEW D, IsFiniteSet(D), NEW f, NEW e, \A x \in D : e[x] = f[x],
           NEW E, D \subseteq E, NEW h, SumsOver(h, f, E), NEW k, SumsOver(k, e, D)
    PROVE  k[D] = h[D]
<1> USE DEF SumsOver
<1> DEFINE P == {s \in SUBSET D : k[s] = h[s]}
<1>1. ASSUME NEW s \in SUBSET D, \A t \in SUBSET s : t # s => t \in P PROVE s \in P
  <2>0. SumsAt(k, e, s) /\ SumsAt(h, f, s)
    OBVIOUS
  <2>1. CASE s = {}
    BY <2>0, <2>1 DEF SumsAt
  <2>2. CASE s # {}
    <3>1. Pick(s) \in s
      BY <2>2, PickIn
    <3>2. s \ {Pick(s)} \in P
      BY <1>1, <3>1
    <3> QED
      BY <2>0, <2>2, <3>1, <3>2 DEF SumsAt
  <2> QED
    BY <2>1, <2>2
<1> HIDE DEF P
<1>2. SUBSET D \subseteq P
  BY <1>1, SubsetsInSet
<1> QED
  BY <1>2 DEF P

-----------------------------------------------------------------------------
\* What the proofs of the other modules use.

SameOn(D, f, e) == \A y \in D : e[y] = f[y]

GrowsBy(D, E, x) == x \notin D /\ E = D \cup {x}

\* A sum of integers is an integer, and no sum of none is other than 0.
LEMMA SumType ==
    ASSUME NEW D, IsFiniteSet(D), NEW f \in [D -> Int]
    PROVE  SumOf(f) \in Int /\ (D = {} => SumOf(f) = 0)
<1>1. DOMAIN f = D
  OBVIOUS
<1> DEFINE h == TheSum(f)
<1>2. SumOf(f) = h[D]
  BY <1>1, SumUnfolds
<1>3. SumsOver(h, f, D)
  BY TheSumIs
<1> HIDE DEF h
<1>4. D \in SUBSET D
  OBVIOUS
<1>5. h[D] \in Int /\ SumsAt(h, f, D)
  BY <1>3, <1>4 DEF SumsOver
<1> QED
  BY <1>2, <1>5 DEF SumsAt

\* Taking one value out of a sum.
LEMMA SumWithout ==
    ASSUME NEW D, IsFiniteSet(D), NEW f \in [D -> Int], NEW x \in D,
           NEW e \in [D \ {x} -> Int], \A y \in D \ {x} : e[y] = f[y]
    PROVE  SumOf(f) = f[x] + SumOf(e)
<1> DEFINE C == D \ {x}
           h == TheSum(f)
           k == TheSum(e)
<1>1. C \subseteq D /\ IsFiniteSet(C) /\ e \in [C -> Int] /\ \A y \in C : e[y] = f[y]
  BY FS_Subset
<1>2. DOMAIN f = D /\ DOMAIN e = C
  OBVIOUS
<1>3. SumOf(f) = h[D] /\ SumOf(e) = k[C]
  BY <1>2, SumUnfolds
<1>4. SumsOver(h, f, D) /\ SumsOver(k, e, C)
  <2> HIDE DEF C
  <2> QED
    BY <1>1, TheSumIs
<1> HIDE DEF h, k
<1>5. h[D] = f[x] + h[C]
  <2>1. \A y \in D : h[D] = f[y] + h[D \ {y}]
    BY <1>4, AnyFirst
  <2> QED
    BY <2>1
<1>6. h[C] = k[C]
  <2> HIDE DEF C
  <2> QED
    BY <1>1, <1>4, SameSum
<1> QED
  BY <1>3, <1>5, <1>6

\* Changing one value of a sum.
LEMMA SumExcept ==
    ASSUME NEW D, IsFiniteSet(D), NEW f \in [D -> Int], NEW e \in [D -> Int], NEW x \in D,
           SameOn(D \ {x}, f, e)
    PROVE  SumOf(e) = SumOf(f) - f[x] + e[x]
<1> DEFINE g == [y \in D \ {x} |-> f[y]]
<1>1. g \in [D \ {x} -> Int] /\ (\A y \in D \ {x} : g[y] = f[y]) /\ (\A y \in D \ {x} : g[y] = e[y])
  BY DEF SameOn
<1> HIDE DEF g
<1>2. SumOf(f) = f[x] + SumOf(g)
  BY <1>1, SumWithout
<1>3. SumOf(e) = e[x] + SumOf(g)
  BY <1>1, SumWithout
<1>4. SumOf(g) \in Int
  BY <1>1, SumType, FS_Subset, D \ {x} \subseteq D
<1>5. f[x] \in Int /\ e[x] \in Int
  OBVIOUS
<1> QED
  BY <1>2, <1>3, <1>4, <1>5

LEMMA SumShift ==
    ASSUME NEW D, IsFiniteSet(D), NEW f \in [D -> Int], NEW e \in [D -> Int], NEW x \in D,
           SameOn(D \ {x}, f, e), NEW d \in Int, e[x] = f[x] + d
    PROVE  SumOf(e) = SumOf(f) + d
<1>1. SumOf(e) = SumOf(f) - f[x] + e[x]
  BY SumExcept
<1>2. SumOf(f) \in Int
  BY SumType
<1>3. f[x] \in Int
  OBVIOUS
<1> QED
  BY <1>1, <1>2, <1>3

\* Adding one value to a sum.
LEMMA SumAdd ==
    ASSUME NEW D, IsFiniteSet(D), NEW f \in [D -> Int], NEW x, NEW E, GrowsBy(D, E, x),
           NEW e \in [E -> Int], SameOn(D, f, e)
    PROVE  SumOf(e) = SumOf(f) + e[x]
<1>1. IsFiniteSet(E)
  BY FS_AddElement DEF GrowsBy
<1>2. E \ {x} = D /\ x \in E
  BY DEF GrowsBy
<1>3. SumOf(e) = e[x] + SumOf(f)
  BY <1>1, <1>2, SumWithout DEF SameOn
<1>4. SumOf(f) \in Int
  BY SumType
<1>5. e[x] \in Int
  BY <1>2
<1> QED
  BY <1>3, <1>4, <1>5

\* A sequence that grows by one.
LEMMA SumAppend ==
    ASSUME NEW n \in Nat, NEW f \in [1..n -> Int], NEW e \in [1..(n + 1) -> Int],
           SameOn(1..n, f, e)
    PROVE  SumOf(e) = SumOf(f) + e[n + 1] /\ SumOf(f) \in Int
<1> DEFINE D == 1..n
           x == n + 1
           E == 1..(n + 1)
<1>1. GrowsBy(D, E, x)
  BY DEF GrowsBy
<1>2. IsFiniteSet(D)
  BY FS_Interval
<1>3. f \in [D -> Int] /\ e \in [E -> Int] /\ SameOn(D, f, e)
  OBVIOUS
<1> HIDE DEF D, x, E
<1>4. SumOf(e) = SumOf(f) + e[x]
  BY <1>1, <1>2, <1>3, SumAdd
<1>5. SumOf(f) \in Int
  BY <1>2, <1>3, SumType
<1> QED
  BY <1>4, <1>5 DEF x

\* Zeros add up to zero; natural numbers to a natural number.
LEMMA SumOfZeros ==
    ASSUME NEW D, IsFiniteSet(D), NEW f \in [D -> Int], \A x \in D : f[x] = 0
    PROVE  SumOf(f) = 0
<1> DEFINE h == TheSum(f)
           P == {s \in SUBSET D : h[s] = 0}
<1>1. SumsOver(h, f, D)
  BY TheSumIs
<1>2. DOMAIN f = D
  OBVIOUS
<1>3. SumOf(f) = h[D]
  BY <1>2, SumUnfolds
<1> HIDE DEF h
<1>4. ASSUME NEW s \in SUBSET D, \A t \in SUBSET s : t # s => t \in P PROVE s \in P
  <2>1. SumsAt(h, f, s)
    BY <1>1 DEF SumsOver
  <2>2. CASE s = {}
    BY <2>1, <2>2 DEF SumsAt
  <2>3. CASE s # {}
    <3>1. Pick(s) \in s
      BY <2>3, PickIn
    <3>2. s \ {Pick(s)} \in P
      BY <1>4, <3>1
    <3>3. h[s] = f[Pick(s)] + h[s \ {Pick(s)}]
      BY <2>1, <2>3 DEF SumsAt
    <3> QED
      BY <3>1, <3>2, <3>3
  <2> QED
    BY <2>2, <2>3
<1> HIDE DEF P
<1>5. SUBSET D \subseteq P
  BY <1>4, SubsetsInSet
<1> QED
  BY <1>3, <1>5 DEF P

LEMMA SumOfNaturals ==
    ASSUME NEW D, IsFiniteSet(D), NEW f \in [D -> Nat] PROVE SumOf(f) \in Nat
<1> DEFINE h == TheSum(f)
           P == {s \in SUBSET D : h[s] \in Nat}
<1>1. SumsOver(h, f, D)
  BY TheSumIs, f \in [D -> Int]
<1>2. DOMAIN f = D
  OBVIOUS
<1>3. SumOf(f) = h[D]
  BY <1>2, SumUnfolds
<1> HIDE DEF h
<1>4. ASSUME NEW s \in SUBSET D, \A t \in SUBSET s : t # s => t \in P PROVE s \in P
  <2>1. SumsAt(h, f, s)
    BY <1>1 DEF SumsOver
  <2>2. CASE s = {}
    BY <2>1, <2>2 DEF SumsAt
  <2>3. CASE s # {}
    <3>1. Pick(s) \in s
      BY <2>3, PickIn
    <3>2. s \ {Pick(s)} \in P
      BY <1>4, <3>1
    <3>3. h[s] = f[Pick(s)] + h[s \ {Pick(s)}]
      BY <2>1, <2>3 DEF SumsAt
    <3> QED
      BY <3>1, <3>2, <3>3
  <2> QED
    BY <2>2, <2>3
<1> HIDE DEF P
<1>5. SUBSET D \subseteq P
  BY <1>4, SubsetsInSet
<1> QED
  BY <1>3, <1>5 DEF P

\* No value of a sum of natural numbers is larger than the sum.
LEMMA SumAtLeast ==
    ASSUME NEW D, IsFiniteSet(D), NEW f \in [D -> Nat], NEW x \in D PROVE f[x] <= SumOf(f)
<1> DEFINE e == [y \in D \ {x} |-> f[y]]
<1>1. e \in [D \ {x} -> Nat] /\ \A y \in D \ {x} : e[y] = f[y]
  OBVIOUS
<1> HIDE DEF e
<1>2. SumOf(e) \in Nat
  BY <1>1, SumOfNaturals, FS_Subset, D \ {x} \subseteq D
<1>3. f \in [D -> Int] /\ e \in [D \ {x} -> Int]
  BY <1>1
<1>4. SumOf(f) = f[x] + SumOf(e)
  BY <1>1, <1>3, SumWithout
<1>5. f[x] \in Nat
  OBVIOUS
<1> QED
  BY <1>2, <1>4, <1>5

-----------------------------------------------------------------------------
(* Parts of a sum, sums of sums, and groups.                               *)

\* The values of f on s alone; sums of them grow with s.
Part(f, s) == [x \in s |-> f[x]]

LEMMA PartSum ==
    ASSUME NEW D, IsFiniteSet(D), NEW f \in [D -> Int], NEW s \in SUBSET D
    PROVE  /\ SumOf(Part(f, s)) \in Int
           /\ s = {} => SumOf(Part(f, s)) = 0
           /\ \A x \in s : SumOf(Part(f, s)) = f[x] + SumOf(Part(f, s \ {x}))
           /\ f = Part(f, D)
<1>1. \A t \in SUBSET D : IsFiniteSet(t) /\ Part(f, t) \in [t -> Int]
  BY FS_Subset DEF Part
<1>2. SumOf(Part(f, s)) \in Int /\ (s = {} => SumOf(Part(f, s)) = 0)
  <2> IsFiniteSet(s) /\ Part(f, s) \in [s -> Int]
    BY <1>1
  <2> QED
    BY SumType
<1>3. ASSUME NEW x \in s PROVE SumOf(Part(f, s)) = f[x] + SumOf(Part(f, s \ {x}))
  <2>1. IsFiniteSet(s) /\ Part(f, s) \in [s -> Int]
    BY <1>1
  <2>2. s \ {x} \in SUBSET D
    OBVIOUS
  <2>3. Part(f, s \ {x}) \in [s \ {x} -> Int]
    BY <1>1, <2>2
  <2>4. (\A y \in s \ {x} : Part(f, s \ {x})[y] = Part(f, s)[y]) /\ Part(f, s)[x] = f[x]
    BY DEF Part
  <2> QED
    BY <2>1, <2>3, <2>4, SumWithout
<1>4. f = Part(f, D)
  BY DEF Part
<1> QED
  BY <1>2, <1>3, <1>4

\* Induction over the part of a set that is added up.
LEMMA PartByPart ==
    ASSUME NEW D, IsFiniteSet(D), NEW P, {} \in P,
           \A s \in SUBSET D : \A x \in s : s \ {x} \in P => s \in P
    PROVE  D \in P
<1>1. ASSUME NEW s \in SUBSET D, \A t \in SUBSET s : t # s => t \in P PROVE s \in P
  <2>1. CASE s = {}
    BY <2>1
  <2>2. CASE s # {}
    <3>1. PICK x \in s : TRUE
      BY <2>2
    <3>2. s \ {x} \in SUBSET s /\ s \ {x} # s
      BY <3>1
    <3> QED
      BY <1>1, <3>1, <3>2
  <2> QED
    BY <2>1, <2>2
<1>2. SUBSET D \subseteq P
  BY <1>1, SubsetsInSet
<1> QED
  BY <1>2

\* Sums of sums, of products with a number, and of smaller values.
LEMMA SumPlus ==
    ASSUME NEW D, IsFiniteSet(D), NEW f \in [D -> Int], NEW g \in [D -> Int], NEW e \in [D -> Int],
           \A x \in D : e[x] = f[x] + g[x]
    PROVE  SumOf(e) = SumOf(f) + SumOf(g)
<1> DEFINE P == {s \in SUBSET D : SumOf(Part(e, s)) = SumOf(Part(f, s)) + SumOf(Part(g, s))}
<1>1. {} \in P
  <2> {} \in SUBSET D
    OBVIOUS
  <2> SumOf(Part(e, {})) = 0 /\ SumOf(Part(f, {})) = 0 /\ SumOf(Part(g, {})) = 0
    BY PartSum
  <2> QED
    OBVIOUS
<1>2. ASSUME NEW s \in SUBSET D, NEW x \in s, s \ {x} \in P PROVE s \in P
  <2> DEFINE t == s \ {x}
  <2>0. t \in SUBSET D /\ x \in D
    OBVIOUS
  <2>1. SumOf(Part(e, t)) = SumOf(Part(f, t)) + SumOf(Part(g, t))
    BY <1>2
  <2> HIDE DEF P
  <2>2. SumOf(Part(f, t)) \in Int /\ SumOf(Part(g, t)) \in Int
    BY <2>0, PartSum
  <2>3. /\ SumOf(Part(e, s)) = e[x] + SumOf(Part(e, t))
        /\ SumOf(Part(f, s)) = f[x] + SumOf(Part(f, t))
        /\ SumOf(Part(g, s)) = g[x] + SumOf(Part(g, t))
    BY PartSum
  <2>4. f[x] \in Int /\ g[x] \in Int /\ e[x] = f[x] + g[x]
    BY <2>0
  <2> HIDE DEF t
  <2>5. SumOf(Part(e, s)) = SumOf(Part(f, s)) + SumOf(Part(g, s))
    BY <2>1, <2>2, <2>3, <2>4
  <2> QED
    BY <2>5 DEF P
<1> HIDE DEF P
<1>3. D \in P
  BY <1>1, <1>2, PartByPart
<1>4. e = Part(e, D) /\ f = Part(f, D) /\ g = Part(g, D)
  BY D \in SUBSET D, PartSum
<1>5. SumOf(Part(e, D)) = SumOf(Part(f, D)) + SumOf(Part(g, D))
  BY <1>3 DEF P
<1> QED
  BY <1>4, <1>5

LEMMA SumScaled ==
    ASSUME NEW D, IsFiniteSet(D), NEW f \in [D -> Int], NEW c \in Int, NEW e \in [D -> Int],
           \A x \in D : e[x] = c * f[x]
    PROVE  SumOf(e) = c * SumOf(f)
<1> DEFINE P == {s \in SUBSET D : SumOf(Part(e, s)) = c * SumOf(Part(f, s))}
<1>1. {} \in P
  <2> {} \in SUBSET D
    OBVIOUS
  <2> SumOf(Part(e, {})) = 0 /\ SumOf(Part(f, {})) = 0
    BY PartSum
  <2> QED
    OBVIOUS
<1>2. ASSUME NEW s \in SUBSET D, NEW x \in s, s \ {x} \in P PROVE s \in P
  <2> DEFINE t == s \ {x}
  <2>0. t \in SUBSET D /\ x \in D
    OBVIOUS
  <2>1. SumOf(Part(e, t)) = c * SumOf(Part(f, t))
    BY <1>2
  <2> HIDE DEF P
  <2>2. SumOf(Part(f, t)) \in Int
    BY <2>0, PartSum
  <2>3. /\ SumOf(Part(e, s)) = e[x] + SumOf(Part(e, t))
        /\ SumOf(Part(f, s)) = f[x] + SumOf(Part(f, t))
    BY PartSum
  <2>4. f[x] \in Int /\ e[x] = c * f[x]
    BY <2>0
  <2>5. \A a, b \in Int : c * (a + b) = c * a + c * b
    OBVIOUS
  <2> HIDE DEF t
  <2>6. SumOf(Part(e, s)) = c * SumOf(Part(f, s))
    BY <2>1, <2>2, <2>3, <2>4, <2>5
  <2> QED
    BY <2>6 DEF P
<1> HIDE DEF P
<1>3. D \in P
  BY <1>1, <1>2, PartByPart
<1>4. e = Part(e, D) /\ f = Part(f, D)
  BY D \in SUBSET D, PartSum
<1>5. SumOf(Part(e, D)) = c * SumOf(Part(f, D))
  BY <1>3 DEF P
<1> QED
  BY <1>4, <1>5

LEMMA SumMonotone ==
    ASSUME NEW D, IsFiniteSet(D), NEW f \in [D -> Int], NEW e \in [D -> Int],
           \A x \in D : e[x] <= f[x]
    PROVE  SumOf(e) <= SumOf(f)
<1> DEFINE P == {s \in SUBSET D : SumOf(Part(e, s)) <= SumOf(Part(f, s))}
<1>1. {} \in P
  <2> {} \in SUBSET D
    OBVIOUS
  <2> SumOf(Part(e, {})) = 0 /\ SumOf(Part(f, {})) = 0
    BY PartSum
  <2> QED
    OBVIOUS
<1>2. ASSUME NEW s \in SUBSET D, NEW x \in s, s \ {x} \in P PROVE s \in P
  <2> DEFINE t == s \ {x}
  <2>0. t \in SUBSET D /\ x \in D
    OBVIOUS
  <2>1. SumOf(Part(e, t)) <= SumOf(Part(f, t))
    BY <1>2
  <2> HIDE DEF P
  <2>2. SumOf(Part(f, t)) \in Int /\ SumOf(Part(e, t)) \in Int
    BY <2>0, PartSum
  <2>3. /\ SumOf(Part(e, s)) = e[x] + SumOf(Part(e, t))
        /\ SumOf(Part(f, s)) = f[x] + SumOf(Part(f, t))
    BY PartSum
  <2>4. f[x] \in Int /\ e[x] \in Int /\ e[x] <= f[x]
    BY <2>0
  <2> HIDE DEF t
  <2>6. SumOf(Part(e, s)) <= SumOf(Part(f, s))
    BY <2>1, <2>2, <2>3, <2>4
  <2> QED
    BY <2>6 DEF P
<1> HIDE DEF P
<1>3. D \in P
  BY <1>1, <1>2, PartByPart
<1>4. e = Part(e, D) /\ f = Part(f, D)
  BY D \in SUBSET D, PartSum
<1>5. SumOf(Part(e, D)) <= SumOf(Part(f, D))
  BY <1>3 DEF P
<1> QED
  BY <1>4, <1>5

LEMMA SumOfOnes ==
    ASSUME NEW D, IsFiniteSet(D), NEW e \in [D -> Int], \A x \in D : e[x] = 1
    PROVE  SumOf(e) = Cardinality(D)
<1> DEFINE P == {s \in SUBSET D : SumOf(Part(e, s)) = Cardinality(s)}
<1>1. {} \in P
  <2> {} \in SUBSET D
    OBVIOUS
  <2> SumOf(Part(e, {})) = 0
    BY PartSum
  <2> QED
    BY FS_EmptySet
<1>2. ASSUME NEW s \in SUBSET D, NEW x \in s, s \ {x} \in P PROVE s \in P
  <2>1. SumOf(Part(e, s \ {x})) = Cardinality(s \ {x})
    BY <1>2
  <2> HIDE DEF P
  <2>2. SumOf(Part(e, s)) = e[x] + SumOf(Part(e, s \ {x}))
    BY PartSum
  <2>3. IsFiniteSet(s)
    BY FS_Subset
  <2>4. Cardinality(s \ {x}) = Cardinality(s) - 1 /\ Cardinality(s) \in Nat
    BY <2>3, FS_RemoveElement, FS_CardinalityType
  <2>5. SumOf(Part(e, s)) = Cardinality(s)
    BY <2>1, <2>2, <2>4, x \in D
  <2> QED
    BY <2>5 DEF P
<1> HIDE DEF P
<1>3. D \in P
  BY <1>1, <1>2, PartByPart
<1>4. e = Part(e, D)
  BY D \in SUBSET D, PartSum
<1>5. SumOf(Part(e, D)) = Cardinality(D)
  BY <1>3 DEF P
<1> QED
  BY <1>4, <1>5

\* Values that are zero can be left out.
LEMMA SumOnly ==
    ASSUME NEW D, IsFiniteSet(D), NEW f \in [D -> Int], NEW E \in SUBSET D,
           NEW e \in [E -> Int], SameOn(E, f, e), \A x \in D \ E : f[x] = 0
    PROVE  SumOf(e) = SumOf(f)
<1> DEFINE P == {s \in SUBSET D : SumOf(Part(f, s \cap E)) = SumOf(Part(f, s))}
<1>1. {} \in P
  <2> {} \in SUBSET D /\ {} \cap E = {}
    OBVIOUS
  <2> QED
    OBVIOUS
<1>2. ASSUME NEW s \in SUBSET D, NEW x \in s, s \ {x} \in P PROVE s \in P
  <2> DEFINE t == s \ {x}
  <2>0. t \in SUBSET D /\ x \in D /\ t \cap E \in SUBSET D /\ s \cap E \in SUBSET D
    OBVIOUS
  <2>1. SumOf(Part(f, t \cap E)) = SumOf(Part(f, t))
    BY <1>2
  <2> HIDE DEF P
  <2>2. SumOf(Part(f, t)) \in Int
    BY <2>0, PartSum
  <2>3. SumOf(Part(f, s)) = f[x] + SumOf(Part(f, t))
    BY PartSum
  <2>4. CASE x \in E
    <3>1. x \in s \cap E /\ (s \cap E) \ {x} = t \cap E
      BY <2>4
    <3>2. SumOf(Part(f, s \cap E)) = f[x] + SumOf(Part(f, (s \cap E) \ {x}))
      BY <2>0, <3>1, PartSum
    <3>3. SumOf(Part(f, s \cap E)) = SumOf(Part(f, s))
      BY <2>1, <2>3, <3>1, <3>2
    <3> QED
      BY <3>3 DEF P
  <2>5. CASE x \notin E
    <3>1. s \cap E = t \cap E /\ f[x] = 0
      BY <2>0, <2>5
    <3>2. SumOf(Part(f, s)) = SumOf(Part(f, t))
      BY <2>2, <2>3, <3>1
    <3> HIDE DEF t
    <3>3. SumOf(Part(f, s \cap E)) = SumOf(Part(f, s))
      BY <2>1, <3>1, <3>2
    <3> QED
      BY <3>3 DEF P
  <2> QED
    BY <2>4, <2>5
<1> HIDE DEF P
<1>3. D \in P
  BY <1>1, <1>2, PartByPart
<1>4. f = Part(f, D)
  BY D \in SUBSET D, PartSum
<1>5. D \cap E = E /\ e = Part(f, E)
  BY DEF Part, SameOn
<1>6. SumOf(Part(f, D \cap E)) = SumOf(Part(f, D))
  BY <1>3 DEF P
<1> QED
  BY <1>4, <1>5, <1>6

LEMMA SumOfOne ==
    ASSUME NEW D, IsFiniteSet(D), NEW f \in [D -> Int], NEW x \in D,
           \A y \in D \ {x} : f[y] = 0
    PROVE  SumOf(f) = f[x]
<1> DEFINE e == [y \in D \ {x} |-> f[y]]
<1>1. e \in [D \ {x} -> Int] /\ (\A y \in D \ {x} : e[y] = f[y]) /\ \A y \in D \ {x} : e[y] = 0
  OBVIOUS
<1>2. IsFiniteSet(D \ {x})
  BY FS_Subset
<1> HIDE DEF e
<1>3. SumOf(e) = 0
  <2> DEFINE C == D \ {x}
  <2>1. IsFiniteSet(C) /\ e \in [C -> Int] /\ \A y \in C : e[y] = 0
    BY <1>1, <1>2
  <2> HIDE DEF C
  <2> QED
    BY <2>1, SumOfZeros
<1>4. SumOf(f) = f[x] + SumOf(e)
  BY <1>1, SumWithout
<1> QED
  BY <1>3, <1>4, f[x] \in Int

\* Rows first or columns first.
LEMMA SumSwap ==
    ASSUME NEW A, IsFiniteSet(A), NEW B, IsFiniteSet(B), NEW F \in [A -> [B -> Int]]
    PROVE  SumOf([x \in A |-> SumOf(F[x])]) = SumOf([y \in B |-> SumOf([x \in A |-> F[x][y]])])
<1> DEFINE Row == [x \in A |-> SumOf(F[x])]
           Col(y) == [x \in A |-> F[x][y]]
           Cols(s) == [y \in B |-> SumOf(Part(Col(y), s))]
           P == {s \in SUBSET A : SumOf(Part(Row, s)) = SumOf(Cols(s))}
<1>0. Row \in [A -> Int]
  BY SumType
<1>00. \A y \in B : Col(y) \in [A -> Int] /\ \A x \in A : Col(y)[x] = F[x][y]
  OBVIOUS
<1> HIDE DEF Col
<1>01. \A s \in SUBSET A : Cols(s) \in [B -> Int]
  <2> TAKE s \in SUBSET A
  <2> \A y \in B : SumOf(Part(Col(y), s)) \in Int
    BY <1>00, PartSum
  <2> QED
    OBVIOUS
<1>1. {} \in P
  <2>0. {} \in SUBSET A
    OBVIOUS
  <2> HIDE DEF Row
  <2>1. SumOf(Part(Row, {})) = 0
    BY <1>0, <2>0, PartSum
  <2>2. \A y \in B : Cols({})[y] = 0
    <3> TAKE y \in B
    <3> Cols({})[y] = SumOf(Part(Col(y), {}))
      OBVIOUS
    <3> QED
      BY <1>00, <2>0, PartSum
  <2>3. Cols({}) \in [B -> Int]
    BY <1>01, <2>0
  <2> HIDE DEF Cols
  <2>4. SumOf(Cols({})) = 0
    BY <2>2, <2>3, SumOfZeros
  <2> QED
    BY <2>0, <2>1, <2>4
<1>2. ASSUME NEW s \in SUBSET A, NEW x \in s, s \ {x} \in P PROVE s \in P
  <2> DEFINE t == s \ {x}
  <2>0. t \in SUBSET A /\ x \in A
    OBVIOUS
  <2>1. SumOf(Part(Row, t)) = SumOf(Cols(t))
    BY <1>2
  <2> HIDE DEF P
  <2>2. Row[x] = SumOf(F[x]) /\ F[x] \in [B -> Int]
    BY <2>0
  <2> HIDE DEF Row
  <2>3. SumOf(Part(Row, s)) = Row[x] + SumOf(Part(Row, t))
    BY <1>0, PartSum
  <2>4. \A y \in B : Cols(s)[y] = F[x][y] + Cols(t)[y]
    <3> TAKE y \in B
    <3>1. SumOf(Part(Col(y), s)) = Col(y)[x] + SumOf(Part(Col(y), t))
      BY <1>00, PartSum
    <3>2. Col(y)[x] = F[x][y]
      BY <1>00, <2>0
    <3> QED
      BY <3>1, <3>2
  <2>5. Cols(s) \in [B -> Int] /\ Cols(t) \in [B -> Int]
    BY <1>01, <2>0
  <2> HIDE DEF Cols, t
  <2>6. SumOf(Cols(s)) = SumOf(F[x]) + SumOf(Cols(t))
    BY <2>2, <2>4, <2>5, SumPlus
  <2>7. SumOf(Part(Row, s)) = SumOf(Cols(s))
    BY <2>1, <2>2, <2>3, <2>6
  <2> QED
    BY <2>7 DEF P
<1> HIDE DEF P
<1>3. A \in P
  BY <1>1, <1>2, PartByPart
<1>4. SumOf(Part(Row, A)) = SumOf(Cols(A))
  BY <1>3 DEF P
<1>5. Row = Part(Row, A)
  <2> HIDE DEF Row
  <2> QED
    BY <1>0, A \in SUBSET A, PartSum
<1>6. \A y \in B : Col(y) = Part(Col(y), A)
  BY <1>00, A \in SUBSET A, PartSum
<1>7. Cols(A) = [y \in B |-> SumOf(Col(y))]
  BY <1>6
<1> QED
  BY <1>4, <1>5, <1>7 DEF Col

\* The values of S in the groups that a key makes of them.
ByKey(S, K, key, f) == [k \in K |-> SumOf([i \in {i \in S : key[i] = k} |-> f[i]])]

LEMMA SumByKey ==
    ASSUME NEW S, IsFiniteSet(S), NEW f \in [S -> Int], NEW K, IsFiniteSet(K), NEW key,
           NEW g \in [S -> Int], \A i \in S : g[i] = IF key[i] \in K THEN f[i] ELSE 0
    PROVE  SumOf(ByKey(S, K, key, f)) = SumOf(g)
<1> DEFINE F == [k \in K |-> [i \in S |-> IF key[i] = k THEN f[i] ELSE 0]]
           Group(k) == {i \in S : key[i] = k}
           Col(i) == [k \in K |-> F[k][i]]
<1>1. F \in [K -> [S -> Int]]
  OBVIOUS
<1>2. ASSUME NEW k \in K PROVE SumOf([i \in Group(k) |-> f[i]]) = SumOf(F[k])
  <2> DEFINE e == [i \in Group(k) |-> f[i]]
             h == F[k]
             E == Group(k)
  <2>1. /\ h \in [S -> Int] /\ E \in SUBSET S /\ e \in [E -> Int]
        /\ SameOn(E, h, e) /\ \A i \in S \ E : h[i] = 0
    BY DEF SameOn
  <2> HIDE DEF e, h, E
  <2>2. SumOf(e) = SumOf(h)
    BY <2>1, SumOnly
  <2> QED
    BY <2>2 DEF e, h, E
<1>3. [k \in K |-> SumOf([i \in Group(k) |-> f[i]])] = [k \in K |-> SumOf(F[k])]
  <2> HIDE DEF F, Group
  <2> QED
    BY <1>2
<1>4. SumOf([k \in K |-> SumOf(F[k])]) = SumOf([i \in S |-> SumOf(Col(i))])
  <2> HIDE DEF F
  <2> QED
    BY <1>1, SumSwap
<1>5. ASSUME NEW i \in S PROVE SumOf(Col(i)) = g[i]
  <2>1. Col(i) \in [K -> Int] /\ (\A k \in K : Col(i)[k] = IF key[i] = k THEN f[i] ELSE 0)
    OBVIOUS
  <2> HIDE DEF Col
  <2>2. CASE key[i] \in K
    <3>1. \A k \in K \ {key[i]} : Col(i)[k] = 0
      BY <2>1
    <3>2. SumOf(Col(i)) = Col(i)[key[i]]
      BY <2>1, <2>2, <3>1, SumOfOne
    <3> QED
      BY <2>1, <2>2, <3>2
  <2>3. CASE key[i] \notin K
    <3>1. \A k \in K : Col(i)[k] = 0
      BY <2>1, <2>3
    <3>2. SumOf(Col(i)) = 0
      BY <2>1, <3>1, SumOfZeros
    <3> QED
      BY <2>3, <3>2
  <2> QED
    BY <2>2, <2>3
<1>6. [i \in S |-> SumOf(Col(i))] = g
  <2> HIDE DEF Col
  <2> QED
    BY <1>5
<1> QED
  BY <1>3, <1>4, <1>6 DEF Group, ByKey

=============================================================================
