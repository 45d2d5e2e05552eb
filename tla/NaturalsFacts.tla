--------------------------- MODULE NaturalsFacts ---------------------------
(***************************************************************************)
(* Facts about sets of naturals that the proofs share: least and greatest  *)
(* elements, and the enumeration of a finite set in increasing order.      *)
(***************************************************************************)
EXTENDS Naturals, FiniteSets, FiniteSetsExt, FiniteSetTheorems, WellFoundedInduction, TLAPS

\* A set of naturals has a least element ...
LEMMA LeastElement ==
    ASSUME NEW S, S \subseteq Nat, S # {}
    PROVE  \E m \in S : \A k \in S : m <= k
  <1>. DEFINE R == {p \in Nat \X Nat : p[1] < p[2]}
  <1>1. R = OpToRel(<, Nat)
    BY Zenon DEF OpToRel
  <1>2. IsWellFoundedOn(R, Nat)
    BY <1>1, NatLessThanWellFounded, Zenon
  <1>. HIDE DEF R
  <1>3. PICK m \in S : \A k \in S : <<k, m>> \notin R
    BY <1>2, WFMin
  <1>4. ASSUME NEW k \in S, k < m PROVE <<k, m>> \in R
    <2>1. <<k, m>> \in Nat \X Nat /\ <<k, m>>[1] = k /\ <<k, m>>[2] = m
      OBVIOUS
    <2>. QED
      BY <1>4, <2>1 DEF R
  <1>5. \A k \in S : ~(k < m)
    BY <1>3, <1>4, Zenon
  <1>. QED
    BY <1>5

\* ... and, if it is bounded, a greatest one, which Max returns.
LEMMA GreatestElement ==
    ASSUME NEW S, S \subseteq Nat, S # {}, NEW b \in Nat, \A x \in S : x <= b
    PROVE  Max(S) \in S /\ \A x \in S : x <= Max(S)
  <1>. DEFINE U == {n \in Nat : \A x \in S : x <= n}
  <1>1. PICK m \in U : \A k \in U : m <= k
    <2>1. U \subseteq Nat /\ b \in U
      OBVIOUS
    <2>. HIDE DEF U
    <2>. QED
      BY <2>1, LeastElement
  <1>2. m \in S
    <2>1. PICK x \in S : TRUE
      OBVIOUS
    <2>. SUFFICES ASSUME m \notin S PROVE FALSE
      OBVIOUS
    <2>2. \A y \in S : y < m
      BY <1>1
    <2>3. m - 1 \in Nat /\ \A y \in S : y <= m - 1
      BY <1>1, <2>1, <2>2
    <2>. QED
      BY <1>1, <2>3
  <1>. QED
    BY <1>1, <1>2 DEF Max

\* A set of naturals has the minimum that Min returns.
LEMMA MinimumElement ==
    ASSUME NEW S, S \subseteq Nat, S # {}
    PROVE  Min(S) \in S /\ \A x \in S : Min(S) <= x
  BY LeastElement DEF Min

\* A set of naturals with a least counterexample has none: induction, without an
\* operator parameter.
LEMMA NoLeastCounterexample ==
    ASSUME NEW S, S \subseteq Nat, \A n \in S : \E k \in S : k < n
    PROVE  S = {}
  <1>. SUFFICES ASSUME S # {} PROVE FALSE
    OBVIOUS
  <1>1. PICK m \in S : \A k \in S : m <= k
    BY LeastElement
  <1>. QED
    BY <1>1

\* The functions that list a finite set of naturals in increasing order.
Enumerates(f, D) ==
    /\ f \in [1..Cardinality(D) -> D]
    /\ \A i, j \in DOMAIN f : i < j => f[i] < f[j]

\* Every finite set of naturals can be listed in increasing order: take the least
\* size of a set that cannot, and put its greatest element last.
LEMMA Enumeration ==
    ASSUME NEW b \in Nat
    PROVE  \A D \in SUBSET (0..b) : \E f : Enumerates(f, D)
  <1>. DEFINE Bad == {D \in SUBSET (0..b) : ~ \E f : Enumerates(f, D)}
              Sizes == {Cardinality(D) : D \in Bad}
  <1>0. \A D \in SUBSET (0..b) : IsFiniteSet(D) /\ Cardinality(D) \in Nat
    <2>1. IsFiniteSet(0..b)
      BY FS_Interval
    <2>. QED
      BY <2>1, FS_Subset, FS_CardinalityType
  <1>1. Sizes \subseteq Nat
    BY <1>0
  <1>2. ASSUME NEW n \in Sizes PROVE \E k \in Sizes : k < n
    <2>1. PICK D \in Bad : n = Cardinality(D)
      OBVIOUS
    <2>2. D # {}
      <3>1. ASSUME D = {} PROVE \E f : Enumerates(f, D)
        <4>1. Cardinality(D) = 0
          BY <3>1, FS_EmptySet
        <4>2. Enumerates([x \in {} |-> x], D)
          BY <3>1, <4>1 DEF Enumerates
        <4>. QED
          BY <4>2
      <3>. QED
        BY <2>1, <3>1
    <2>3. PICK m \in D : \A x \in D : x <= m
      <3>1. D \subseteq Nat /\ \A x \in D : x <= b
        BY <2>1
      <3>. QED
        BY <2>2, <3>1, GreatestElement
    <2>4. PICK C : C = D \ {m}
      OBVIOUS
    <2>5. C \in SUBSET (0..b) /\ Cardinality(C) = n - 1 /\ n \in Nat \ {0} /\ Cardinality(C) \in Nat
      <3>1. IsFiniteSet(D) /\ D \in SUBSET (0..b)
        BY <1>0, <2>1
      <3>2. Cardinality(C) = Cardinality(D) - 1
        BY <2>4, <3>1, FS_RemoveElement
      <3>3. C \in SUBSET (0..b)
        BY <2>4, <3>1
      <3>4. Cardinality(C) \in Nat /\ Cardinality(D) \in Nat
        BY <1>0, <3>1, <3>3
      <3>. QED
        BY <2>1, <3>2, <3>3, <3>4
    <2>6. C \in Bad
      <3>. SUFFICES ASSUME NEW f, Enumerates(f, C) PROVE \E g : Enumerates(g, D)
        BY <2>1, <2>5
      <3>. DEFINE g == [i \in 1..n |-> IF i = n THEN m ELSE f[i]]
      <3>1. \A i \in 1..n : i # n => i \in DOMAIN f /\ f[i] \in C
        BY <2>5 DEF Enumerates
      <3>2. g \in [1..n -> D]
        BY <2>4, <3>1
      <3>3. \A x \in C : x \in Nat /\ m \in Nat /\ x < m
        BY <2>1, <2>3, <2>4
      <3>4. \A i, j \in 1..n : i < j => g[i] < g[j]
        <4>. SUFFICES ASSUME NEW i \in 1..n, NEW j \in 1..n, i < j PROVE g[i] < g[j]
          OBVIOUS
        <4>1. i # n /\ g[i] = f[i] /\ i \in DOMAIN f /\ f[i] \in C
          BY <2>5, <3>1
        <4>2. CASE j = n
          BY <3>3, <4>1, <4>2
        <4>3. CASE j # n
          <5>1. g[j] = f[j] /\ j \in DOMAIN f
            BY <3>1, <4>3
          <5>. QED
            BY <4>1, <5>1 DEF Enumerates
        <4>. QED
          BY <4>2, <4>3
      <3>5. Enumerates(g, D)
        BY <2>1, <3>2, <3>4 DEF Enumerates
      <3>. QED
        BY <3>5
    <2>. QED
      BY <2>5, <2>6
  <1>. HIDE DEF Sizes
  <1>3. Sizes = {}
    BY <1>1, <1>2, NoLeastCounterexample
  <1>. QED
    BY <1>3 DEF Sizes
=============================================================================
