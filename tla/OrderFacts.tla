----------------------------- MODULE OrderFacts ------------------------------
(***************************************************************************)
(* Facts about finite sets of natural numbers that the proofs share: their *)
(* smallest and largest elements, their newest elements, and their members *)
(* put in order.                                                           *)
(***************************************************************************)
EXTENDS Integers, Sequences, FiniteSets, FiniteSetsExt, FiniteSetTheorems, SequenceTheorems,
        TLAPS

\* A set of natural numbers that is not empty has a smallest element.
LEMMA Smallest ==
    ASSUME NEW S \in SUBSET Nat, S # {}
    PROVE  \E x \in S : \A y \in S : x <= y
<1> DEFINE T == {0..x : x \in S}
<1>1. T \subseteq FiniteSubsetsOf(Nat) /\ T # {}
  <2>1. ASSUME NEW x \in S PROVE 0..x \in FiniteSubsetsOf(Nat)
    BY <2>1, FS_Interval DEF FiniteSubsetsOf
  <2> QED
    BY <2>1
<1>2. PICK I \in T : \A J \in T : ~(<<J, I>> \in StrictSubsetOrdering(Nat))
  <2> HIDE DEF T
  <2> QED
    BY <1>1, FS_StrictSubsetOrderingWellFounded, WFMin
<1>3. PICK x \in S : I = 0..x
  BY <1>2
<1>4. ASSUME NEW y \in S, y < x PROVE FALSE
  <2>1. x \in Nat /\ y \in Nat
    OBVIOUS
  <2>2. 0..y \subseteq 0..x /\ x \in 0..x /\ x \notin 0..y
    BY <1>4, <2>1
  <2>3. 0..y \in SUBSET Nat /\ 0..x \in SUBSET Nat
    BY <2>1
  <2>4. <<0..y, 0..x>> \in StrictSubsetOrdering(Nat)
    BY <2>2, <2>3 DEF StrictSubsetOrdering
  <2> QED
    BY <1>2, <1>3, <2>4
<1> QED
  BY <1>4

\* What Min returns.
LEMMA MinIsLeast ==
    ASSUME NEW S \in SUBSET Nat, S # {}
    PROVE  Min(S) \in S /\ \A y \in S : Min(S) <= y
<1>1. \E x \in S : \A y \in S : x <= y
  BY Smallest
<1> QED
  BY <1>1 DEF Min

\* What Max returns, for a set with a bound.
LEMMA MaxIsGreatest ==
    ASSUME NEW S \in SUBSET Nat, S # {}, NEW n \in Nat, \A y \in S : y <= n
    PROVE  Max(S) \in S /\ \A y \in S : y <= Max(S)
<1> DEFINE Bounds == {b \in Nat : \A y \in S : y <= b}
<1>1. PICK m \in Bounds : \A b \in Bounds : m <= b
  <2>1. Bounds \in SUBSET Nat /\ Bounds # {}
    OBVIOUS
  <2> HIDE DEF Bounds
  <2> QED
    BY <2>1, Smallest
<1>2. m \in S
  <2>1. SUFFICES ASSUME m \notin S PROVE FALSE
    OBVIOUS
  <2>2. m \in Nat /\ \A y \in S : y < m
    BY <2>1
  <2>3. PICK y \in S : TRUE
    OBVIOUS
  <2>4. m - 1 \in Bounds
    BY <2>2, <2>3
  <2> QED
    BY <1>1, <2>2, <2>4
<1>3. \E x \in S : \A y \in S : x >= y
  BY <1>1, <1>2
<1>4. Max(S) \in S /\ \A y \in S : Max(S) >= y
  BY <1>3 DEF Max
<1> QED
  BY <1>4

-----------------------------------------------------------------------------
(* The newest members of a set *)

Newer(S, x) == {j \in S : j > x}
Top(S, n)   == {i \in S : Cardinality(Newer(S, i)) < n}

\* There are no more than n of those with fewer than n above them.
LEMMA TopFits ==
    ASSUME NEW S \in SUBSET Nat, IsFiniteSet(S), NEW n \in Nat
    PROVE  Cardinality(Top(S, n)) <= n
<1>0. \A x : /\ Newer(S, x) \subseteq S /\ IsFiniteSet(Newer(S, x))
             /\ Cardinality(Newer(S, x)) \in Nat
  <2>1. \A x : Newer(S, x) \subseteq S
    BY DEF Newer
  <2> QED
    BY <2>1, FS_Subset, FS_CardinalityType
<1>1. CASE Top(S, n) = {}
  BY <1>1, FS_EmptySet
<1>2. CASE Top(S, n) # {}
  <2> DEFINE m == Min(Top(S, n))
  <2>1. Top(S, n) \subseteq S /\ m \in Top(S, n) /\ \A y \in Top(S, n) : m <= y
    <3>1. Top(S, n) \in SUBSET Nat /\ Top(S, n) \subseteq S
      BY DEF Top
    <3> QED
      BY <1>2, <3>1, MinIsLeast
  <2> HIDE DEF m
  <2>2. Top(S, n) \subseteq Newer(S, m) \cup {m}
    <3>1. ASSUME NEW y \in Top(S, n) PROVE y > m \/ y = m
      <4>1. y \in Nat /\ m \in Nat
        BY <2>1
      <4> QED
        BY <2>1, <4>1
    <3> QED
      BY <2>1, <3>1 DEF Newer
  <2>3. Cardinality(Newer(S, m)) < n
    BY <2>1 DEF Top
  <2>4. IsFiniteSet(Newer(S, m) \cup {m}) /\ Cardinality(Newer(S, m) \cup {m}) <= Cardinality(Newer(S, m)) + 1
    <3>1. IsFiniteSet(Newer(S, m)) /\ Cardinality(Newer(S, m)) \in Nat
      BY <1>0
    <3> QED
      BY <3>1, FS_AddElement
  <2>5. /\ Cardinality(Top(S, n)) <= Cardinality(Newer(S, m) \cup {m})
        /\ Cardinality(Top(S, n)) \in Nat /\ Cardinality(Newer(S, m) \cup {m}) \in Nat
    BY <2>2, <2>4, FS_Subset, FS_CardinalityType
  <2> QED
    BY <1>0, <2>3, <2>4, <2>5
<1> QED
  BY <1>1, <1>2

\* Whatever is at least as new as one of the newest is one of them.
LEMMA TopUpward ==
    ASSUME NEW S \in SUBSET Nat, IsFiniteSet(S), NEW n \in Nat,
           NEW i \in Top(S, n), NEW j \in S, i <= j
    PROVE  j \in Top(S, n)
<1>1. i \in S /\ Cardinality(Newer(S, i)) < n
  BY DEF Top
<1>2. Newer(S, j) \subseteq Newer(S, i)
  <2>1. ASSUME NEW k \in S, k > j PROVE k > i
    <3>1. i \in Nat /\ j \in Nat /\ k \in Nat
      BY <1>1
    <3> QED
      BY <2>1, <3>1
  <2> QED
    BY <2>1 DEF Newer
<1>3. Newer(S, i) \subseteq S
  BY DEF Newer
<1>4. /\ Cardinality(Newer(S, j)) <= Cardinality(Newer(S, i))
      /\ Cardinality(Newer(S, j)) \in Nat /\ Cardinality(Newer(S, i)) \in Nat
  BY <1>2, <1>3, FS_Subset, FS_CardinalityType
<1> QED
  BY <1>1, <1>4 DEF Top

-----------------------------------------------------------------------------
(* Ranks *)

Below(S, key, i) == {j \in S : key[j] < key[i]}

\* Ranks by a key that tells the members of a set apart are the numbers from 0 to
\* one less than its size, each taken once.
LEMMA Ranks ==
    ASSUME NEW S, IsFiniteSet(S), NEW key \in [S -> Nat],
           \A i, j \in S : key[i] = key[j] => i = j
    PROVE  /\ Cardinality(S) \in Nat
           /\ \A i \in S : Cardinality(Below(S, key, i)) \in 0..Cardinality(S) - 1
           /\ \A i, j \in S : Cardinality(Below(S, key, i)) = Cardinality(Below(S, key, j))
                               => i = j
           /\ \A p \in 1..Cardinality(S) :
                 \E i \in S : Cardinality(Below(S, key, i)) = p - 1
<1> DEFINE rank(i) == Cardinality(Below(S, key, i))
           n == Cardinality(S)
           f == [i \in S |-> rank(i) + 1]
<1>1. n \in Nat
  BY FS_CardinalityType
<1>2. ASSUME NEW i \in S PROVE IsFiniteSet(Below(S, key, i)) /\ rank(i) \in Nat
  <2>1. Below(S, key, i) \subseteq S
    BY DEF Below
  <2> QED
    BY <2>1, FS_Subset, FS_CardinalityType
<1>3. ASSUME NEW i \in S PROVE rank(i) < n
  <2>1. Below(S, key, i) \subseteq S /\ i \notin Below(S, key, i)
    BY DEF Below
  <2>2. Cardinality(Below(S, key, i)) <= Cardinality(S)
        /\ (Cardinality(S) = Cardinality(Below(S, key, i)) => S = Below(S, key, i))
    BY <2>1, FS_Subset
  <2> QED
    BY <1>1, <1>2, <2>1, <2>2
\* A smaller key has a smaller rank.
<1>4. ASSUME NEW i \in S, NEW j \in S, key[i] < key[j] PROVE rank(i) < rank(j)
  <2>1. Below(S, key, i) \subseteq Below(S, key, j)
    <3>1. ASSUME NEW k \in S, key[k] < key[i] PROVE key[k] < key[j]
      <4>1. key[i] \in Nat /\ key[j] \in Nat /\ key[k] \in Nat
        OBVIOUS
      <4> QED
        BY <1>4, <3>1, <4>1
    <3> QED
      BY <3>1 DEF Below
  <2>2. i \in Below(S, key, j) /\ i \notin Below(S, key, i)
    BY <1>4 DEF Below
  <2>3. IsFiniteSet(Below(S, key, j))
    BY <1>2
  <2>4. /\ Cardinality(Below(S, key, i)) <= Cardinality(Below(S, key, j))
        /\ Cardinality(Below(S, key, j)) = Cardinality(Below(S, key, i))
             => Below(S, key, j) = Below(S, key, i)
    BY <2>1, <2>3, FS_Subset
  <2> QED
    BY <1>2, <2>2, <2>4
<1>5. ASSUME NEW i \in S, NEW j \in S, rank(i) = rank(j) PROVE i = j
  <2> HIDE DEF rank
  <2>1. ~(key[i] < key[j]) /\ ~(key[j] < key[i])
    BY <1>2, <1>4, <1>5
  <2>2. key[i] \in Nat /\ key[j] \in Nat
    OBVIOUS
  <2>3. key[i] = key[j]
    BY <2>1, <2>2
  <2> QED
    BY <2>3
<1>6. ASSUME NEW p \in 1..n PROVE \E i \in S : rank(i) = p - 1
  <2>1. f \in Injection(S, 1..n)
    <3> HIDE DEF rank, n
    <3>1. \A i \in S : rank(i) + 1 \in 1..n
      BY <1>1, <1>2, <1>3
    <3>2. \A i, j \in S : f[i] = f[j] => i = j
      BY <1>2, <1>5
    <3> QED
      BY <3>1, <3>2 DEF Injection, IsInjective
  <2>2. IsFiniteSet(1..n) /\ Cardinality(1..n) = n
    <3> HIDE DEF n
    <3> QED
      BY <1>1, FS_Interval
  <2>3. f \in Surjection(S, 1..n)
    <3> HIDE DEF f
    <3> QED
      BY <2>1, <2>2, FS_Injection
  <2>4. PICK i \in S : f[i] = p
    BY <2>3 DEF Surjection
  <2> HIDE DEF rank
  <2>5. rank(i) + 1 = p
    BY <2>4
  <2> QED
    BY <1>2, <2>5
<1> QED
  BY <1>1, <1>2, <1>3, <1>5, <1>6
=============================================================================
