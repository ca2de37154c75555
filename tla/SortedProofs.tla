---------------------------- MODULE SortedProofs ----------------------------
(***************************************************************************)
(* A finite set of numbers can be put in order, in one way.                *)
(***************************************************************************)
EXTENDS Sorted, FunctionTheorems, FiniteSetTheorems, TLAPS

\* Each element occurs once, the smaller ones first.
LEMMA InOrderIsSorted ==
    ASSUME NEW n \in Nat, NEW S \in SUBSET (1..n)
    PROVE  /\ Cardinality(S) \in Nat
           /\ InOrder(S) \in [1..Cardinality(S) -> S]
           /\ \A i, j \in 1..Cardinality(S) : i < j => InOrder(S)[i] < InOrder(S)[j]
           /\ \A x \in S : \E i \in 1..Cardinality(S) : InOrder(S)[i] = x
<1>. DEFINE m == Cardinality(S)
            Below(x) == {y \in S : y <= x}
            rank == [x \in S |-> Cardinality(Below(x))]
            f == [k \in 1..m |-> CHOOSE x \in S : rank[x] = k]
<1>0. \A x \in S : x \in Nat
  OBVIOUS
<1>1. IsFiniteSet(S) /\ m \in Nat
  <2>1. IsFiniteSet(1..n)
    BY FS_Interval
  <2>. QED
    BY <2>1, FS_Subset, FS_CardinalityType
<1>2. IsFiniteSet(1..m) /\ Cardinality(1..m) = m
  BY <1>1, FS_Interval
<1>3. \A x \in S : rank[x] \in 1..m
  <2>. SUFFICES ASSUME NEW x \in S PROVE Cardinality(Below(x)) \in 1..m
    OBVIOUS
  <2>1. Below(x) \in SUBSET S /\ x \in Below(x)
    OBVIOUS
  <2>2. IsFiniteSet(Below(x)) /\ Cardinality(Below(x)) \in Nat /\ Cardinality(Below(x)) <= m
    BY <1>1, <2>1, FS_Subset, FS_CardinalityType
  <2>3. Cardinality(Below(x)) # 0
    BY <2>1, <2>2, FS_EmptySet
  <2>. QED
    BY <1>1, <2>2, <2>3
<1>4. \A x, y \in S : x < y => rank[x] < rank[y]
  <2>. SUFFICES ASSUME NEW x \in S, NEW y \in S, x < y PROVE Cardinality(Below(x)) < Cardinality(Below(y))
    OBVIOUS
  <2>1. Below(y) \in SUBSET S /\ y \in Below(y) /\ y \notin Below(x)
    OBVIOUS
  <2>4. Below(x) \in SUBSET Below(y)
    <3>1. \A z \in S : z <= x => z <= y
      <4>1. \A a, b, c \in Nat : a <= b /\ b < c => a <= c
        OBVIOUS
      <4>. QED
        BY <1>0, <4>1
    <3>. QED
      BY <3>1
  <2>2. IsFiniteSet(Below(y)) /\ Cardinality(Below(x)) <= Cardinality(Below(y))
    BY <1>1, <2>1, <2>4, FS_Subset
  <2>3. Cardinality(Below(x)) # Cardinality(Below(y))
    BY <2>1, <2>2, <2>4, FS_Subset
  <2>. QED
    BY <1>3, <2>2, <2>3
<1>5. \A k \in 1..m : \E x \in S : rank[x] = k
  <2>1. rank \in [S -> 1..m] /\ \A x, y \in S : rank[x] = rank[y] => x = y
    BY <1>3, <1>4
  <2>2. rank \in Injection(S, 1..m)
    BY <2>1 DEF Injection, IsInjective
  <2>3. rank \in Surjection(S, 1..m)
    BY <1>1, <1>2, <2>2, FS_Injection
  <2>. QED
    BY <2>3 DEF Surjection
<1>6. f \in [1..m -> S] /\ \A k \in 1..m : rank[f[k]] = k
  BY <1>5
<1>7. \A i, j \in 1..m : i < j => f[i] < f[j]
  <2>. SUFFICES ASSUME NEW i \in 1..m, NEW j \in 1..m, i < j, ~(f[i] < f[j]) PROVE FALSE
    OBVIOUS
  <2>1. f[i] \in S /\ f[j] \in S /\ rank[f[i]] = i /\ rank[f[j]] = j
    BY <1>6
  <2>. HIDE DEF f, rank
  <2>2. f[j] = f[i] \/ f[j] < f[i]
    <3>1. f[i] \in Nat /\ f[j] \in Nat
      BY <1>0, <2>1
    <3>. QED
      BY <3>1
  <2>3. i \in Nat /\ j \in Nat
    BY <1>1
  <2>. QED
    <3>1. f[j] # f[i]
      BY <2>1, <2>3
    <3>2. rank[f[j]] < rank[f[i]]
      BY <1>4, <2>1, <2>2, <3>1
    <3>. QED
      BY <2>1, <2>3, <3>2
<1>8. \E g \in [1..m -> S] : \A i, j \in DOMAIN g : i < j => g[i] < g[j]
  <2>. HIDE DEF f, m
  <2>. QED
    BY <1>6, <1>7
<1>. DEFINE g == InOrder(S)
<1>9. g \in [1..m -> S] /\ \A i, j \in 1..m : i < j => g[i] < g[j]
  BY <1>8 DEF InOrder
<1>10. g \in Injection(1..m, S)
  <2>. HIDE DEF g
  <2>1. \A i, j \in 1..m : g[i] = g[j] => i = j
    <3>. SUFFICES ASSUME NEW i \in 1..m, NEW j \in 1..m, g[i] = g[j], i # j PROVE FALSE
      OBVIOUS
    <3>1. g[i] \in Nat /\ ~(g[i] < g[i])
      <4>1. g[i] \in S
        BY <1>9
      <4>2. g[i] \in Nat
        BY <1>0, <4>1
      <4>. QED
        BY <4>2
    <3>2. i < j \/ j < i
      BY <1>1
    <3>. QED
      BY <1>9, <3>1, <3>2
  <2>. QED
    BY <1>9, <2>1 DEF Injection, IsInjective
<1>11. g \in Surjection(1..m, S)
  <2>. HIDE DEF g
  <2>. QED
    BY <1>1, <1>2, <1>10, FS_Injection
<1>. QED
  BY <1>1, <1>9, <1>11 DEF Surjection
=============================================================================
