---------------------------- MODULE SortingTheorems ----------------------------
(***************************************************************************)
(* What sorting some numbers gives, for the percentiles of the status page *)
(* (server/status.go:39-52).  An order of the slots of a buffer exists,    *)
(* and the element at an index of it has the rank that the index says.     *)
(***************************************************************************)
EXTENDS Integers, FiniteSets, FiniteSetTheorems, WellFoundedInduction, TLAPS

\* The least number principle: what induction over the numbers is done with below.
LEMMA LeastNatural ==
  ASSUME NEW S \in SUBSET Nat, S # {}
  PROVE  \E m \in S : \A n \in S : m <= n
<1>1. PICK m \in S : \A n \in S : ~ (<<n, m>> \in OpToRel(<, Nat))
  BY WFMin, NatLessThanWellFounded
<1>2. \A n \in S : ~(n < m)
  BY <1>1 DEF OpToRel
<1> QED
  BY <1>2

\* The order visits the first n slots of buf, none of them twice, by what is in them.
InOrder(order, buf, n) ==
  /\ order \in [1..n -> 0..(n - 1)]
  /\ \A i, j \in 1..n : i < j => order[i] # order[j] /\ buf[order[i]] <= buf[order[j]]

\* An order of the first n slots, with the next slot put before the first one that has
\* more in it, is an order of n + 1.
LEMMA InsertInOrder ==
  ASSUME NEW N \in Nat, NEW buf \in [0..(N - 1) -> Nat], NEW n \in 0..(N - 1),
         NEW order, InOrder(order, buf, n)
  PROVE  \E longer : InOrder(longer, buf, n + 1)
<1> DEFINE Larger == {i \in 1..n : buf[order[i]] > buf[n]} \cup {n + 1}
<1>1. PICK q \in Larger : \A i \in Larger : q <= i
  BY LeastNatural, Larger \subseteq Nat, Larger # {}
<1> DEFINE longer == [i \in 1..(n + 1) |->
                       IF i < q THEN order[i] ELSE IF i = q THEN n ELSE order[i - 1]]
<1>2. q \in 1..(n + 1) /\ order \in [1..n -> 0..(n - 1)] /\ n \in Nat
  BY DEF InOrder
<1>3. longer \in [1..(n + 1) -> 0..n]
  BY <1>2
<1>4. \A i \in 1..n : order[i] \in 0..(N - 1) /\ order[i] # n /\ buf[order[i]] \in Nat
  BY <1>2
<1>5. \A i \in 1..n : i < q => buf[order[i]] <= buf[n]
  BY <1>1, <1>2, <1>4, buf[n] \in Nat
<1>6. \A i \in 1..n : i >= q => buf[n] <= buf[order[i]]
  <2>1. CASE q = n + 1
    BY <2>1
  <2>2. CASE q # n + 1
    <3>1. q \in 1..n /\ buf[order[q]] > buf[n]
      BY <1>2, <2>2
    <3>2. \A i \in 1..n : i > q => buf[order[q]] <= buf[order[i]]
      BY <3>1 DEF InOrder
    <3> QED
      BY <1>4, <3>1, <3>2, buf[n] \in Nat
  <2> QED
    BY <2>1, <2>2
<1>7. ASSUME NEW i \in 1..(n + 1), NEW j \in 1..(n + 1), i < j
      PROVE  longer[i] # longer[j] /\ buf[longer[i]] <= buf[longer[j]]
  <2>1. CASE j < q
    BY <1>2, <1>7, <2>1 DEF InOrder
  <2>2. CASE j = q
    <3>1. longer[j] = n /\ longer[i] = order[i] /\ i \in 1..n
      BY <1>2, <1>7, <2>2
    <3> QED
      BY <1>4, <1>5, <1>7, <2>2, <3>1
  <2>3. CASE j > q
    <3>1. longer[j] = order[j - 1] /\ j - 1 \in 1..n
      BY <1>2, <1>7, <2>3
    <3>2. CASE i = q
      BY <1>2, <1>4, <1>6, <1>7, <2>3, <3>1, <3>2
    <3>3. CASE i < q
      <4>1. longer[i] = order[i] /\ i \in 1..n /\ i < j - 1
        BY <1>2, <1>7, <2>3, <3>3
      <4> QED
        BY <3>1, <4>1 DEF InOrder
    <3>4. CASE i > q
      <4>1. longer[i] = order[i - 1] /\ i - 1 \in 1..n /\ i - 1 < j - 1
        BY <1>2, <1>7, <2>3, <3>4
      <4> QED
        BY <3>1, <4>1 DEF InOrder
    <3> QED
      BY <1>2, <3>2, <3>3, <3>4
  <2> QED
    BY <1>2, <2>1, <2>2, <2>3
<1>8. (n + 1) - 1 = n
  BY <1>2
<1> HIDE DEF longer
<1>9. InOrder(longer, buf, n + 1)
  BY <1>3, <1>7, <1>8 DEF InOrder
<1> QED
  BY <1>9

\* The slots of a buffer of numbers can be put in order.
LEMMA OrderExists ==
  ASSUME NEW N \in Nat, NEW buf \in [0..(N - 1) -> Nat], NEW n \in 0..N
  PROVE  \E order : InOrder(order, buf, n)
<1> DEFINE Without == {m \in 0..N : ~\E order : InOrder(order, buf, m)}
<1> SUFFICES ASSUME Without # {} PROVE FALSE
  OBVIOUS
<1>1. PICK m \in Without : \A k \in Without : m <= k
  BY LeastNatural, Without \subseteq Nat
<1>2. m # 0
  <2>1. InOrder([i \in 1..0 |-> 0], buf, 0)
    BY DEF InOrder
  <2> QED
    BY <2>1
<1>3. m - 1 \in 0..(N - 1) /\ m - 1 \notin Without
  BY <1>1, <1>2
<1>4. PICK order : InOrder(order, buf, m - 1)
  BY <1>3
<1>5. \E longer : InOrder(longer, buf, (m - 1) + 1)
  BY <1>3, <1>4, InsertInOrder
<1> QED
  BY <1>5, (m - 1) + 1 = m

\* What h enumerates is sorted by f.
Ascending(f, h, n) == \A i, j \in 1..n : i < j => f[h[i]] <= f[h[j]]
\* At most r elements of S are below v, and more than r are not above it.
HasRank(v, r, f, S) ==
  /\ Cardinality({x \in S : f[x] < v}) <= r
  /\ Cardinality({x \in S : f[x] <= v}) > r

\* In a sorted enumeration of a set the element at r + 1, counted from one, has rank r.
LEMMA Ranks ==
  ASSUME NEW n \in Nat, NEW S, NEW h \in Bijection(1..n, S), NEW f \in [S -> Nat],
         Ascending(f, h, n), NEW r \in 0..(n - 1)
  PROVE  Cardinality(S) = n /\ HasRank(f[h[r + 1]], r, f, S)
<1> DEFINE v == f[h[r + 1]]
           Below == {x \in S : f[x] < v}
           UpTo == {x \in S : f[x] <= v}
<1>1. /\ h \in [1..n -> S]
      /\ \A x \in S : \E i \in 1..n : h[i] = x
      /\ \A i, j \in 1..n : h[i] = h[j] => i = j
  BY DEF Bijection, Injection, Surjection, IsInjective
<1> USE DEF Ascending
<1>2. IsFiniteSet(S) /\ Cardinality(S) = n
  <2>1. IsFiniteSet(1..n) /\ Cardinality(1..n) = n
    BY FS_Interval
  <2>2. ExistsBijection(1..n, S)
    BY DEF ExistsBijection
  <2> QED
    BY <2>1, <2>2, FS_Bijection
<1>3. Cardinality(Below) <= r
  <2>1. \A x \in Below : \E i \in 1..r : h[i] = x
    <3> SUFFICES ASSUME NEW x \in Below PROVE \E i \in 1..r : h[i] = x
      OBVIOUS
    <3>1. PICK i \in 1..n : h[i] = x
      BY <1>1
    <3>2. ~(r + 1 < i) /\ i # r + 1
      BY <1>1, <3>1
    <3> QED
      BY <3>1, <3>2
  <2> DEFINE g == [x \in Below |-> CHOOSE i \in 1..r : h[i] = x]
  <2>2. g \in [Below -> 1..r] /\ \A x \in Below : h[g[x]] = x
    BY <2>1
  <2>3. g \in Injection(Below, 1..r)
    BY <2>2 DEF Injection, IsInjective
  <2>4. IsFiniteSet(1..r) /\ Cardinality(1..r) = r
    BY FS_Interval
  <2> QED
    BY <2>3, <2>4, FS_Injection
<1>4. Cardinality(UpTo) > r
  <2> DEFINE g == [i \in 1..(r + 1) |-> h[i]]
  <2>1. \A i \in 1..(r + 1) : h[i] \in UpTo
    <3> SUFFICES ASSUME NEW i \in 1..(r + 1) PROVE h[i] \in UpTo
      OBVIOUS
    <3>1. i \in 1..n /\ r + 1 \in 1..n /\ (i < r + 1 \/ i = r + 1)
      OBVIOUS
    <3> QED
      BY <1>1, <3>1
  <2>2. g \in [1..(r + 1) -> UpTo]
    BY <2>1
  <2>3. g \in Injection(1..(r + 1), UpTo)
    BY <1>1, <2>2 DEF Injection, IsInjective
  <2>4. Cardinality(1..(r + 1)) = r + 1
    BY FS_Interval
  <2>5. IsFiniteSet(UpTo) /\ Cardinality(UpTo) \in Nat
    BY <1>2, FS_Subset, FS_CardinalityType
  <2>6. Cardinality(1..(r + 1)) <= Cardinality(UpTo)
    BY <2>3, <2>5, FS_Injection
  <2> QED
    BY <2>4, <2>5, <2>6
<1> QED
  BY <1>2, <1>3, <1>4 DEF HasRank
================================================================================
