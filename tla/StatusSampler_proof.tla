--------------------------- MODULE StatusSampler_proof --------------------------
(***************************************************************************)
(* Proofs about StatusSampler, for any requests, windows and bounds,       *)
(* however records and samples interleave: a published view is of one      *)
(* moment.                                                                 *)
(*                                                                         *)
(* That needs to know what is in a ring.  RingShows says it without the    *)
(* modulus of add: the slot that was written k additions ago holds the     *)
(* latency of the operation of its kind that k others follow.              *)
(***************************************************************************)
EXTENDS StatusSampler, SortingTheorems

\* Sorting visits every slot once, in the order of their contents.
LEMMA SortedSlots ==
  ASSUME NEW N \in Nat, NEW buf \in [0..(N - 1) -> Nat], NEW n \in 0..N
  PROVE  Sorted(buf, n) \in Bijection(1..n, 0..(n - 1)) /\ Ascending(buf, Sorted(buf, n), n)
<1>1. InOrder(Sorted(buf, n), buf, n)
  BY OrderExists DEF InOrder, Sorted
<1> DEFINE s == Sorted(buf, n)
<1> HIDE DEF s
<1>2. s \in Injection(1..n, 0..(n - 1))
  BY <1>1 DEF InOrder, s, Injection, IsInjective
<1>3. /\ IsFiniteSet(0..(n - 1))
      /\ Cardinality(1..n) = n /\ Cardinality(0..(n - 1)) = n
  BY FS_Interval
<1>4. s \in Surjection(1..n, 0..(n - 1))
  BY <1>2, <1>3, FS_Injection
<1> QED
  BY <1>1, <1>2, <1>4 DEF InOrder, s, Bijection, Ascending

\* The slots that have been written; and how many additions ago each of them was.
Valid(ring) == IF ring.full THEN 0..(LatWindow - 1) ELSE 0..(ring.next - 1)
Age(ring, k) ==
  IF k < ring.next THEN ring.next - 1 - k ELSE ring.next - 1 - k + LatWindow

\* The operations of a kind that follow one of them, and those that few enough follow.
Later(K, i) == {j \in K : j > i}
Newest(K) == {i \in K : Cardinality(Later(K, i)) < LatWindow}

\* A ring has the latencies of the newest of the operations K, each in the slot of its age:
\* as many operations of K follow it as were added after it.  An operation that is in no slot
\* has been overwritten, and a window of others follows it.
RingShows(ring, K, ops) ==
  \E at \in [Valid(ring) -> K] :
    /\ \A k \in Valid(ring) : /\ ring.buf[k] = ops[at[k]].latency
                              /\ Cardinality(Later(K, at[k])) = Age(ring, k)
    /\ \A i \in K : \/ \E k \in Valid(ring) : i = at[k]
                    \/ ring.full /\ Cardinality(Later(K, i)) >= LatWindow

\* The next slot without the modulus: the one after, or the first after the last.
LEMMA AddTurns ==
  ASSUME NEW ring \in Rings, NEW d
  PROVE  LET new == add(ring, d)
         IN  /\ new.buf = [ring.buf EXCEPT ![ring.next] = d]
             /\ new.next = IF ring.next = LatWindow - 1 THEN 0 ELSE ring.next + 1
             /\ new.full = (ring.full \/ ring.next = LatWindow - 1)
<1>1. LatWindow \in Nat \ {0} /\ ring.next \in 0..(LatWindow - 1)
  BY SamplerAssumption DEF Rings
<1>2. (ring.next + 1) % LatWindow = IF ring.next = LatWindow - 1 THEN 0 ELSE ring.next + 1
  <2>1. CASE ring.next = LatWindow - 1
    <3>1. ring.next + 1 = LatWindow /\ LatWindow % LatWindow = 0
      BY <1>1, <2>1
    <3> QED
      BY <2>1, <3>1
  <2>2. CASE ring.next # LatWindow - 1
    BY <1>1, <2>2
  <2> QED
    BY <2>1, <2>2
<1> QED
  BY <1>1, <1>2 DEF add, WrapsAround

\* A new operation is one more that follows each of the others.
LEMMA AddOneLater ==
  ASSUME NEW m \in Nat, NEW K \in SUBSET (1..m), NEW i \in K
  PROVE  /\ Cardinality(Later(K, i)) \in Nat
         /\ Cardinality(Later(K \cup {m + 1}, i)) = Cardinality(Later(K, i)) + 1
<1>1. IsFiniteSet(Later(K, i))
  <2>1. IsFiniteSet(1..m)
    BY FS_Interval
  <2>2. Later(K, i) \in SUBSET (1..m)
    BY DEF Later
  <2> QED
    BY <2>1, <2>2, FS_Subset
<1>2. \A j \in K : j \in Int /\ j < m + 1
  OBVIOUS
<1>3. m + 1 \notin Later(K, i) /\ m + 1 > i
  BY <1>2 DEF Later
<1>4. Later(K \cup {m + 1}, i) = Later(K, i) \cup {m + 1}
  BY <1>3 DEF Later
<1> QED
  BY <1>1, <1>3, <1>4, FS_CardinalityType, FS_AddElement

\* Nothing follows the newest operation.
LEMMA NewestIsLast ==
  ASSUME NEW m \in Nat, NEW K \in SUBSET (1..m)
  PROVE  Cardinality(Later(K \cup {m + 1}, m + 1)) = 0
<1>1. \A j \in K \cup {m + 1} : ~(j > m + 1)
  OBVIOUS
<1>2. Later(K \cup {m + 1}, m + 1) = {}
  BY <1>1 DEF Later
<1> QED
  BY <1>2, FS_EmptySet

\* Adding a latency to a ring makes it show the new operation too, and drops the oldest one
\* when the ring is full (server/status.go:31-37).
LEMMA RingRecords ==
  ASSUME NEW ops \in Seq(Records), NEW rec \in Records, NEW K \in SUBSET (1..Len(ops)),
         NEW ring \in Rings, RingShows(ring, K, ops)
  PROVE  RingShows(add(ring, rec.latency), K \cup {Len(ops) + 1}, Append(ops, rec))
<1> DEFINE new == add(ring, rec.latency)
           m == Len(ops)
           K2 == K \cup {m + 1}
           ops2 == Append(ops, rec)
<1>1. /\ LatWindow \in Nat \ {0} /\ ring.next \in 0..(LatWindow - 1) /\ ring.full \in BOOLEAN
      /\ DOMAIN ring.buf = 0..(LatWindow - 1) /\ m \in Nat
  BY SamplerAssumption DEF Rings
<1>2. PICK at \in [Valid(ring) -> K] :
        /\ \A k \in Valid(ring) : /\ ring.buf[k] = ops[at[k]].latency
                                  /\ Cardinality(Later(K, at[k])) = Age(ring, k)
        /\ \A i \in K : \/ \E k \in Valid(ring) : i = at[k]
                        \/ ring.full /\ Cardinality(Later(K, i)) >= LatWindow
  BY DEF RingShows
<1>3. /\ new.buf = [ring.buf EXCEPT ![ring.next] = rec.latency]
      /\ new.next = IF ring.next = LatWindow - 1 THEN 0 ELSE ring.next + 1
      /\ new.full = (ring.full \/ ring.next = LatWindow - 1)
  BY AddTurns
<1>4. Valid(new) = Valid(ring) \cup {ring.next}
  <2>1. CASE ring.next = LatWindow - 1
    <3>1. Valid(new) = 0..ring.next /\ Valid(ring) \in {0..ring.next, 0..(ring.next - 1)}
      BY <1>1, <1>3, <2>1 DEF Valid
    <3> QED
      BY <1>1, <3>1
  <2>2. CASE ring.next # LatWindow - 1 /\ ring.full
    BY <1>1, <1>3, <2>2 DEF Valid
  <2>3. CASE ring.next # LatWindow - 1 /\ ~ring.full
    <3>1. Valid(new) = 0..ring.next /\ Valid(ring) = 0..(ring.next - 1)
      BY <1>1, <1>3, <2>3 DEF Valid
    <3> QED
      BY <1>1, <3>1
  <2> QED
    BY <2>1, <2>2, <2>3
<1>5. /\ Age(new, ring.next) = 0
      /\ \A k \in Valid(ring) : k # ring.next => Age(new, k) = Age(ring, k) + 1
      /\ ring.next \in Valid(ring) => ring.full /\ Age(ring, ring.next) = LatWindow - 1
  <2>1. \A k \in Valid(ring) : k \in 0..(LatWindow - 1) /\ (ring.full \/ k < ring.next)
    BY <1>1 DEF Valid
  <2> DEFINE next2 == new.next
             w == LatWindow
             next == ring.next
  <2>2. /\ w \in Nat \ {0} /\ next \in 0..(w - 1)
        /\ next2 = IF next = w - 1 THEN 0 ELSE next + 1
    BY <1>1, <1>3
  <2> HIDE DEF next2, w, next
  <2>3. \A k \in 0..(w - 1) : k # next =>
          (IF k < next2 THEN next2 - 1 - k ELSE next2 - 1 - k + w)
            = (IF k < next THEN next - 1 - k ELSE next - 1 - k + w) + 1
    BY <2>2
  <2>4. /\ (IF next < next2 THEN next2 - 1 - next ELSE next2 - 1 - next + w) = 0
        /\ next - 1 - next + w = w - 1 /\ ~(next < next)
    BY <2>2
  <2> QED
    BY <2>1, <2>3, <2>4 DEF Age, next2, w, next
<1>6. /\ ops2[m + 1] = rec
      /\ \A i \in K : ops2[i] = ops[i]
  OBVIOUS
<1>7. \A i \in K : /\ Cardinality(Later(K, i)) \in Nat
                   /\ Cardinality(Later(K2, i)) = Cardinality(Later(K, i)) + 1
  BY <1>1, AddOneLater
<1>8. Cardinality(Later(K2, m + 1)) = 0
  BY <1>1, NewestIsLast
<1> DEFINE at2 == [k \in Valid(new) |-> IF k = ring.next THEN m + 1 ELSE at[k]]
<1>9. at2 \in [Valid(new) -> K2]
  BY <1>2, <1>4
<1>10. ASSUME NEW k \in Valid(new)
       PROVE  /\ new.buf[k] = ops2[at2[k]].latency
              /\ Cardinality(Later(K2, at2[k])) = Age(new, k)
  <2>1. CASE k = ring.next
    BY <1>1, <1>3, <1>5, <1>6, <1>8, <2>1
  <2>2. CASE k # ring.next
    <3>1. k \in Valid(ring) /\ at2[k] = at[k] /\ at[k] \in K
      BY <1>4, <2>2
    <3>2. new.buf[k] = ring.buf[k]
      BY <1>1, <1>3, <2>2, <3>1 DEF Valid
    <3> QED
      BY <1>2, <1>5, <1>6, <1>7, <2>2, <3>1, <3>2
  <2> QED
    BY <2>1, <2>2
<1>11. ASSUME NEW i \in K2
       PROVE  \/ \E k \in Valid(new) : i = at2[k]
              \/ new.full /\ Cardinality(Later(K2, i)) >= LatWindow
  <2>1. CASE i = m + 1
    BY <1>4, <2>1
  <2>2. CASE i \in K /\ \E k \in Valid(ring) : i = at[k]
    <3>1. PICK k \in Valid(ring) : i = at[k]
      BY <2>2
    <3>2. CASE k # ring.next
      BY <1>4, <3>1, <3>2
    <3>3. CASE k = ring.next
      <4>1. ring.full /\ Cardinality(Later(K, i)) = LatWindow - 1
        BY <1>2, <1>5, <3>1, <3>3
      <4>2. Cardinality(Later(K2, i)) >= LatWindow
        <5>1. /\ Cardinality(Later(K, i)) = LatWindow - 1
              /\ Cardinality(Later(K2, i)) = Cardinality(Later(K, i)) + 1
          BY <1>7, <2>2, <4>1
        <5> QED
          BY <1>1, <5>1
      <4> QED
        BY <1>3, <4>1, <4>2
    <3> QED
      BY <3>2, <3>3
  <2>3. CASE i \in K /\ ring.full /\ Cardinality(Later(K, i)) >= LatWindow
    <3>1. Cardinality(Later(K2, i)) >= LatWindow
      <4>1. /\ Cardinality(Later(K, i)) \in Nat /\ Cardinality(Later(K, i)) >= LatWindow
            /\ Cardinality(Later(K2, i)) = Cardinality(Later(K, i)) + 1
        BY <1>7, <2>3
      <4> QED
        BY <1>1, <4>1
    <3> QED
      BY <1>3, <2>3, <3>1
  <2> QED
    BY <1>2, <2>1, <2>2, <2>3
<1> HIDE DEF at2, new
<1> QED
  BY <1>9, <1>10, <1>11 DEF RingShows, new

\* An operation of the other kind leaves what a ring shows alone.
LEMMA RingKeeps ==
  ASSUME NEW ops \in Seq(Records), NEW rec \in Records, NEW K \in SUBSET (1..Len(ops)),
         NEW ring, RingShows(ring, K, ops)
  PROVE  RingShows(ring, K, Append(ops, rec))
<1>1. \A i \in K : Append(ops, rec)[i] = ops[i]
  OBVIOUS
<1>2. PICK at \in [Valid(ring) -> K] :
        /\ \A k \in Valid(ring) : /\ ring.buf[k] = ops[at[k]].latency
                                  /\ Cardinality(Later(K, at[k])) = Age(ring, k)
        /\ \A i \in K : \/ \E k \in Valid(ring) : i = at[k]
                        \/ ring.full /\ Cardinality(Later(K, i)) >= LatWindow
  BY DEF RingShows
<1> DEFINE ops2 == Append(ops, rec)
<1> HIDE DEF ops2
<1>3. \A k \in Valid(ring) : at[k] \in K
  BY <1>2
<1>4. \A k \in Valid(ring) : ops2[at[k]] = ops[at[k]]
  BY <1>1, <1>3 DEF ops2
<1>5. \A k \in Valid(ring) : ring.buf[k] = ops2[at[k]].latency
  BY <1>2, <1>4
<1>6. RingShows(ring, K, ops2)
  BY <1>2, <1>5 DEF RingShows
<1> QED
  BY <1>6 DEF ops2

\* The percentile of a ring is that of the newest operations of its kind, whether the ring has
\* wrapped around or not (server/status.go:39-52).
LEMMA RingPercentile ==
  ASSUME log \in Seq(Records), NEW K \in SUBSET (1..Len(log)),
         NEW ring \in Rings, RingShows(ring, K, log), NEW p \in {50, 99}
  PROVE  /\ IsPercentile(percentile(ring, p), p, Newest(K))
         /\ percentile(ring, p) \in Latencies \cup {None}
<1> DEFINE n == IF ring.full THEN LatWindow ELSE ring.next
           latest == {i \in K : Cardinality(Later(K, i)) < LatWindow}
           slot == Sorted(ring.buf, n)
<1>1. /\ LatWindow \in Nat \ {0} /\ ring.next \in 0..(LatWindow - 1) /\ ring.full \in BOOLEAN
      /\ ring.buf \in [0..(LatWindow - 1) -> Nat]
  <2>1. Latencies \cup {0} \subseteq Nat /\ LatWindow \in Nat \ {0}
    BY SamplerAssumption
  <2>2. /\ ring.next \in 0..(LatWindow - 1) /\ ring.full \in BOOLEAN
        /\ ring.buf \in [0..(LatWindow - 1) -> Latencies \cup {0}]
    BY DEF Rings
  <2> QED
    BY <2>1, <2>2
<1>2. PICK at \in [Valid(ring) -> K] :
        /\ \A k \in Valid(ring) : /\ ring.buf[k] = log[at[k]].latency
                                  /\ Cardinality(Later(K, at[k])) = Age(ring, k)
        /\ \A i \in K : \/ \E k \in Valid(ring) : i = at[k]
                        \/ ring.full /\ Cardinality(Later(K, i)) >= LatWindow
  BY DEF RingShows
<1>3. n \in 0..LatWindow /\ Valid(ring) = 0..(n - 1)
  BY <1>1 DEF Valid
<1>4. /\ slot \in Bijection(1..n, 0..(n - 1))
      /\ \A i, j \in 1..n : i < j => ring.buf[slot[i]] <= ring.buf[slot[j]]
  <2> DEFINE buf == ring.buf
  <2> HIDE DEF n, buf
  <2>1. LatWindow \in Nat /\ buf \in [0..(LatWindow - 1) -> Nat] /\ n \in 0..LatWindow
    BY <1>1, <1>3 DEF buf
  <2>2. /\ Sorted(buf, n) \in Bijection(1..n, 0..(n - 1))
        /\ Ascending(buf, Sorted(buf, n), n)
    BY <2>1, SortedSlots
  <2> QED
    BY <2>2 DEF buf, Ascending
<1>5. /\ slot \in [1..n -> 0..(n - 1)]
      /\ \A k \in 0..(n - 1) : \E i \in 1..n : slot[i] = k
      /\ \A i, j \in 1..n : slot[i] = slot[j] => i = j
  BY <1>4 DEF Bijection, Injection, Surjection, IsInjective
<1>6. /\ \A k \in 0..(n - 1) : Age(ring, k) \in 0..(LatWindow - 1)
      /\ \A k, l \in 0..(n - 1) : Age(ring, k) = Age(ring, l) => k = l
  <2>1. \A k \in 0..(n - 1) : k \in 0..(LatWindow - 1) /\ (ring.full \/ k < ring.next)
    BY <1>1
  <2> DEFINE next == ring.next
             w == LatWindow
             m == n
  <2> HIDE DEF next, w, m, n
  <2>2. m \in 0..w /\ w \in Nat /\ next \in 0..(w - 1)
    BY <1>1, <1>3 DEF next, w, m
  <2>3. \A k, l \in 0..(m - 1) :
          (IF k < next THEN next - 1 - k ELSE next - 1 - k + w)
            = (IF l < next THEN next - 1 - l ELSE next - 1 - l + w) => k = l
    BY <2>2
  <2>4. \A k \in 0..(m - 1) :
          (IF k < next THEN next - 1 - k ELSE next - 1 - k + w) \in 0..(w - 1)
    BY <2>2
  <2> QED
    BY <2>3, <2>4 DEF Age, next, w, m
<1>7. \A i \in K : Cardinality(Later(K, i)) \in Nat
  <2>1. Len(log) \in Nat
    OBVIOUS
  <2> QED
    BY <2>1, AddOneLater
<1>8. latest = {at[k] : k \in 0..(n - 1)}
  <2> HIDE DEF n
  <2>1. \A k \in 0..(n - 1) : at[k] \in K /\ Cardinality(Later(K, at[k])) < LatWindow
    <3> SUFFICES ASSUME NEW k \in 0..(n - 1)
                 PROVE  at[k] \in K /\ Cardinality(Later(K, at[k])) < LatWindow
      OBVIOUS
    <3>1. at[k] \in K /\ Cardinality(Later(K, at[k])) = Age(ring, k)
      BY <1>2, <1>3
    <3>2. Age(ring, k) \in 0..(LatWindow - 1)
      BY <1>6
    <3> QED
      BY <1>1, <3>1, <3>2
  <2>2. \A i \in latest : \E k \in 0..(n - 1) : i = at[k]
    <3> SUFFICES ASSUME NEW i \in latest PROVE \E k \in 0..(n - 1) : i = at[k]
      OBVIOUS
    <3>1. i \in K /\ Cardinality(Later(K, i)) < LatWindow /\ Cardinality(Later(K, i)) \in Nat
      BY <1>7
    <3>2. ~(Cardinality(Later(K, i)) >= LatWindow)
      BY <1>1, <3>1
    <3> QED
      BY <1>2, <1>3, <3>1, <3>2
  <2>3. \A k \in 0..(n - 1) : at[k] \in latest
    BY <2>1
  <2> HIDE DEF latest
  <2> QED
    BY <2>2, <2>3
<1> DEFINE h == [i \in 1..n |-> at[slot[i]]]
           f == [i \in latest |-> log[i].latency]
<1> HIDE DEF n, slot, latest
<1>9. h \in Bijection(1..n, latest)
  <2>1. h \in [1..n -> latest]
    BY <1>5, <1>8
  <2>2. \A i, j \in 1..n : h[i] = h[j] => i = j
    BY <1>2, <1>3, <1>5, <1>6
  <2>3. \A x \in latest : \E i \in 1..n : h[i] = x
    BY <1>5, <1>8
  <2> QED
    BY <2>1, <2>2, <2>3 DEF Bijection, Injection, Surjection, IsInjective
<1>10. f \in [latest -> Latencies] /\ f \in [latest -> Nat]
  <2>1. \A i \in latest : log[i] \in Records
    BY DEF latest
  <2>2. \A i \in latest : log[i].latency \in Latencies
    BY <2>1 DEF Records
  <2> QED
    BY <2>2, SamplerAssumption
<1>11. \A i \in 1..n : h[i] \in latest /\ f[h[i]] = ring.buf[slot[i]]
  BY <1>2, <1>3, <1>5, <1>8
<1>12. \A i, j \in 1..n : i < j => f[h[i]] <= f[h[j]]
  BY <1>4, <1>11
<1>13. CASE n = 0
  <2>1. latest = {} /\ percentile(ring, p) = None
    BY <1>8, <1>13 DEF percentile, n
  <2> QED
    BY <2>1 DEF IsPercentile, latest, Newest
<1>14. CASE n # 0
  <2> DEFINE r == (p * (n - 1)) \div 100
  <2>1. r \in 0..(n - 1)
    BY <1>3, <1>14
  <2> HIDE DEF r, h, f
  <2>2. /\ Cardinality(latest) = n
        /\ Cardinality({x \in latest : f[x] < f[h[r + 1]]}) <= r
        /\ Cardinality({x \in latest : f[x] <= f[h[r + 1]]}) > r
    <3>1. n \in Nat /\ f \in [latest -> Nat]
      BY <1>3, <1>10
    <3>2. Ascending(f, h, n)
      BY <1>12 DEF Ascending
    <3>3. Cardinality(latest) = n /\ HasRank(f[h[r + 1]], r, f, latest)
      BY <1>9, <2>1, <3>1, <3>2, Ranks
    <3> QED
      BY <3>3 DEF HasRank
  <2>3. r + 1 \in 1..n
    BY <1>3, <2>1
  <2>4. percentile(ring, p) = f[h[r + 1]]
    BY <1>11, <1>14, <2>3 DEF percentile, n, slot, r
  <2>5. h[r + 1] \in latest
    BY <1>11, <2>3
  <2>6. \A i \in latest : log[i].latency = f[i]
    BY DEF f
  <2>7. /\ {i \in latest : log[i].latency < f[h[r + 1]]} = {x \in latest : f[x] < f[h[r + 1]]}
        /\ {i \in latest : log[i].latency <= f[h[r + 1]]} = {x \in latest : f[x] <= f[h[r + 1]]}
    BY <2>6
  <2>8. latest # {} /\ r = (p * (Cardinality(latest) - 1)) \div 100
    BY <2>2, <2>5 DEF r
  <2>9. IsPercentile(percentile(ring, p), p, latest)
    <3> DEFINE v == f[h[r + 1]]
    <3> HIDE DEF v
    <3>1. /\ \E i \in latest : log[i].latency = v
          /\ Cardinality({i \in latest : log[i].latency < v}) <= r
          /\ Cardinality({i \in latest : log[i].latency <= v}) > r
      BY <2>2, <2>5, <2>6, <2>7 DEF v
    <3>2. IsPercentile(v, p, latest)
      BY <2>8, <3>1 DEF IsPercentile
    <3> QED
      BY <2>4, <3>2 DEF v
  <2> QED
    BY <1>10, <2>4, <2>5, <2>9 DEF latest, Newest
<1> QED
  BY <1>13, <1>14

-------------------------------------------------------------------------------
\* The parts of the inductive invariant.  Each ring shows the operations of its kind.
RingsShow ==
  /\ RingShows(writeLat, OfKind(TRUE, Len(log)), log)
  /\ RingShows(readLat, OfKind(FALSE, Len(log)), log)

\* The feed is the end of the log, as long as there is room; the health is that of its last
\* record.
FeedShows ==
  /\ recentOps \in Seq(Records)
  /\ Len(recentOps) = IF Len(log) < FeedSize THEN Len(log) ELSE FeedSize
  /\ \A i \in 1..Len(recentOps) : recentOps[i] = log[Len(log) - Len(recentOps) + i]
  /\ lastOK = IF Len(log) = 0 THEN TRUE ELSE log[Len(log)].ok

\* Types of what the handlers write and of what the loop does.
RecordedTyped ==
  /\ writeLat \in Rings /\ readLat \in Rings
  /\ totalOps = Len(log) /\ log \in Seq(Records)

SampledTyped ==
  /\ diskUsed \in DiskSizes /\ opsPerSec \in Nat /\ lastOpsCnt \in 0..totalOps
  /\ snapshot \in Views \cup {None}
  /\ loop \in {"health", "count", "view", "wait"} /\ tenants \in 0..MaxTenants

\* What every reachable state satisfies, and every step keeps.
SamplerInv == RecordedTyped /\ SampledTyped /\ RingsShow /\ FeedShows /\ ViewOfOneMoment

\* A ring to which a latency is added is one.
LEMMA AddTyped ==
  ASSUME NEW ring \in Rings, NEW d \in Latencies
  PROVE  add(ring, d) \in Rings
<1>1. LatWindow \in Nat \ {0}
  BY SamplerAssumption
<1>2. /\ ring.next \in 0..(LatWindow - 1) /\ ring.full \in BOOLEAN
      /\ ring.buf \in [0..(LatWindow - 1) -> Latencies \cup {0}]
  BY DEF Rings
<1> DEFINE new == add(ring, d)
<1>3. /\ new.buf = [ring.buf EXCEPT ![ring.next] = d]
      /\ new.next = IF ring.next = LatWindow - 1 THEN 0 ELSE ring.next + 1
      /\ new.full = (ring.full \/ ring.next = LatWindow - 1)
  BY AddTurns
<1>4. new = [buf |-> new.buf, next |-> new.next, full |-> new.full]
  BY DEF add
<1> HIDE DEF new
<1>5. new.buf \in [0..(LatWindow - 1) -> Latencies \cup {0}]
  BY <1>2, <1>3
<1>6. new.next \in 0..(LatWindow - 1) /\ new.full \in BOOLEAN
  BY <1>1, <1>2, <1>3
<1>7. new \in Rings
  BY <1>4, <1>5, <1>6 DEF Rings
<1> QED
  BY <1>7 DEF new

\* A sequence that agrees with the end of another at every place is the end of it.
LEMMA LastRecords ==
  ASSUME NEW lg \in Seq(Records), NEW s \in Seq(Records), Len(s) <= Len(lg),
         \A i \in 1..Len(s) : s[i] = lg[Len(lg) - Len(s) + i]
  PROVE  s = SubSeq(lg, Len(lg) + 1 - Len(s), Len(lg))
<1> DEFINE t == SubSeq(lg, Len(lg) + 1 - Len(s), Len(lg))
<1>1. Len(s) \in Nat /\ Len(lg) \in Nat
  OBVIOUS
<1>2. Len(t) = Len(s) /\ \A i \in 1..Len(t) : t[i] = lg[(Len(lg) + 1 - Len(s)) + i - 1]
  BY <1>1
<1>3. t \in Seq(Records)
  BY <1>1
<1>4. \A i \in 1..Len(s) : t[i] = s[i]
  BY <1>1, <1>2
<1> HIDE DEF t
<1>5. /\ s = [i \in 1..Len(s) |-> s[i]]
      /\ t = [i \in 1..Len(t) |-> t[i]]
  BY <1>3
<1>6. s = t
  BY <1>2, <1>4, <1>5
<1> QED
  BY <1>6 DEF t

\* The feed that the invariant describes by its places is a subsequence of the log.
LEMMA InvTypeOK == SamplerInv => TypeOK
<1> SUFFICES ASSUME SamplerInv PROVE TypeOK
  OBVIOUS
<1>1. log \in Seq(Records) /\ recentOps \in Seq(Records) /\ FeedSize \in Nat
  BY SamplerAssumption DEF SamplerInv, RecordedTyped, FeedShows
<1>2. Len(recentOps) <= Len(log) /\ Len(recentOps) <= FeedSize
  BY <1>1 DEF SamplerInv, FeedShows
<1>3. recentOps = SubSeq(log, Len(log) + 1 - Len(recentOps), Len(log))
  BY <1>1, <1>2, LastRecords DEF SamplerInv, FeedShows
<1>4. lastOK \in BOOLEAN
  <2>1. Len(log) # 0 => log[Len(log)] \in Records
    BY <1>1
  <2> QED
    BY <2>1 DEF SamplerInv, FeedShows, Records
<1> QED
  BY <1>1, <1>2, <1>3, <1>4 DEF TypeOK, SamplerInv, RecordedTyped, SampledTyped

\* Before the first request nothing is shown.
LEMMA SamplerInit == Init => SamplerInv
<1> SUFFICES ASSUME Init PROVE SamplerInv
  OBVIOUS
<1>1. /\ LatWindow \in Nat \ {0} /\ FeedSize \in Nat \ {0} /\ 0 \in DiskSizes
      /\ MaxTenants \in Nat
  BY SamplerAssumption
<1>2. newLatRing \in Rings
  BY <1>1 DEF newLatRing, Rings
<1>3. log = <<>> /\ Len(log) = 0 /\ log \in Seq(Records)
  BY DEF Init
<1>4. \A write \in BOOLEAN : OfKind(write, Len(log)) = {}
  BY <1>3 DEF OfKind
<1>5. Valid(newLatRing) = {}
  BY DEF Valid, newLatRing
<1>6. RingShows(newLatRing, {}, log)
  <2> DEFINE at == [k \in {} |-> 0]
  <2>1. at \in [Valid(newLatRing) -> {}]
    BY <1>5
  <2> QED
    BY <1>5, <2>1 DEF RingShows
<1>7. RecordedTyped
  BY <1>2, <1>3 DEF Init, RecordedTyped
<1>8. SampledTyped
  BY <1>1 DEF Init, SampledTyped
<1>9. RingsShow
  BY <1>4, <1>6 DEF Init, RingsShow
<1>10. FeedShows
  BY <1>1, <1>3 DEF Init, FeedShows
<1> QED
  BY <1>7, <1>8, <1>9, <1>10 DEF Init, SamplerInv, ViewOfOneMoment

\* What a request is tracked as is an operation of a record.
LEMMA TrackedAs ==
  ASSUME NEW r \in Requests, classifyRequest(r) # None
  PROVE  classifyRequest(r) \in {"GET", "PUT", "DELETE", "RANGE"}
<1>1. r.method \in {"GET", "PUT", "DELETE", "other"}
  BY SamplerAssumption DEF Methods
<1> QED
  BY <1>1 DEF classifyRequest

\* A new record joins the operations of its kind, and of its kind only.
LEMMA KindOfNew ==
  ASSUME log \in Seq(Records), NEW rec \in Records, log' = Append(log, rec),
         NEW write \in BOOLEAN
  PROVE  OfKind(write, Len(log))' =
           IF IsWrite(rec.op) <=> write THEN OfKind(write, Len(log)) \cup {Len(log) + 1}
           ELSE OfKind(write, Len(log))
<1>1. /\ Len(log') = Len(log) + 1 /\ Len(log) \in Nat
      /\ \A i \in 1..Len(log) : log'[i] = log[i]
      /\ log'[Len(log) + 1] = rec
  OBVIOUS
<1>2. 1..(Len(log) + 1) = 1..Len(log) \cup {Len(log) + 1}
  BY <1>1
<1> QED
  BY <1>1, <1>2 DEF OfKind

\* A published view does not depend on what is recorded after it.
LEMMA ViewStays ==
  ASSUME SamplerInv, NEW rec \in Records, log' = Append(log, rec), UNCHANGED snapshot
  PROVE  ViewOfOneMoment'
<1> SUFFICES ASSUME snapshot # None PROVE ViewOfOneMoment'
  BY DEF ViewOfOneMoment
<1> DEFINE ops == snapshot.totalOps
<1>1. /\ log \in Seq(Records) /\ Len(log') = Len(log) + 1 /\ Len(log) \in Nat
      /\ \A i \in 1..Len(log) : log'[i] = log[i]
  BY DEF SamplerInv, RecordedTyped
<1>2. snapshot \in Views
  BY DEF SamplerInv, SampledTyped
<1>3. ops \in Nat /\ ops <= Len(log)
  BY <1>2 DEF SamplerInv, ViewOfOneMoment, Views
<1>4. \A write \in BOOLEAN : OfKind(write, ops)' = OfKind(write, ops)
  <2>1. \A write \in BOOLEAN :
          OfKind(write, ops)' = {i \in 1..ops : IsWrite(log'[i].op) <=> write}
    BY DEF OfKind
  <2>2. \A i \in 1..ops : log'[i] = log[i]
    BY <1>1, <1>3
  <2> QED
    BY <2>1, <2>2 DEF OfKind
<1>5. \A write \in BOOLEAN : Latest(write, ops)' = Latest(write, ops)
  BY <1>4 DEF Latest
<1>6. \A write \in BOOLEAN : Latest(write, ops) \subseteq 1..Len(log)
  BY <1>1, <1>3 DEF Latest, OfKind
<1>7. ASSUME NEW v, NEW p, NEW write \in BOOLEAN, IsPercentile(v, p, Latest(write, ops))
      PROVE  IsPercentile(v, p, Latest(write, ops))'
  <2>1. \A i \in Latest(write, ops) : log'[i] = log[i]
    BY <1>1, <1>6
  <2>2. /\ {i \in Latest(write, ops) : log'[i].latency < v}
             = {i \in Latest(write, ops) : log[i].latency < v}
        /\ {i \in Latest(write, ops) : log'[i].latency <= v}
             = {i \in Latest(write, ops) : log[i].latency <= v}
        /\ \A i \in Latest(write, ops) : log'[i].latency = log[i].latency
    BY <2>1
  <2> QED
    BY <1>5, <1>7, <2>2 DEF IsPercentile
<1>8. /\ ops <= Len(log')
      /\ snapshot.healthy = (IF ops = 0 THEN TRUE ELSE log'[ops].ok)
      /\ Len(snapshot.recentOps) = IF ops < FeedSize THEN ops ELSE FeedSize
      /\ \A i \in DOMAIN snapshot.recentOps : snapshot.recentOps[i] = log'[ops + 1 - i]
  <2>1. /\ snapshot.healthy = (IF ops = 0 THEN TRUE ELSE log[ops].ok)
        /\ Len(snapshot.recentOps) = IF ops < FeedSize THEN ops ELSE FeedSize
        /\ \A i \in DOMAIN snapshot.recentOps : snapshot.recentOps[i] = log[ops + 1 - i]
    BY DEF SamplerInv, ViewOfOneMoment
  <2>2. DOMAIN snapshot.recentOps = 1..Len(snapshot.recentOps)
    BY <1>2 DEF Views
  <2>3. \A i \in DOMAIN snapshot.recentOps : ops + 1 - i \in 1..Len(log)
    BY <1>1, <1>3, <2>1, <2>2, SamplerAssumption
  <2>4. ops # 0 => log'[ops] = log[ops]
    BY <1>1, <1>3
  <2>5. \A i \in DOMAIN snapshot.recentOps : log'[ops + 1 - i] = log[ops + 1 - i]
    BY <1>1, <2>3
  <2>6. ops <= Len(log')
    BY <1>1, <1>3
  <2> QED
    BY <2>1, <2>4, <2>5, <2>6
<1>9. /\ IsPercentile(snapshot.writeP50, 50, Latest(TRUE, ops))'
      /\ IsPercentile(snapshot.writeP99, 99, Latest(TRUE, ops))'
      /\ IsPercentile(snapshot.readP50, 50, Latest(FALSE, ops))'
      /\ IsPercentile(snapshot.readP99, 99, Latest(FALSE, ops))'
  BY <1>7 DEF SamplerInv, ViewOfOneMoment
<1> QED
  BY <1>8, <1>9 DEF ViewOfOneMoment

\* record keeps the invariant, whichever ring it writes and however full ring and feed are.
LEMMA RecordStep == SamplerInv /\ record => SamplerInv'
<1> SUFFICES ASSUME SamplerInv, record PROVE SamplerInv'
  OBVIOUS
<1>1. PICK r \in Requests, d \in Latencies, code \in Statuses :
        LET op == classifyRequest(r)
            ok == code < 400
            rec == [op |-> op, latency |-> d, ok |-> ok]
        IN  /\ op # None
            /\ IF IsWrite(op)
               THEN writeLat' = add(writeLat, d) /\ UNCHANGED readLat
               ELSE readLat' = add(readLat, d) /\ UNCHANGED writeLat
            /\ totalOps' = totalOps + 1 /\ lastOK' = ok
            /\ recentOps' = IF Len(recentOps) < FeedSize THEN Append(recentOps, rec)
                            ELSE Append(WithoutOldest(recentOps), rec)
            /\ log' = Append(log, rec)
            /\ UNCHANGED <<sampled, snapshot, loop, tenants>>
  BY DEF record
<1> DEFINE rec == [op |-> classifyRequest(r), latency |-> d, ok |-> code < 400]
<1>2. rec \in Records
  <2>1. classifyRequest(r) \in {"GET", "PUT", "DELETE", "RANGE"}
    BY <1>1, TrackedAs
  <2>2. (code < 400) \in BOOLEAN
    OBVIOUS
  <2> QED
    BY <2>1, <2>2 DEF Records
<1>3. rec.op = classifyRequest(r) /\ rec.latency = d /\ rec.ok = (code < 400)
  OBVIOUS
<1>4. log' = Append(log, rec) /\ log \in Seq(Records) /\ Len(log) \in Nat
  BY <1>1 DEF SamplerInv, RecordedTyped
<1>5. /\ lastOK' = rec.ok
      /\ recentOps' = IF Len(recentOps) < FeedSize THEN Append(recentOps, rec)
                      ELSE Append(WithoutOldest(recentOps), rec)
  BY <1>1, <1>3
<1>6. /\ IsWrite(rec.op) => writeLat' = add(writeLat, rec.latency) /\ UNCHANGED readLat
      /\ ~IsWrite(rec.op) => readLat' = add(readLat, rec.latency) /\ UNCHANGED writeLat
  BY <1>1, <1>3
<1>7. totalOps' = totalOps + 1 /\ UNCHANGED <<sampled, snapshot, loop, tenants>>
  BY <1>1
<1>8. d \in Latencies
  OBVIOUS
<1> HIDE DEF rec
<1>9. RecordedTyped'
  <2>1. writeLat' \in Rings /\ readLat' \in Rings
    BY <1>3, <1>6, <1>8, AddTyped DEF SamplerInv, RecordedTyped
  <2>2. log' \in Seq(Records) /\ Len(log') = Len(log) + 1
    BY <1>2, <1>4
  <2> QED
    BY <1>7, <2>1, <2>2 DEF SamplerInv, RecordedTyped
<1>10. SampledTyped'
  BY <1>4, <1>7 DEF SamplerInv, RecordedTyped, SampledTyped, sampled
<1>11. RingsShow'
  <2> DEFINE writes == OfKind(TRUE, Len(log))
             reads == OfKind(FALSE, Len(log))
  <2>1. writes \in SUBSET (1..Len(log)) /\ reads \in SUBSET (1..Len(log))
    BY DEF OfKind
  <2>2. /\ OfKind(TRUE, Len(log))' =
             IF IsWrite(rec.op) THEN writes \cup {Len(log) + 1} ELSE writes
        /\ OfKind(FALSE, Len(log))' =
             IF IsWrite(rec.op) THEN reads ELSE reads \cup {Len(log) + 1}
    BY <1>2, <1>4, KindOfNew
  <2> HIDE DEF writes, reads
  <2>3. RingShows(writeLat, writes, log) /\ RingShows(readLat, reads, log)
    BY DEF SamplerInv, RingsShow, writes, reads
  <2>4. writeLat \in Rings /\ readLat \in Rings
    BY DEF SamplerInv, RecordedTyped
  <2>5. CASE IsWrite(rec.op)
    <3>1. RingShows(add(writeLat, rec.latency), writes \cup {Len(log) + 1}, log')
      BY <1>2, <1>4, <2>1, <2>3, <2>4, RingRecords
    <3>2. RingShows(readLat, reads, log')
      BY <1>2, <1>4, <2>1, <2>3, RingKeeps
    <3> QED
      BY <1>6, <2>2, <2>5, <3>1, <3>2 DEF RingsShow
  <2>6. CASE ~IsWrite(rec.op)
    <3>1. RingShows(add(readLat, rec.latency), reads \cup {Len(log) + 1}, log')
      BY <1>2, <1>4, <2>1, <2>3, <2>4, RingRecords
    <3>2. RingShows(writeLat, writes, log')
      BY <1>2, <1>4, <2>1, <2>3, RingKeeps
    <3> QED
      BY <1>6, <2>2, <2>6, <3>1, <3>2 DEF RingsShow
  <2> QED
    BY <2>5, <2>6
<1>12. FeedShows'
  <2>1. FeedSize \in Nat \ {0}
    BY SamplerAssumption
  <2>2. /\ recentOps \in Seq(Records)
        /\ Len(recentOps) = IF Len(log) < FeedSize THEN Len(log) ELSE FeedSize
        /\ \A i \in 1..Len(recentOps) : recentOps[i] = log[Len(log) - Len(recentOps) + i]
    BY DEF SamplerInv, FeedShows
  <2>3. /\ Len(log') = Len(log) + 1 /\ log'[Len(log) + 1] = rec
        /\ \A i \in 1..Len(log) : log'[i] = log[i]
    BY <1>2, <1>4
  <2>4. lastOK' = log'[Len(log')].ok /\ Len(log') # 0
    BY <1>4, <1>5, <2>3
  <2>5. CASE Len(recentOps) < FeedSize
    <3>1. recentOps' = Append(recentOps, rec) /\ Len(recentOps) = Len(log)
      BY <1>4, <1>5, <2>1, <2>2, <2>5
    <3>2. /\ recentOps' \in Seq(Records) /\ Len(recentOps') = Len(log) + 1
          /\ recentOps'[Len(log) + 1] = rec
          /\ \A i \in 1..Len(log) : recentOps'[i] = recentOps[i]
      BY <1>2, <2>2, <3>1
    <3>3. \A i \in 1..Len(log) : recentOps[i] = log[i]
      BY <1>4, <2>2, <3>1
    <3>4. \A i \in 1..Len(recentOps') : recentOps'[i] = log'[Len(log') - Len(recentOps') + i]
      BY <1>4, <2>3, <3>2, <3>3
    <3>5. Len(recentOps') = IF Len(log') < FeedSize THEN Len(log') ELSE FeedSize
      BY <1>4, <2>1, <2>3, <2>5, <3>1, <3>2
    <3> QED
      BY <2>4, <3>2, <3>4, <3>5 DEF FeedShows
  <2>6. CASE ~(Len(recentOps) < FeedSize)
    <3>1. /\ recentOps' = Append(Tail(recentOps), rec)
          /\ Len(recentOps) = FeedSize /\ FeedSize <= Len(log)
      BY <1>4, <1>5, <2>1, <2>2, <2>6 DEF WithoutOldest
    <3>2. /\ Tail(recentOps) \in Seq(Records) /\ Len(Tail(recentOps)) = FeedSize - 1
          /\ \A i \in 1..(FeedSize - 1) : Tail(recentOps)[i] = recentOps[i + 1]
      BY <2>1, <2>2, <3>1
    <3>3. /\ recentOps' \in Seq(Records) /\ Len(recentOps') = FeedSize
          /\ recentOps'[FeedSize] = rec
          /\ \A i \in 1..(FeedSize - 1) : recentOps'[i] = recentOps[i + 1]
      BY <1>2, <2>1, <3>1, <3>2
    <3>4. \A i \in 1..(FeedSize - 1) : recentOps'[i] = log'[Len(log') - FeedSize + i]
      <4> SUFFICES ASSUME NEW i \in 1..(FeedSize - 1)
                   PROVE  recentOps'[i] = log'[Len(log') - FeedSize + i]
        OBVIOUS
      <4>1. recentOps'[i] = log[Len(log) - FeedSize + (i + 1)]
        <5>1. recentOps'[i] = recentOps[i + 1] /\ i + 1 \in 1..FeedSize
          BY <2>1, <3>3
        <5> QED
          BY <2>2, <3>1, <5>1
      <4>2. Len(log) - FeedSize + (i + 1) \in 1..Len(log)
        BY <1>4, <2>1, <3>1
      <4>3. Len(log) - FeedSize + (i + 1) = Len(log') - FeedSize + i
        BY <1>4, <2>1, <2>3
      <4> QED
        BY <2>3, <4>1, <4>2, <4>3
    <3>5. \A i \in 1..Len(recentOps') : recentOps'[i] = log'[Len(log') - Len(recentOps') + i]
      <4>1. recentOps'[FeedSize] = log'[Len(log')]
        BY <2>3, <3>3
      <4>2. Len(log') - FeedSize + FeedSize = Len(log')
        BY <1>4, <2>1, <2>3
      <4>3. \A i \in 1..FeedSize : i = FeedSize \/ i \in 1..(FeedSize - 1)
        BY <2>1
      <4> QED
        BY <3>3, <3>4, <4>1, <4>2, <4>3
    <3>6. Len(recentOps') = IF Len(log') < FeedSize THEN Len(log') ELSE FeedSize
      BY <1>4, <2>1, <2>3, <3>1, <3>3
    <3> QED
      BY <2>4, <3>3, <3>5, <3>6 DEF FeedShows
  <2> QED
    BY <2>5, <2>6
<1>13. ViewOfOneMoment'
  BY <1>2, <1>4, <1>7, ViewStays
<1> QED
  BY <1>9, <1>10, <1>11, <1>12, <1>13 DEF SamplerInv

\* What only the handlers write is left alone by every step of the loop.
LEMMA RecordedStays ==
  ASSUME UNCHANGED <<recorded, log>>
  PROVE  /\ RecordedTyped => RecordedTyped'
         /\ RingsShow => RingsShow'
         /\ FeedShows => FeedShows'
<1>1. \A write \in BOOLEAN : OfKind(write, Len(log))' = OfKind(write, Len(log))
  BY DEF OfKind
<1>2. RingsShow => RingsShow'
  BY <1>1 DEF RingsShow, recorded
<1> QED
  BY <1>2 DEF RecordedTyped, FeedShows, recorded

\* A percentile of operations in the log stays one while the log does.
LEMMA PercentileStays ==
  ASSUME UNCHANGED log, NEW v, NEW p, NEW write, NEW ops, IsPercentile(v, p, Latest(write, ops))
  PROVE  IsPercentile(v, p, Latest(write, ops))'
<1>1. Latest(write, ops)' = Latest(write, ops)
  BY DEF Latest, OfKind
<1> QED
  BY <1>1 DEF IsPercentile

\* publish makes a view of the invariant's parts, which all speak of the log as it is.
LEMMA PublishStep == SamplerInv /\ publish => SamplerInv'
<1> SUFFICES ASSUME SamplerInv, publish PROVE SamplerInv'
  OBVIOUS
<1>1. snapshot' = View /\ loop' = "wait" /\ UNCHANGED <<recorded, sampled, tenants, log>>
  BY DEF publish
<1>2. RecordedTyped' /\ RingsShow' /\ FeedShows'
  BY <1>1, RecordedStays DEF SamplerInv
<1>3. /\ log \in Seq(Records) /\ Len(log) \in Nat /\ totalOps = Len(log)
      /\ writeLat \in Rings /\ readLat \in Rings
  BY DEF SamplerInv, RecordedTyped
<1>4. \A write \in BOOLEAN :
        /\ OfKind(write, Len(log)) \in SUBSET (1..Len(log))
        /\ Latest(write, Len(log)) = Newest(OfKind(write, Len(log)))
  BY DEF OfKind, Latest, Later, Newest
<1>5. ASSUME NEW p \in {50, 99}
      PROVE  /\ IsPercentile(percentile(writeLat, p), p, Latest(TRUE, Len(log)))
             /\ IsPercentile(percentile(readLat, p), p, Latest(FALSE, Len(log)))
             /\ percentile(writeLat, p) \in Latencies \cup {None}
             /\ percentile(readLat, p) \in Latencies \cup {None}
  <2> DEFINE writes == OfKind(TRUE, Len(log))
             reads == OfKind(FALSE, Len(log))
  <2>1. RingShows(writeLat, writes, log) /\ RingShows(readLat, reads, log)
    BY DEF SamplerInv, RingsShow
  <2>2. /\ writes \in SUBSET (1..Len(log)) /\ reads \in SUBSET (1..Len(log))
        /\ Latest(TRUE, Len(log)) = Newest(writes)
        /\ Latest(FALSE, Len(log)) = Newest(reads)
    BY <1>4
  <2> HIDE DEF writes, reads
  <2>3. /\ IsPercentile(percentile(writeLat, p), p, Latest(TRUE, Len(log)))
        /\ percentile(writeLat, p) \in Latencies \cup {None}
    <3>1. /\ IsPercentile(percentile(writeLat, p), p, Newest(writes))
          /\ percentile(writeLat, p) \in Latencies \cup {None}
      BY <1>3, <2>1, <2>2, RingPercentile
    <3> QED
      BY <2>2, <3>1
  <2>4. /\ IsPercentile(percentile(readLat, p), p, Latest(FALSE, Len(log)))
        /\ percentile(readLat, p) \in Latencies \cup {None}
    <3>1. /\ IsPercentile(percentile(readLat, p), p, Newest(reads))
          /\ percentile(readLat, p) \in Latencies \cup {None}
      BY <1>3, <2>1, <2>2, RingPercentile
    <3> QED
      BY <2>2, <3>1
  <2> QED
    BY <2>3, <2>4
<1>6. /\ recentOps \in Seq(Records)
      /\ Len(recentOps) = IF Len(log) < FeedSize THEN Len(log) ELSE FeedSize
      /\ \A i \in 1..Len(recentOps) : recentOps[i] = log[Len(log) - Len(recentOps) + i]
      /\ lastOK = IF Len(log) = 0 THEN TRUE ELSE log[Len(log)].ok
      /\ lastOK \in BOOLEAN
  BY InvTypeOK DEF SamplerInv, FeedShows, TypeOK
<1> DEFINE feed == [i \in 1..Len(recentOps) |-> recentOps[Len(recentOps) + 1 - i]]
<1>7. /\ feed \in Seq(Records) /\ Len(feed) = Len(recentOps)
      /\ \A i \in DOMAIN feed : feed[i] = log[Len(log) + 1 - i]
  <2>1. Len(recentOps) \in Nat /\ Len(recentOps) <= Len(log)
    BY <1>3, <1>6
  <2>2. \A i \in 1..Len(recentOps) :
          /\ Len(recentOps) + 1 - i \in 1..Len(recentOps)
          /\ Len(log) - Len(recentOps) + (Len(recentOps) + 1 - i) = Len(log) + 1 - i
    BY <1>3, <2>1
  <2>3. \A i \in 1..Len(recentOps) : recentOps[Len(recentOps) + 1 - i] \in Records
    BY <1>6, <2>2
  <2>4. \A i \in 1..Len(recentOps) : recentOps[Len(recentOps) + 1 - i] = log[Len(log) + 1 - i]
    BY <1>6, <2>2
  <2>5. feed \in Seq(Records) /\ Len(feed) = Len(recentOps) /\ DOMAIN feed = 1..Len(recentOps)
    BY <2>1, <2>3
  <2> QED
    BY <2>4, <2>5
<1> HIDE DEF feed
<1>8. View \in Views
  <2>1. View.recentOps = feed
    BY DEF View, feed
  <2> QED
    BY <1>3, <1>5, <1>6, <1>7 DEF SamplerInv, SampledTyped, View, Views, feed
<1>9. SampledTyped'
  BY <1>1, <1>3, <1>8 DEF SamplerInv, SampledTyped, sampled, recorded
<1>10. ViewOfOneMoment'
  <2>1. /\ snapshot'.totalOps = Len(log) /\ snapshot'.recentOps = feed
        /\ snapshot'.healthy = lastOK
        /\ snapshot'.writeP50 = percentile(writeLat, 50)
        /\ snapshot'.writeP99 = percentile(writeLat, 99)
        /\ snapshot'.readP50 = percentile(readLat, 50)
        /\ snapshot'.readP99 = percentile(readLat, 99)
    BY <1>1, <1>3 DEF View, feed
  <2>2. log' = log
    BY <1>1
  <2>3. /\ IsPercentile(snapshot.writeP50, 50, Latest(TRUE, snapshot.totalOps))'
        /\ IsPercentile(snapshot.writeP99, 99, Latest(TRUE, snapshot.totalOps))'
        /\ IsPercentile(snapshot.readP50, 50, Latest(FALSE, snapshot.totalOps))'
        /\ IsPercentile(snapshot.readP99, 99, Latest(FALSE, snapshot.totalOps))'
    <3>1. \A p \in {50, 99} :
            /\ IsPercentile(percentile(writeLat, p), p, Latest(TRUE, Len(log)))'
            /\ IsPercentile(percentile(readLat, p), p, Latest(FALSE, Len(log)))'
      BY <1>1, <1>5, PercentileStays DEF recorded
    <3>2. snapshot'.totalOps = Len(log') /\ UNCHANGED <<writeLat, readLat>>
      BY <1>1, <2>1, <2>2 DEF recorded
    <3> QED
      BY <2>1, <3>1, <3>2
  <2>4. /\ snapshot'.totalOps <= Len(log')
        /\ snapshot'.healthy =
             (IF snapshot'.totalOps = 0 THEN TRUE ELSE log'[snapshot'.totalOps].ok)
        /\ Len(snapshot'.recentOps) =
             IF snapshot'.totalOps < FeedSize THEN snapshot'.totalOps ELSE FeedSize
        /\ \A i \in DOMAIN snapshot'.recentOps :
             snapshot'.recentOps[i] = log'[snapshot'.totalOps + 1 - i]
    BY <1>3, <1>6, <1>7, <2>1, <2>2
  <2> QED
    BY <2>3, <2>4 DEF ViewOfOneMoment
<1> QED
  BY <1>2, <1>9, <1>10 DEF SamplerInv

\* Every step keeps the invariant.
LEMMA SamplerStep == SamplerInv /\ [Next]_vars => SamplerInv'
<1> SUFFICES ASSUME SamplerInv, [Next]_vars PROVE SamplerInv'
  OBVIOUS
<1>1. ASSUME UNCHANGED <<recorded, snapshot, log>>
      PROVE  RecordedTyped' /\ RingsShow' /\ FeedShows' /\ ViewOfOneMoment'
  <2>1. RecordedTyped' /\ RingsShow' /\ FeedShows'
    BY <1>1, RecordedStays DEF SamplerInv
  <2>2. snapshot # None =>
          /\ IsPercentile(snapshot.writeP50, 50, Latest(TRUE, snapshot.totalOps))'
          /\ IsPercentile(snapshot.writeP99, 99, Latest(TRUE, snapshot.totalOps))'
          /\ IsPercentile(snapshot.readP50, 50, Latest(FALSE, snapshot.totalOps))'
          /\ IsPercentile(snapshot.readP99, 99, Latest(FALSE, snapshot.totalOps))'
    BY <1>1, PercentileStays DEF SamplerInv, ViewOfOneMoment
  <2>3. ViewOfOneMoment'
    BY <1>1, <2>2 DEF SamplerInv, ViewOfOneMoment
  <2> QED
    BY <2>1, <2>3
<1>2. CASE record
  BY <1>2, RecordStep
<1>3. CASE publish
  BY <1>3, PublishStep
<1>4. CASE sampleHealth
  <2>1. diskUsed' \in DiskSizes /\ loop' \in {"health", "count", "view", "wait"}
    BY <1>4 DEF sampleHealth, StorageStats, StatsFailed, SamplerInv, SampledTyped
  <2>2. opsPerSec' \in Nat /\ lastOpsCnt' \in 0..totalOps
    <3>1. totalOps \in Nat /\ lastOpsCnt \in 0..totalOps /\ opsPerSec \in Nat
      BY DEF SamplerInv, RecordedTyped, SampledTyped
    <3> QED
      BY <1>4, <3>1 DEF sampleHealth, recorded
  <2>3. UNCHANGED <<recorded, snapshot, log, tenants>>
    BY <1>4 DEF sampleHealth
  <2>4. SampledTyped'
    BY <2>1, <2>2, <2>3 DEF SamplerInv, SampledTyped, recorded
  <2> QED
    BY <1>1, <2>3, <2>4 DEF SamplerInv
<1>5. CASE TenantCount \/ Tick \/ UNCHANGED vars
  <2>1. UNCHANGED <<recorded, sampled, snapshot, log>>
    BY <1>5 DEF TenantCount, Tick, vars
  <2>2. loop' \in {"health", "count", "view", "wait"} /\ tenants' \in 0..MaxTenants
    BY <1>5 DEF TenantCount, Tick, vars, SamplerInv, SampledTyped
  <2>3. SampledTyped'
    BY <2>1, <2>2 DEF SamplerInv, SampledTyped, sampled, recorded
  <2> QED
    BY <1>1, <2>1, <2>3 DEF SamplerInv
<1> QED
  BY <1>2, <1>3, <1>4, <1>5 DEF Next, loopBody

\* The rings, the feed, the counters and the published view keep their types; the feed has
\* the latest records and never too many (server/status.go:84-100, 140-172).
THEOREM TypeCorrect == Spec => []TypeOK
  BY SamplerInit, SamplerStep, InvTypeOK, PTL DEF Spec

\* Every published view is of one moment: percentiles, feed, count and health are of the same
\* first requests, however many more finish while it is built or after
\* (server/status.go:31-52, 190-220).
THEOREM ViewsConsistent == Spec => []ViewOfOneMoment
<1>1. SamplerInv => ViewOfOneMoment
  BY DEF SamplerInv
<1> QED
  BY SamplerInit, SamplerStep, <1>1, PTL DEF Spec
================================================================================
