----------------------------- MODULE StatusSampler -----------------------------
(***************************************************************************)
(* The status page's numbers (server/status.go).  Handlers of the public   *)
(* API record every tracked request under s.mu, in whatever order they     *)
(* finish; one goroutine samples the storage and the rate and publishes a  *)
(* view that the website's handlers read.                                  *)
(*                                                                         *)
(* A view keeps the numbers and leaves out how they are written.  Uptime   *)
(* and the times of the feed are left out.                                 *)
(***************************************************************************)
EXTENDS Integers, Sequences, FiniteSets

CONSTANTS
  Requests,      \* what the public API is sent
  Statuses,      \* what it answers them, as statusWriter keeps it
  Latencies,     \* how long requests take, as numbers
  LatWindow, FeedSize,
  DiskSizes,     \* what StorageStats can find
  MaxTenants, MaxOps,   \* bounds on the exploration
  None

Methods == {"GET", "PUT", "DELETE", "other"}
Paths   == {"key", "range", "other"}

ASSUME SamplerAssumption ==
  /\ Requests \subseteq [method : Methods, path : Paths]
  /\ Statuses \subseteq 200..599 /\ Latencies \subseteq Nat
  /\ LatWindow \in Nat \ {0} /\ FeedSize \in Nat \ {0}
  /\ 0 \in DiskSizes /\ DiskSizes \subseteq Nat
  /\ MaxTenants \in Nat /\ MaxOps \in Nat

VARIABLES
  writeLat, readLat,           \* the rings of latencies
  totalOps, recentOps, lastOK,
  diskUsed, opsPerSec, lastOpsCnt,
  snapshot,                    \* the published view, or None before the first
  loop, tenants,               \* what the goroutine does next; its count of tenants
  log                          \* history: all records

recorded == <<writeLat, readLat, totalOps, recentOps, lastOK>>
sampled  == <<diskUsed, opsPerSec, lastOpsCnt>>
vars == <<recorded, sampled, snapshot, loop, tenants, log>>

\* What the request is tracked as, or None.
classifyRequest(r) ==
  IF r.path = "key" /\ r.method # "other" THEN r.method
  ELSE IF r.path = "range" /\ r.method = "GET" THEN "RANGE" ELSE None

IsWrite(op) == op \in {"PUT", "DELETE"}

-------------------------------------------------------------------------------
newLatRing == [buf |-> [i \in 0..(LatWindow - 1) |-> 0], next |-> 0, full |-> FALSE]

\* Mutant: the ring is taken for full before its last slot is written.
EarlyFull(next) == next = LatWindow - 1
WrapsAround(next) == next = 0

add(ring, d) ==
  LET next == (ring.next + 1) % LatWindow IN
  [buf  |-> [ring.buf EXCEPT ![ring.next] = d],
   next |-> next,
   full |-> ring.full \/ WrapsAround(next)]

\* The first n slots in the order that sorting a copy of them gives.
Sorted(buf, n) ==
  CHOOSE order \in [1..n -> 0..(n - 1)] :
    \A i, j \in 1..n : i < j => order[i] # order[j] /\ buf[order[i]] <= buf[order[j]]

percentile(ring, p) ==
  LET n == IF ring.full THEN LatWindow ELSE ring.next
      idx == (p * (n - 1)) \div 100
  IN  IF n = 0 THEN None ELSE ring.buf[Sorted(ring.buf, n)[idx + 1]]

Init ==
  /\ writeLat = newLatRing /\ readLat = newLatRing
  /\ totalOps = 0 /\ recentOps = <<>> /\ lastOK = TRUE
  /\ diskUsed = 0 /\ opsPerSec = 0 /\ lastOpsCnt = 0
  /\ snapshot = None
  /\ loop = "health" /\ tenants = 0
  /\ log = <<>>

\* Mutant: the feed drops its newest record for the next.
WithoutNewest(s) == SubSeq(s, 1, Len(s) - 1)
WithoutOldest(s) == Tail(s)

\* Any status of 400 and more is an error, the 404 of a miss or the 429 of one client's
\* tenant included.  Requests that are not tracked are passed on only.
record ==
  \E r \in Requests, d \in Latencies, code \in Statuses :
    LET op == classifyRequest(r)
        ok == code < 400
        rec == [op |-> op, latency |-> d, ok |-> ok]
    IN  /\ op # None /\ totalOps < MaxOps
        /\ IF IsWrite(op)
           THEN writeLat' = add(writeLat, d) /\ UNCHANGED readLat
           ELSE readLat' = add(readLat, d) /\ UNCHANGED writeLat
        /\ totalOps' = totalOps + 1 /\ lastOK' = ok
        /\ recentOps' = IF Len(recentOps) < FeedSize THEN Append(recentOps, rec)
                        ELSE Append(WithoutOldest(recentOps), rec)
        /\ log' = Append(log, rec)
        /\ UNCHANGED <<sampled, snapshot, loop, tenants>>

\* Mutant: a sample that fails ends the tick.
TickEnds == "wait"
StatsFailed == "count"

\* The walk of the data directory, or the question for its file system, can fail.
StorageStats ==
  \/ diskUsed' \in DiskSizes /\ loop' = "count"
  \/ UNCHANGED diskUsed /\ loop' = StatsFailed

\* Samples are seconds apart, so that the rate is always brought up to date; the model
\* keeps the requests it counts and leaves out the division by the time.
sampleHealth ==
  /\ loop = "health"
  /\ StorageStats
  /\ opsPerSec' = totalOps - lastOpsCnt /\ lastOpsCnt' = totalOps
  /\ UNCHANGED <<recorded, snapshot, tenants, log>>

\* The first half of buildView, under man.mu.
TenantCount ==
  /\ loop = "count"
  /\ loop' = "view" /\ tenants' \in 0..MaxTenants
  /\ UNCHANGED <<recorded, sampled, snapshot, log>>

View ==
  [healthy |-> lastOK, tenants |-> tenants, diskUsed |-> diskUsed,
   writeP50 |-> percentile(writeLat, 50), writeP99 |-> percentile(writeLat, 99),
   readP50  |-> percentile(readLat, 50),  readP99  |-> percentile(readLat, 99),
   opsPerSec |-> opsPerSec, totalOps |-> totalOps,
   recentOps |-> [i \in 1..Len(recentOps) |-> recentOps[Len(recentOps) + 1 - i]]]

publish ==
  /\ loop = "view" /\ loop' = "wait"
  /\ snapshot' = View
  /\ UNCHANGED <<recorded, sampled, tenants, log>>

\* The storage is looked at every few ticks.
Tick ==
  /\ loop = "wait"
  /\ loop' \in {"health", "count"}
  /\ UNCHANGED <<recorded, sampled, snapshot, tenants, log>>

loopBody == sampleHealth \/ TenantCount \/ publish \/ Tick

Next == record \/ loopBody

Spec == Init /\ [][Next]_vars
FairSpec == Spec /\ WF_vars(loopBody)

-------------------------------------------------------------------------------
Records == [op : {"GET", "PUT", "DELETE", "RANGE"}, latency : Latencies, ok : BOOLEAN]
Rings == [buf : [0..(LatWindow - 1) -> Latencies \cup {0}], next : 0..(LatWindow - 1),
          full : BOOLEAN]
Views ==
  LET Latency == Latencies \cup {None} IN
  [healthy : BOOLEAN, tenants : 0..MaxTenants, diskUsed : DiskSizes,
   writeP50 : Latency, writeP99 : Latency, readP50 : Latency, readP99 : Latency,
   opsPerSec : Nat, totalOps : Nat, recentOps : Seq(Records)]

\* The feed has the latest records only, oldest first, and never more than it has room for.
TypeOK ==
  /\ writeLat \in Rings /\ readLat \in Rings
  /\ totalOps = Len(log) /\ lastOK \in BOOLEAN
  /\ log \in Seq(Records)
  /\ diskUsed \in DiskSizes /\ opsPerSec \in Nat /\ lastOpsCnt \in 0..totalOps
  /\ snapshot \in Views \cup {None}
  /\ loop \in {"health", "count", "view", "wait"} /\ tenants \in 0..MaxTenants
  /\ Len(recentOps) <= FeedSize
  /\ recentOps = SubSeq(log, Len(log) + 1 - Len(recentOps), Len(log))

\* The latest writes, or the latest reads, of the first requests that were recorded:
\* those that are followed by fewer of their kind than the window has room for.
OfKind(write, upTo) == {i \in 1..upTo : IsWrite(log[i].op) <=> write}
Latest(write, upTo) ==
  {i \in OfKind(write, upTo) :
     Cardinality({j \in OfKind(write, upTo) : j > i}) < LatWindow}

\* What a percentile of some requests is: the latency of one of them, with enough of
\* them as fast or faster, and not too many faster.
IsPercentile(v, p, ops) ==
  IF ops = {} THEN v = None
  ELSE LET idx == (p * (Cardinality(ops) - 1)) \div 100
       IN  /\ \E i \in ops : log[i].latency = v
           /\ Cardinality({i \in ops : log[i].latency < v}) <= idx
           /\ Cardinality({i \in ops : log[i].latency <= v}) > idx

\* A published view is of one moment: its percentiles, its feed, its count and its
\* health are all of the same requests, those recorded first, however many requests
\* finish while it is built, and the rings have wrapped around (server/status.go:31-52,
\* 190-220).
ViewOfOneMoment ==
  snapshot # None =>
    LET ops == snapshot.totalOps
    IN  /\ ops <= Len(log)
        /\ snapshot.healthy = (IF ops = 0 THEN TRUE ELSE log[ops].ok)
        /\ Len(snapshot.recentOps) = IF ops < FeedSize THEN ops ELSE FeedSize
        /\ \A i \in DOMAIN snapshot.recentOps : snapshot.recentOps[i] = log[ops + 1 - i]
        /\ IsPercentile(snapshot.writeP50, 50, Latest(TRUE, ops))
        /\ IsPercentile(snapshot.writeP99, 99, Latest(TRUE, ops))
        /\ IsPercentile(snapshot.readP50, 50, Latest(FALSE, ops))
        /\ IsPercentile(snapshot.readP99, 99, Latest(FALSE, ops))

\* Whatever is recorded is shown in the end.
ShownInTheEnd ==
  \A n \in 1..MaxOps :
    totalOps >= n ~> (snapshot # None /\ snapshot.totalOps >= n)
================================================================================
