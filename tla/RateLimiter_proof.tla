---------------------------- MODULE RateLimiter_proof ---------------------------
(***************************************************************************)
(* Proofs about RateLimiter, for any handlers, configurations, lengths and *)
(* bounds.                                                                 *)
(***************************************************************************)
EXTENDS RateLimiter, FiniteSetTheorems, TLAPS

USE DEF At, Goto, Finish, vars

LEMMA Products ==
  ASSUME NEW x \in Nat, NEW y \in Nat, NEW z \in Nat
  PROVE  /\ x * y \in Nat
         /\ x <= z => x * y <= z * y
         /\ (x + 1) * y = x * y + y
         /\ y * x + y * z = y * (x + z)
         /\ x * y = y * x
  OBVIOUS

LEMMA RequestCost ==
  ASSUME NEW c \in Config, NEW r \in Requests
  PROVE  Cost(c, r) \in Nat
<1>1. c.flat \in Nat /\ c.write \in Nat
  BY DEF Config, Fields
<1>2. CASE r.op = "put"
  <2>1. r.len \in Nat
    BY <1>2, RateLimiterAssumption DEF Requests
  <2> QED
    BY <1>1, <1>2, <2>1, Products DEF Cost, PutCost
<1>3. CASE r.op # "put"
  BY <1>1, <1>3 DEF Cost, FlatCost
<1> QED
  BY <1>2, <1>3

LEMMA AnswerCost ==
  ASSUME NEW c \in Config, NEW n \in AnswerLengths
  PROVE  ReadCost(c, n) \in Nat /\ ReadCost(c, n) <= AnswerBound * c.read
<1>1. c.read \in Nat /\ n \in Nat /\ AnswerBound \in Nat /\ n <= AnswerBound
  BY RateLimiterAssumption DEF Config, Fields
<1> QED
  BY <1>1, Products DEF ReadCost

\* What an override makes of the server's configuration is a configuration.
LEMMA OverrideType ==
  ASSUME NEW o \in Overrides
  PROVE  applyRateLimitOverride(Default, o) \in Config
<1>1. PICK F \in SUBSET Fields : o \in [F -> Nat]
  BY RateLimiterAssumption
<1> QED
  BY <1>1, RateLimiterAssumption DEF applyRateLimitOverride, Config

\* A refill brings a bucket up to now and adds what the time since is worth, at most.
LEMMA Refill ==
  ASSUME NEW b \in BucketType, clock \in Nat, b.last <= clock, b.tokens <= b.capacity
  PROVE  /\ refill(b) \in BucketType
         /\ refill(b).last = clock
         /\ refill(b).capacity = b.capacity /\ refill(b).refillPerSec = b.refillPerSec
         /\ b.tokens <= refill(b).tokens /\ refill(b).tokens <= b.capacity
         /\ refill(b).tokens <= b.tokens + b.refillPerSec * (clock - b.last)
<1> DEFINE gain == (clock - b.last) * b.refillPerSec
<1>1. gain \in Nat /\ gain = b.refillPerSec * (clock - b.last)
  BY Products DEF BucketType
<1>2. AtMost(b.capacity, b.tokens + gain) \in Int
        /\ AtMost(b.capacity, b.tokens + gain) <= b.capacity
        /\ AtMost(b.capacity, b.tokens + gain) <= b.tokens + gain
        /\ b.tokens <= AtMost(b.capacity, b.tokens + gain)
  BY <1>1 DEF AtMost, BucketType
<1> HIDE DEF gain
<1>3. refill(b) = [b EXCEPT !.tokens = AtMost(b.capacity, b.tokens + gain), !.last = clock]
  BY DEF refill, RefillTime, gain
<1> QED
  BY <1>1, <1>2, <1>3 DEF BucketType

-------------------------------------------------------------------------------
(* The ledger: the times and the contents of every bucket made so far.      *)

Dated(i) ==
  LET b == bucket[i] IN
  /\ made[i].at <= b.last /\ b.last <= clock
  /\ b.capacity = made[i].config.capacity /\ b.refillPerSec = made[i].config.refill

Ledger ==
  /\ clock \in Nat /\ current \in Buckets /\ rateLimit \in Config
  /\ bucket \in [Buckets -> BucketType]
  /\ \A i \in Buckets : bucket[i].tokens <= bucket[i].capacity
  /\ made   \in [Buckets -> [config : Config, at : Nat]]
  /\ spent  \in [Buckets -> Nat]
  /\ \A i \in 0..current : Dated(i)
  /\ \A i \in (current + 1)..MaxBuckets : spent[i] = 0
  /\ NoFreeTokens
  /\ made[current].config = rateLimit

\* A handler under way holds a bucket and the configuration it was made with.
Requesting ==
  /\ pc  \in [Handlers -> {"idle", "consume", "read", "limited"}]
  /\ req \in [Handlers -> [request : Requests, bucket : Buckets, rl : Config]]
  /\ \A h \in Handlers : pc[h] # "idle" =>
       /\ req[h].bucket \in 0..current
       /\ req[h].rl = made[req[h].bucket].config

Drawn(g, cost) ==
  /\ bucket' = [bucket EXCEPT ![g] = [refill(bucket[g]) EXCEPT !.tokens = @ - cost]]
  /\ spent'  = [spent EXCEPT ![g] = @ + cost]
  /\ UNCHANGED <<clock, current, rateLimit, made>>

\* What is drawn was in the bucket or becomes its debt.
LEMMA DrawStep ==
  ASSUME Ledger, NEW g \in 0..current, NEW cost \in Nat, Drawn(g, cost)
  PROVE  /\ Ledger'
         /\ bucket'[g].tokens = refill(bucket[g]).tokens - cost
         /\ \A i \in Buckets \ {g} : bucket'[i] = bucket[i]
<1> DEFINE b == bucket[g]
<1> DEFINE r == refill(b)
<1>1. g \in Buckets /\ MaxBuckets \in Nat
  BY RateLimiterAssumption DEF Ledger, Buckets
<1>2. b \in BucketType /\ made[g].at \in Nat /\ spent[g] \in Nat
        /\ made[g].at <= b.last /\ b.last <= clock /\ b.tokens <= b.capacity
  BY <1>1 DEF Ledger, Dated
<1>3. /\ r \in BucketType /\ r.last = clock
      /\ r.capacity = b.capacity /\ r.refillPerSec = b.refillPerSec
      /\ b.tokens <= r.tokens /\ r.tokens <= b.capacity
      /\ r.tokens <= b.tokens + b.refillPerSec * (clock - b.last)
  BY <1>2, Refill DEF Ledger
<1> HIDE DEF r
<1>4. /\ bucket'[g] = [r EXCEPT !.tokens = @ - cost] /\ spent'[g] = spent[g] + cost
      /\ bucket' \in [Buckets -> BucketType] /\ spent' \in [Buckets -> Nat]
      /\ \A i \in Buckets \ {g} : bucket'[i] = bucket[i] /\ spent'[i] = spent[i]
  <2>1. [r EXCEPT !.tokens = @ - cost] \in BucketType
    BY <1>3 DEF BucketType
  <2>2. bucket' = [bucket EXCEPT ![g] = [r EXCEPT !.tokens = @ - cost]]
    BY DEF Drawn, r
  <2>3. bucket \in [Buckets -> BucketType] /\ spent \in [Buckets -> Nat]
    BY DEF Ledger
  <2>4. spent' = [spent EXCEPT ![g] = @ + cost] /\ spent[g] + cost \in Nat
    BY <1>2 DEF Drawn
  <2> HIDE DEF b
  <2> QED
    BY <1>1, <2>1, <2>2, <2>3, <2>4
<1>5. /\ bucket'[g].tokens = r.tokens - cost /\ bucket'[g].last = clock
      /\ bucket'[g].capacity = b.capacity /\ bucket'[g].refillPerSec = b.refillPerSec
  BY <1>3, <1>4 DEF BucketType
<1>6. bucket'[g].tokens + spent'[g]
        <= b.capacity + b.refillPerSec * (clock - made[g].at)
  <2>1. b.tokens + spent[g] <= b.capacity + b.refillPerSec * (b.last - made[g].at)
    BY DEF Ledger, NoFreeTokens
  <2>2. b.refillPerSec * (clock - b.last) + b.refillPerSec * (b.last - made[g].at)
          = b.refillPerSec * (clock - made[g].at)
        /\ b.refillPerSec * (clock - b.last) \in Nat
        /\ b.refillPerSec * (b.last - made[g].at) \in Nat
    <3>1. clock - b.last \in Nat /\ b.last - made[g].at \in Nat /\ b.refillPerSec \in Nat
      BY <1>2 DEF BucketType, Ledger
    <3>2. (clock - b.last) + (b.last - made[g].at) = clock - made[g].at
      BY <1>2 DEF BucketType, Ledger
    <3> QED
      BY <3>1, <3>2, Products
  <2> QED
    BY <1>2, <1>3, <1>4, <1>5, <2>1, <2>2 DEF BucketType
<1>7. NoFreeTokens'
  BY <1>1, <1>4, <1>5, <1>6 DEF NoFreeTokens, Ledger, Drawn, Buckets
<1>8. \A i \in 0..current' : Dated(i)'
  <2> SUFFICES ASSUME NEW i \in 0..current PROVE Dated(i)'
    BY DEF Drawn
  <2>1. Dated(i) /\ i \in Buckets
    BY <1>1 DEF Ledger, Buckets
  <2>2. CASE i = g
    <3>1. made'[g] = made[g] /\ clock' = clock
      BY DEF Drawn
    <3>2. made[g].config.capacity = b.capacity /\ made[g].config.refill = b.refillPerSec
      BY <2>1, <2>2 DEF Dated
    <3>3. clock \in Nat /\ made[g].at <= clock
      BY <1>2 DEF BucketType, Ledger
    <3> QED
      BY <1>5, <2>2, <3>1, <3>2, <3>3 DEF Dated
  <2>3. CASE i # g
    BY <1>4, <2>1, <2>3 DEF Dated, Drawn
  <2> QED
    BY <2>2, <2>3
<1>9. \A i \in Buckets : bucket'[i].tokens <= bucket'[i].capacity
  BY <1>1, <1>2, <1>3, <1>4, <1>5 DEF Ledger, BucketType
<1>10. \A i \in (current' + 1)..MaxBuckets : spent'[i] = 0
  BY <1>1, <1>4 DEF Ledger, Drawn, Buckets
<1> QED
  BY <1>1, <1>4, <1>5, <1>7, <1>8, <1>9, <1>10 DEF Ledger, Drawn, r

\* A refusal draws nothing.
LEMMA RefusalDraws ==
  ASSUME Ledger, NEW g \in 0..current,
         bucket' = [bucket EXCEPT ![g] = refill(bucket[g])],
         UNCHANGED <<spent, clock, current, rateLimit, made>>
  PROVE  Drawn(g, 0)
<1>1. g \in Buckets /\ bucket[g] \in BucketType /\ spent[g] \in Nat
        /\ bucket[g].last <= clock /\ bucket[g].tokens <= bucket[g].capacity /\ clock \in Nat
  BY RateLimiterAssumption DEF Ledger, Buckets, Dated
<1>2. refill(bucket[g]) \in BucketType
  BY <1>1, Refill
<1> DEFINE r == refill(bucket[g])
<1>3. [r EXCEPT !.tokens = @ - 0] = r
  <2> HIDE DEF r
  <2>1. r \in BucketType
    BY <1>2 DEF r
  <2> QED
    BY <2>1 DEF BucketType
<1>4. [spent EXCEPT ![g] = @ + 0] = spent
  BY <1>1 DEF Ledger
<1> QED
  BY <1>3, <1>4 DEF Drawn

\* A new bucket is full, and nothing has been drawn on it.
LEMMA RenewStep ==
  ASSUME Ledger, NEW c \in Config, Renew(c)
  PROVE  Ledger'
<1> USE DEF Ledger, Renew
<1> DEFINE n == current + 1
<1>1. n \in Buckets /\ current \in Buckets /\ current' = n /\ spent[n] = 0 /\ MaxBuckets \in Nat
  BY RateLimiterAssumption DEF Buckets
<1>2. NewTokenBucket(c) \in BucketType /\ c.capacity \in Nat /\ c.refill \in Nat
  BY DEF NewTokenBucket, BucketType, Config, Fields
<1>3. /\ bucket' \in [Buckets -> BucketType] /\ made' \in [Buckets -> [config : Config, at : Nat]]
      /\ bucket'[n] = NewTokenBucket(c) /\ made'[n] = [config |-> c, at |-> clock]
      /\ \A i \in Buckets \ {n} : bucket'[i] = bucket[i] /\ made'[i] = made[i]
  BY <1>1, <1>2 DEF BucketFor
<1>4. /\ bucket'[n].tokens = c.capacity /\ bucket'[n].capacity = c.capacity
      /\ bucket'[n].refillPerSec = c.refill /\ bucket'[n].last = clock
      /\ made'[n].config = c /\ made'[n].at = clock /\ spent'[n] = 0 /\ clock' = clock
      /\ clock \in Nat
  BY <1>1, <1>3 DEF NewTokenBucket
<1>5. ASSUME NEW i \in 0..current PROVE Dated(i)'
  <2>1. i \in Buckets /\ i # n /\ Dated(i)
    BY <1>1 DEF Buckets
  <2> QED
    BY <1>3, <2>1 DEF Dated
<1>6. ASSUME NEW i \in 0..current'
      PROVE  Dated(i)' /\ bucket'[i].tokens + spent'[i]
               <= bucket'[i].capacity + bucket'[i].refillPerSec * (bucket'[i].last - made'[i].at)
  <2>1. CASE i = n
    <3>1. c.refill * (clock - clock) = 0
      BY <1>2, <1>4
    <3>2. bucket'[i].refillPerSec * (bucket'[i].last - made'[i].at) = 0
      BY <1>4, <2>1, <3>1
    <3>3. Dated(i)'
      BY <1>4, <2>1 DEF Dated
    <3> QED
      BY <1>2, <1>4, <2>1, <3>2, <3>3
  <2>2. CASE i # n
    <3>1. i \in 0..current /\ i \in Buckets
      BY <1>1, <2>2 DEF Buckets
    <3> QED
      BY <1>3, <1>5, <2>2, <3>1 DEF NoFreeTokens
  <2> QED
    BY <2>1, <2>2
<1>7. NoFreeTokens'
  BY <1>6 DEF NoFreeTokens
<1>8. \A i \in Buckets : bucket'[i].tokens <= bucket'[i].capacity
  BY <1>2, <1>3 DEF NewTokenBucket
<1>9. made'[current'].config = rateLimit'
  BY <1>1, <1>3
<1>10. \A i \in (current' + 1)..MaxBuckets : spent'[i] = 0
  BY <1>1 DEF Buckets
<1> QED
  BY <1>1, <1>3, <1>6, <1>7, <1>8, <1>9, <1>10

\* What a handler's step does to the bucket it holds.
LEMMA HandlerDraws ==
  ASSUME Ledger, Requesting, NEW h \in Handlers, Consume(h) \/ Charge(h)
  PROVE  LET g == req[h].bucket IN
         /\ g \in 0..current /\ pc[h] \in {"consume", "read"}
         /\ \/ /\ pc[h] = "read"
               /\ UNCHANGED <<bucket, spent, clock, current, rateLimit, made>>
            \/ \E cost \in Nat :
                 /\ Drawn(g, cost)
                 /\ \/ pc[h] = "consume" /\ refill(bucket[g]).tokens >= cost
                    \/ pc[h] = "consume" /\ pc'[h] = "limited" /\ cost = 0
                    \/ pc[h] = "read" /\ cost <= AnswerBound * made[g].config.read
<1> DEFINE g == req[h].bucket
<1>1. g \in 0..current /\ pc[h] \in {"consume", "read"} /\ req[h].rl = made[g].config
        /\ req[h].rl \in Config /\ req[h].request \in Requests
  <2>1. pc[h] \in {"consume", "read"}
    BY DEF Consume, Charge
  <2> QED
    BY <2>1 DEF Requesting
<1>2. CASE Consume(h)
  <2> DEFINE cost == Cost(req[h].rl, req[h].request)
  <2>1. cost \in Nat
    BY <1>1, RequestCost
  <2>2. CASE Insufficient(Mine(h), cost)
    <3>1. bucket' = [bucket EXCEPT ![g] = refill(bucket[g])]
            /\ UNCHANGED <<spent, clock, current, rateLimit, made>>
            /\ pc[h] = "consume" /\ pc'[h] = "limited"
      BY <1>2, <2>2 DEF Consume, Mine, Requesting
    <3> QED
      BY <1>1, <3>1, RefusalDraws
  <2>3. CASE ~Insufficient(Mine(h), cost)
    <3>1. Drawn(g, cost) /\ pc[h] = "consume"
      BY <1>2, <2>3 DEF Consume, Mine, Draw, Drawn
    <3>2. refill(bucket[g]).tokens \in Int
      <4>1. g \in Buckets /\ bucket[g] \in BucketType /\ clock \in Nat
              /\ bucket[g].last <= clock /\ bucket[g].tokens <= bucket[g].capacity
        BY <1>1, RateLimiterAssumption DEF Ledger, Buckets, Dated
      <4>2. refill(bucket[g]) \in BucketType
        BY <4>1, Refill
      <4> QED
        BY <4>2 DEF BucketType
    <3>3. refill(bucket[g]).tokens >= cost
      BY <2>1, <2>3, <3>2 DEF Insufficient, Mine
    <3> QED
      BY <1>1, <2>1, <3>1, <3>3
  <2> QED
    BY <2>2, <2>3
<1>3. CASE Charge(h)
  <2>1. CASE UNCHANGED <<bucket, spent>>
    BY <1>1, <1>3, <2>1 DEF Charge
  <2>2. CASE \E n \in AnswerLengths : Draw(h, ReadCost(req[h].rl, n))
    <3>1. PICK n \in AnswerLengths : Draw(h, ReadCost(req[h].rl, n))
      BY <2>2
    <3>2. ReadCost(req[h].rl, n) \in Nat /\ ReadCost(req[h].rl, n) <= AnswerBound * made[g].config.read
      BY <1>1, AnswerCost
    <3>3. Drawn(g, ReadCost(req[h].rl, n)) /\ pc[h] = "read"
      BY <1>3, <3>1 DEF Charge, Draw, Drawn, Mine
    <3> QED
      BY <1>1, <3>2, <3>3
  <2> QED
    BY <1>3, <2>1, <2>2 DEF Charge
<1> QED
  BY <1>2, <1>3

LEMMA LedgerStep ==
  ASSUME Ledger, Requesting, [Next]_vars
  PROVE  Ledger'
<1>1. ASSUME NEW h \in Handlers, Consume(h) \/ Charge(h) PROVE Ledger'
  <2>1. CASE UNCHANGED <<bucket, spent, clock, current, rateLimit, made>>
    BY <2>1 DEF Ledger, Dated, NoFreeTokens
  <2>2. CASE \E cost \in Nat : Drawn(req[h].bucket, cost)
    BY <1>1, <2>2, HandlerDraws, DrawStep
  <2> QED
    BY <1>1, <2>1, <2>2, HandlerDraws
<1>2. ASSUME NEW h \in Handlers, Snapshot(h) \/ Return(h) PROVE Ledger'
  BY <1>2 DEF Snapshot, Return, Ledger, Dated, NoFreeTokens
<1>3. CASE SetRateLimitConfig
  BY <1>3, OverrideType, RenewStep DEF SetRateLimitConfig
<1>4. CASE Restart
  BY <1>4, RateLimiterAssumption, RenewStep DEF Restart
<1>5. CASE Tick
  <2>1. \A i \in 0..current : i \in Buckets
    BY RateLimiterAssumption DEF Ledger, Buckets
  <2>2. \A i \in 0..current : Dated(i)'
    BY <1>5, <2>1 DEF Tick, Ledger, Dated, BucketType
  <2>3. NoFreeTokens'
    BY <1>5 DEF Tick, Ledger, NoFreeTokens
  <2> QED
    BY <1>5, <2>2, <2>3 DEF Tick, Ledger
<1>6. CASE UNCHANGED vars
  BY <1>6 DEF Ledger, Dated, NoFreeTokens
<1> QED
  BY <1>1, <1>2, <1>3, <1>4, <1>5, <1>6 DEF Next

\* An override makes a new bucket, so that those under way keep theirs.
LEMMA RequestingStep ==
  ASSUME Ledger, Requesting, [Next]_vars
  PROVE  Requesting'
<1> USE RateLimiterAssumption
<1>1. /\ NoRequest \in [request : Requests, bucket : Buckets, rl : Config]
      /\ current \in Nat /\ \A i \in 0..current : i \in Buckets
  BY DEF NoRequest, Requests, Buckets, Ledger
<1>2. ASSUME NEW h \in Handlers, Consume(h) \/ Charge(h) \/ Return(h) PROVE Requesting'
  BY <1>1, <1>2 DEF Consume, Charge, Return, Requesting
<1>3. ASSUME NEW h \in Handlers, Snapshot(h) PROVE Requesting'
  <2>1. current \in Buckets /\ current \in 0..current /\ rateLimit \in Config
          /\ rateLimit = made[current].config
    BY <1>1 DEF Ledger
  <2> QED
    BY <1>3, <2>1 DEF Snapshot, Requesting
<1>4. ASSUME NEW c \in Config, Renew(c), UNCHANGED <<pc, req>> PROVE Requesting'
  <2>1. \A i \in 0..current : made'[i] = made[i] /\ i \in 0..current'
    BY <1>1, <1>4 DEF Renew, Ledger
  <2> QED
    BY <1>4, <2>1 DEF Requesting
<1>5. CASE SetRateLimitConfig
  BY <1>4, <1>5, OverrideType DEF SetRateLimitConfig
<1>6. CASE Restart
  BY <1>1, <1>6 DEF Restart, Requesting
<1>7. CASE Tick
  BY <1>7 DEF Tick, Requesting
<1>8. CASE UNCHANGED vars
  BY <1>8 DEF Requesting
<1> QED
  BY <1>2, <1>3, <1>5, <1>6, <1>7, <1>8 DEF Next

LEMMA BucketsInit == Init => Ledger /\ Requesting
<1> SUFFICES ASSUME Init PROVE Ledger /\ Requesting
  OBVIOUS
<1> USE RateLimiterAssumption DEF Init
<1>1. Default \in Config /\ Default.capacity \in Nat /\ Default.refill \in Nat
  BY DEF Config, Fields
<1>2. /\ NewTokenBucket(Default) \in BucketType
      /\ NoRequest \in [request : Requests, bucket : Buckets, rl : Config]
      /\ 0 \in Buckets /\ 0..0 \subseteq Buckets
  BY <1>1 DEF NewTokenBucket, BucketType, NoRequest, Requests, Buckets
<1>3. NoFreeTokens
  <2>1. Default.refill * (0 - 0) = 0
    BY <1>1
  <2> QED
    BY <1>1, <1>2, <2>1 DEF NoFreeTokens, NewTokenBucket
<1>4. \A i \in 0..current : Dated(i)
  BY <1>1, <1>2 DEF Dated, NewTokenBucket
<1>5. Ledger
  BY <1>1, <1>2, <1>3, <1>4 DEF Ledger, NewTokenBucket, Buckets
<1> QED
  BY <1>2, <1>5 DEF Requesting

LEMMA BucketsKept == Spec => [](Ledger /\ Requesting)
<1>1. Ledger /\ Requesting /\ [Next]_vars => (Ledger /\ Requesting)'
  BY LedgerStep, RequestingStep
<1> QED
  BY <1>1, BucketsInit, PTL DEF Spec

\* No token is counted twice, whatever the order of requests, refills and overrides.
THEOREM BudgetKept == Spec => []NoFreeTokens
<1>1. Ledger => NoFreeTokens
  BY DEF Ledger
<1> QED
  BY <1>1, BucketsKept, PTL

\* The types of the state, and no bucket above its capacity.
THEOREM TypeCorrect == Spec => []TypeOK
<1>1. Ledger /\ Requesting => TypeOK
  BY DEF Ledger, Requesting, TypeOK
<1> QED
  BY <1>1, BucketsKept, PTL

\* A request is charged by the rates its bucket was made for.
THEOREM ConfigKept == Spec => []OneConfig
<1>1. Ledger /\ Requesting => OneConfig
  BY DEF Ledger, Requesting, OneConfig, Dated
<1> QED
  BY <1>1, BucketsKept, PTL

-------------------------------------------------------------------------------
(* The debt: a bucket has credit set aside for the answer of every handler  *)
(* that is reading on it, so that only those not reading can be in debt.    *)

Reading(i) == {h \in Handlers : pc[h] = "read" /\ req[h].bucket = i}
Answer(i) == AnswerBound * made[i].config.read
Debt(i) == (Cardinality(Handlers) - Cardinality(Reading(i))) * Answer(i)
Covered == \A i \in 0..current : bucket[i].tokens >= - Debt(i)

LEMMA ReadingFinite ==
  ASSUME NEW S, S \subseteq Handlers
  PROVE  /\ IsFiniteSet(S) /\ Cardinality(S) \in Nat /\ Cardinality(Handlers) \in Nat
         /\ Cardinality(S) <= Cardinality(Handlers)
  BY RateLimiterAssumption, FS_Subset, FS_CardinalityType

LEMMA DebtType ==
  ASSUME Ledger, NEW i \in 0..current
  PROVE  /\ Answer(i) \in Nat /\ Debt(i) \in Nat
         /\ Debt(i) <= Cardinality(Handlers) * Answer(i)
         /\ i \in Buckets /\ bucket[i] \in BucketType
         /\ bucket[i].last <= clock /\ bucket[i].tokens <= bucket[i].capacity /\ clock \in Nat
<1>1. i \in Buckets /\ made[i].config.read \in Nat /\ AnswerBound \in Nat
  <2>1. i \in Buckets
    BY RateLimiterAssumption DEF Ledger, Buckets
  <2>2. made[i].config \in Config
    BY <2>1 DEF Ledger
  <2> QED
    BY <2>1, <2>2, RateLimiterAssumption DEF Config, Fields
<1>2. Answer(i) \in Nat
  BY <1>1, Products DEF Answer
<1>3. Cardinality(Reading(i)) \in Nat /\ Cardinality(Handlers) \in Nat
        /\ Cardinality(Reading(i)) <= Cardinality(Handlers)
  BY ReadingFinite DEF Reading
<1> QED
  BY <1>1, <1>2, <1>3, Products DEF Debt, Ledger, Dated

\* A step that lets nobody finish reading on i and takes nothing from i keeps i covered,
\* and so does one that ends a read and takes its answer.
LEMMA Uncovering ==
  ASSUME Ledger, Ledger', NEW i \in 0..current, i \in 0..current', made'[i] = made[i],
         bucket[i].tokens >= - Debt(i),
         \/ Reading(i)' \subseteq Reading(i) /\ bucket'[i].tokens >= bucket[i].tokens
         \/ /\ \E h \in Reading(i) : Reading(i)' = Reading(i) \ {h}
            /\ bucket'[i].tokens >= bucket[i].tokens - Answer(i)
  PROVE  bucket'[i].tokens >= - (Debt(i)')
<1> DEFINE n == Cardinality(Handlers)
<1> DEFINE k == Cardinality(Reading(i))
<1> DEFINE l == Cardinality(Reading(i)')
<1>1. Reading(i) \subseteq Handlers /\ Reading(i)' \subseteq Handlers
  BY DEF Reading
<1>2. n \in Nat /\ k \in Nat /\ l \in Nat /\ k <= n /\ l <= n
        /\ IsFiniteSet(Reading(i)) /\ IsFiniteSet(Reading(i)')
  BY <1>1, ReadingFinite
<1>3. Answer(i) \in Nat /\ bucket[i].tokens \in Int /\ bucket'[i].tokens \in Int
  <2>1. i \in Buckets
    BY DebtType
  <2> QED
    BY <2>1, DebtType DEF Ledger, BucketType
<1>4. Debt(i) = (n - k) * Answer(i) /\ Debt(i)' = (n - l) * Answer(i)
  BY DEF Debt, Answer
<1> HIDE DEF n, k, l
<1>5. CASE Reading(i)' \subseteq Reading(i) /\ bucket'[i].tokens >= bucket[i].tokens
  <2>1. l <= k
    BY <1>2, <1>5, FS_Subset DEF k, l
  <2>2. (n - k) * Answer(i) <= (n - l) * Answer(i) /\ (n - k) * Answer(i) \in Nat
          /\ (n - l) * Answer(i) \in Nat
    BY <1>2, <1>3, <2>1, Products
  <2> QED
    BY <1>3, <1>4, <1>5, <2>2
<1>6. CASE /\ \E h \in Reading(i) : Reading(i)' = Reading(i) \ {h}
           /\ bucket'[i].tokens >= bucket[i].tokens - Answer(i)
  <2>1. l = k - 1
    BY <1>2, <1>6, FS_RemoveElement DEF k, l
  <2>2. n - k \in Nat /\ n - l = (n - k) + 1
    BY <1>2, <2>1
  <2>3. (n - l) * Answer(i) = (n - k) * Answer(i) + Answer(i) /\ (n - k) * Answer(i) \in Nat
    BY <1>3, <2>2, Products
  <2> QED
    BY <1>3, <1>4, <1>6, <2>3
<1> QED
  BY <1>5, <1>6

LEMMA CoveredStep ==
  ASSUME Ledger, Requesting, Covered, [Next]_vars
  PROVE  Covered'
<1>1. Ledger' /\ Requesting'
  BY LedgerStep, RequestingStep
<1>2. SUFFICES ASSUME NEW i \in 0..current'
               PROVE  bucket'[i].tokens >= - (Debt(i)')
  BY DEF Covered
<1>3. ASSUME i \in 0..current, made'[i] = made[i],
             Reading(i)' \subseteq Reading(i), bucket'[i].tokens >= bucket[i].tokens
      PROVE  bucket'[i].tokens >= - (Debt(i)')
  BY <1>1, <1>3, Uncovering DEF Covered
<1>4. Debt(i)' \in Nat
  <2>1. i \in Buckets
    BY <1>1, RateLimiterAssumption DEF Ledger, Buckets
  <2>2. made'[i].config \in Config
    BY <1>1, <2>1 DEF Ledger
  <2>3. Answer(i)' \in Nat
    BY <2>2, RateLimiterAssumption, Products DEF Answer, Config, Fields
  <2>4. Cardinality(Handlers) - Cardinality(Reading(i)') \in Nat
    BY ReadingFinite DEF Reading
  <2> QED
    BY <2>3, <2>4, Products DEF Debt
<1>5. ASSUME i \in 0..current
      PROVE  bucket[i].tokens \in Int /\ i \in Buckets /\ bucket[i].tokens >= bucket[i].tokens
  BY <1>5, DebtType DEF BucketType
<1>6. ASSUME NEW h \in Handlers, Consume(h) \/ Charge(h)
      PROVE  bucket'[i].tokens >= - (Debt(i)')
  <2> DEFINE g == req[h].bucket
  <2>1. g \in 0..current /\ i \in 0..current /\ current' = current /\ made' = made
    BY <1>6, HandlerDraws DEF Consume, Charge
  <2>2. CASE i # g
    <3>1. Reading(i)' \subseteq Reading(i)
      BY <1>6, <2>2 DEF Reading, Consume, Charge, Requesting
    <3>2. bucket'[i] = bucket[i]
      BY <1>5, <1>6, <2>1, <2>2, HandlerDraws, DrawStep
    <3> QED
      BY <1>3, <1>5, <2>1, <3>1, <3>2
  <2>3. CASE i = g
    <3>1. /\ bucket[i] \in BucketType /\ bucket[i].tokens <= refill(bucket[i]).tokens
          /\ refill(bucket[i]).tokens \in Int /\ bucket[i].tokens \in Int
      BY <2>1, DebtType, Refill DEF BucketType
    <3>2. CASE pc[h] = "read"
      <4>1. Charge(h)
        BY <1>6, <3>2 DEF Consume
      <4>2. h \in Reading(i) /\ Reading(i)' = Reading(i) \ {h}
        BY <2>3, <3>2, <4>1 DEF Reading, Charge, Requesting
      <4>3. bucket'[i].tokens >= bucket[i].tokens - Answer(i)
        <5>1. CASE UNCHANGED bucket
          BY <2>1, <3>1, <5>1, DebtType
        <5>2. CASE \E cost \in Nat : Drawn(g, cost) /\ cost <= Answer(g)
          <6>1. PICK cost \in Nat : Drawn(g, cost) /\ cost <= Answer(g)
            BY <5>2
          <6>2. bucket'[i].tokens = refill(bucket[i]).tokens - cost
            BY <2>1, <2>3, <6>1, DrawStep
          <6> QED
            BY <2>1, <2>3, <3>1, <6>1, <6>2, DebtType
        <5> QED
          BY <1>6, <3>2, <5>1, <5>2, HandlerDraws DEF Answer
      <4> QED
        BY <1>1, <2>1, <4>2, <4>3, Uncovering DEF Covered
    <3>3. CASE pc[h] = "consume"
      <4>1. PICK cost \in Nat :
              /\ Drawn(g, cost)
              /\ refill(bucket[g]).tokens >= cost \/ (pc'[h] = "limited" /\ cost = 0)
        BY <1>6, <3>3, HandlerDraws
      <4>2. bucket'[i].tokens = refill(bucket[i]).tokens - cost
        BY <2>1, <2>3, <4>1, DrawStep
      <4>3. CASE refill(bucket[g]).tokens >= cost
        BY <1>4, <2>3, <3>1, <4>2, <4>3
      <4>4. CASE pc'[h] = "limited" /\ cost = 0
        <5>1. Reading(i)' \subseteq Reading(i)
          <6>1. Consume(h)
            BY <1>6, <3>3 DEF Charge
          <6>2. req' = req /\ pc' = [pc EXCEPT ![h] = "limited"]
            BY <4>4, <6>1 DEF Consume, Requesting
          <6> QED
            BY <6>2 DEF Reading, Requesting
        <5> QED
          BY <1>3, <2>1, <3>1, <4>2, <4>4, <5>1
      <4> QED
        BY <4>1, <4>3, <4>4
    <3> QED
      BY <1>6, <3>2, <3>3 DEF Consume, Charge
  <2> QED
    BY <2>2, <2>3
<1>7. ASSUME NEW h \in Handlers, Snapshot(h) \/ Return(h)
      PROVE  bucket'[i].tokens >= - (Debt(i)')
  <2>1. i \in 0..current /\ made'[i] = made[i] /\ bucket'[i] = bucket[i]
    BY <1>7 DEF Snapshot, Return
  <2>2. Reading(i)' \subseteq Reading(i)
    BY <1>7 DEF Snapshot, Return, Reading, Requesting
  <2> QED
    BY <1>3, <1>5, <2>1, <2>2
<1>8. ASSUME NEW c \in Config, Renew(c), Reading(i)' \subseteq Reading(i)
      PROVE  bucket'[i].tokens >= - (Debt(i)')
  <2>1. current \in Nat /\ current + 1 \in Buckets /\ current' = current + 1
    BY <1>1, <1>8, RateLimiterAssumption DEF Ledger, Buckets, Renew
  <2>2. CASE i = current + 1
    <3>1. bucket'[i] = NewTokenBucket(c) /\ c.capacity \in Nat
      BY <1>8, <2>1, <2>2 DEF Renew, BucketFor, Ledger, Config, Fields
    <3> QED
      BY <1>4, <3>1 DEF NewTokenBucket
  <2>3. CASE i # current + 1
    <3>1. i \in 0..current /\ made'[i] = made[i] /\ bucket'[i] = bucket[i]
      BY <1>5, <1>8, <2>1, <2>3 DEF Renew, Ledger
    <3> QED
      BY <1>3, <1>5, <1>8, <3>1
  <2> QED
    BY <2>2, <2>3
<1>9. CASE SetRateLimitConfig
  <2>1. Reading(i)' \subseteq Reading(i)
    BY <1>9 DEF SetRateLimitConfig, Reading
  <2> QED
    BY <1>8, <1>9, <2>1, OverrideType DEF SetRateLimitConfig
<1>10. CASE Restart
  <2>1. Reading(i)' \subseteq Reading(i)
    BY <1>10 DEF Restart, Reading
  <2> QED
    BY <1>8, <1>10, <2>1, RateLimiterAssumption DEF Restart
<1>11. CASE Tick \/ UNCHANGED vars
  <2>1. i \in 0..current /\ made'[i] = made[i] /\ bucket'[i] = bucket[i]
          /\ Reading(i)' \subseteq Reading(i)
    BY <1>11 DEF Tick, Reading
  <2> QED
    BY <1>3, <1>5, <2>1
<1> QED
  BY <1>6, <1>7, <1>9, <1>10, <1>11 DEF Next

\* A tenant's debt never exceeds one answer for every handler there is.
THEOREM DebtBounded == Spec => []DebtBound
<1>1. Ledger /\ Requesting /\ Covered /\ [Next]_vars => (Ledger /\ Requesting /\ Covered)'
  BY LedgerStep, RequestingStep, CoveredStep
<1>2. Init => Covered
  <2> SUFFICES ASSUME Init PROVE Covered
    OBVIOUS
  <2>1. Ledger
    BY BucketsInit
  <2>2. \A i \in 0..current : bucket[i].tokens \in Nat
    <3>1. Default.capacity \in Nat
      BY RateLimiterAssumption DEF Config, Fields
    <3> QED
      BY <3>1, <2>1, DebtType DEF Init, NewTokenBucket
  <2> QED
    BY <2>1, <2>2, DebtType DEF Covered
<1>3. Ledger /\ Covered => DebtBound
  <2> SUFFICES ASSUME Ledger, Covered, NEW i \in 0..current
               PROVE  bucket[i].tokens >= - Cardinality(Handlers) * Answer(i)
    BY DEF DebtBound, Answer
  <2>1. /\ Debt(i) \in Nat /\ Debt(i) <= Cardinality(Handlers) * Answer(i)
        /\ bucket[i].tokens \in Int /\ bucket[i].tokens >= - Debt(i)
        /\ Cardinality(Handlers) \in Nat /\ Answer(i) \in Nat
    BY DebtType, ReadingFinite DEF Covered, BucketType
  <2>2. - Cardinality(Handlers) * Answer(i) = - (Cardinality(Handlers) * Answer(i))
    BY <2>1
  <2> QED
    BY <2>1, <2>2, Products
<1> QED
  BY <1>1, <1>2, <1>3, BucketsInit, PTL DEF Spec
================================================================================
