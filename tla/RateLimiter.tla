------------------------------ MODULE RateLimiter -------------------------------
(***************************************************************************)
(* The rate limit of one tenant (server/rate-limiter.go): a token bucket   *)
(* that a request draws on before the engine is called, and that a read    *)
(* draws on again for what it returned.  Requests copy db.bucket and       *)
(* db.rateLimit together and use them after db.mu is released, while the   *)
(* administrator may be replacing both (server/database.go:128-133).       *)
(*                                                                         *)
(* Costs are whole numbers: a unit small enough for the weights is the     *)
(* token.  The clock counts ticks, and the rounding of float64 is left     *)
(* out.  Buckets are never reused, so they are numbered.                   *)
(***************************************************************************)
EXTENDS Integers, FiniteSets

CONSTANTS
  Handlers,        \* goroutines serving requests for this tenant
  Default,         \* man.rateLimit
  Overrides,       \* what the administrator sets: some of the fields
  ValueLengths,    \* lengths of the values clients put
  AnswerLengths, AnswerBound,  \* how much a Get or a Range returns, and at most
  MaxValueBytes,
  MaxBuckets, MaxClock   \* bounds on the exploration

Fields == {"capacity", "refill", "flat", "write", "read"}
Config == [Fields -> Nat]

ASSUME RateLimiterAssumption ==
  /\ IsFiniteSet(Handlers)
  /\ Default \in Config
  /\ \A o \in Overrides : \E F \in SUBSET Fields : o \in [F -> Nat]
  /\ ValueLengths \subseteq Nat
  /\ AnswerBound \in Nat /\ AnswerLengths \subseteq 0..AnswerBound
  /\ MaxValueBytes \in Nat /\ MaxBuckets \in Nat /\ MaxClock \in Nat

VARIABLES
  clock,
  current, rateLimit,  \* which bucket db.bucket is, and db.rateLimit
  bucket,              \* every TokenBucket made so far
  made,                \* history: the configuration and the time each was made with
  spent,               \* history: what was drawn on each
  pc,                  \* what each handler does next
  req                  \* its request, with the bucket and the configuration it copied

vars == <<clock, current, rateLimit, bucket, made, spent, pc, req>>

Requests == [op : {"put"}, len : ValueLengths] \cup [op : {"delete", "read"}]
NoRequest == [request |-> [op |-> "read"], bucket |-> 0, rl |-> Default]

-------------------------------------------------------------------------------
PutCost(c, len)  == c.flat + len * c.write
FlatCost(c)      == c.flat
ReadCost(c, len) == len * c.read
Cost(c, r) == IF r.op = "put" THEN PutCost(c, r.len) ELSE FlatCost(c)

NewTokenBucket(c) ==
  [tokens |-> c.capacity, capacity |-> c.capacity, refillPerSec |-> c.refill, last |-> clock]

\* Mutant: the time of the refill is not kept.
StaleTime(b) == b.last
RefillTime(b) == clock

\* Mutant: an idle bucket fills beyond its burst.
Uncapped(limit, n) == n
AtMost(limit, n) == IF n > limit THEN limit ELSE n
refill(b) ==
  [b EXCEPT !.tokens = AtMost(b.capacity, b.tokens + (clock - b.last) * b.refillPerSec),
            !.last   = RefillTime(b)]

Buckets == 0..MaxBuckets

Init ==
  /\ clock = 0
  /\ current = 0 /\ rateLimit = Default
  /\ bucket = [i \in Buckets |-> NewTokenBucket(Default)]
  /\ made   = [i \in Buckets |-> [config |-> Default, at |-> 0]]
  /\ spent  = [i \in Buckets |-> 0]
  /\ pc     = [h \in Handlers |-> "idle"]
  /\ req    = [h \in Handlers |-> NoRequest]

At(h, label)   == pc[h] = label
Goto(h, label) == pc' = [pc EXCEPT ![h] = label]
Finish(h)      == Goto(h, "idle") /\ req' = [req EXCEPT ![h] = NoRequest]

\* A value over the limit is answered 413 before the bucket is asked.
Snapshot(h) ==
  /\ At(h, "idle")
  /\ \E r \in Requests :
       /\ r.op = "put" => r.len <= MaxValueBytes
       /\ req' = [req EXCEPT ![h] = [request |-> r, bucket |-> current, rl |-> rateLimit]]
  /\ Goto(h, "consume")
  /\ UNCHANGED <<clock, current, rateLimit, bucket, made, spent>>

Mine(h) == refill(bucket[req[h].bucket])
Draw(h, cost) ==
  /\ bucket' = [bucket EXCEPT ![req[h].bucket] = [Mine(h) EXCEPT !.tokens = @ - cost]]
  /\ spent'  = [spent EXCEPT ![req[h].bucket] = @ + cost]

\* Mutant: a bucket in debt admits what costs no more than it can hold.
OverCapacity(b, cost) == b.capacity < cost
Insufficient(b, cost) == b.tokens < cost

Consume(h) ==
  /\ At(h, "consume")
  /\ LET cost == Cost(req[h].rl, req[h].request) IN
     \/ /\ Insufficient(Mine(h), cost)                        \* 429
        /\ Goto(h, "limited")
        /\ bucket' = [bucket EXCEPT ![req[h].bucket] = Mine(h)] /\ UNCHANGED <<spent, req>>
     \/ /\ ~Insufficient(Mine(h), cost)
        /\ Draw(h, cost)
        /\ IF req[h].request.op = "read" THEN Goto(h, "read") /\ UNCHANGED req ELSE Finish(h)
  /\ UNCHANGED <<clock, current, rateLimit, made>>

\* Nothing is charged for a miss, an error, or a tenant without an engine.
Charge(h) ==
  /\ At(h, "read")
  /\ \/ \E n \in AnswerLengths : Draw(h, ReadCost(req[h].rl, n))
     \/ UNCHANGED <<bucket, spent>>
  /\ Finish(h)
  /\ UNCHANGED <<clock, current, rateLimit, made>>

Return(h) ==
  /\ At(h, "limited")
  /\ Finish(h)
  /\ UNCHANGED <<clock, current, rateLimit, bucket, made, spent>>

-------------------------------------------------------------------------------
\* Mutant: the override leaves the bucket as it is.
BucketKept(c) == bucket[current]
BucketFor(c) == NewTokenBucket(c)

Renew(c) ==
  /\ current < MaxBuckets
  /\ current' = current + 1 /\ rateLimit' = c
  /\ bucket' = [bucket EXCEPT ![current + 1] = BucketFor(c)]
  /\ made'   = [made EXCEPT ![current + 1] = [config |-> c, at |-> clock]]
  /\ UNCHANGED <<clock, spent>>

applyRateLimitOverride(base, o) ==
  [f \in Fields |-> IF f \in DOMAIN o THEN o[f] ELSE base[f]]

\* The fields an override leaves out are the server's, not those of the last one.
SetRateLimitConfig ==
  /\ \E o \in Overrides : Renew(applyRateLimitOverride(Default, o))
  /\ UNCHANGED <<pc, req>>

\* LoadAll makes the Database again: an override is lost, and the bucket full.
Restart ==
  /\ Renew(Default)
  /\ pc'  = [h \in Handlers |-> "idle"]
  /\ req' = [h \in Handlers |-> NoRequest]

Tick ==
  /\ clock < MaxClock
  /\ clock' = clock + 1
  /\ UNCHANGED <<current, rateLimit, bucket, made, spent, pc, req>>

Next ==
  \/ \E h \in Handlers : Snapshot(h) \/ Consume(h) \/ Charge(h) \/ Return(h)
  \/ SetRateLimitConfig \/ Restart \/ Tick

Spec == Init /\ [][Next]_vars

-------------------------------------------------------------------------------
BucketType == [tokens : Int, capacity : Nat, refillPerSec : Nat, last : Nat]

TypeOK ==
  /\ clock \in Nat
  /\ current \in Buckets /\ rateLimit \in Config
  /\ bucket \in [Buckets -> BucketType]
  /\ \A i \in Buckets : bucket[i].tokens <= bucket[i].capacity
  /\ made   \in [Buckets -> [config : Config, at : Nat]]
  /\ spent  \in [Buckets -> Nat]
  /\ pc     \in [Handlers -> {"idle", "consume", "read", "limited"}]
  /\ req    \in [Handlers -> [request : Requests, bucket : Buckets, rl : Config]]

\* However requests and refills interleave, what was drawn on a bucket and what is
\* left of it never exceed the burst and what the time since it was made is worth:
\* no token is counted twice (server/rate-limiter.go:45-70; "no double-counted or
\* dropped budget", integration-tests/stress_test.go:156).
NoFreeTokens ==
  \A i \in 0..current :
    LET b == bucket[i] IN
    b.tokens + spent[i] <= b.capacity + b.refillPerSec * (b.last - made[i].at)

\* Reads are charged for their answer after the fact, also when the bucket has
\* nothing left, but a bucket in debt admits no one: the debt is at most one answer
\* of each handler (server/database.go:143-159, server/rate-limiter.go:57).
DebtBound ==
  \A i \in 0..current :
    bucket[i].tokens >= - Cardinality(Handlers)
                          * (AnswerBound * made[i].config.read)

\* A request is charged by the rates its bucket was made for, also when the
\* administrator replaces both while it is under way (server/database.go:128-140).
OneConfig ==
  /\ made[current].config = rateLimit
  /\ \A h \in Handlers : pc[h] # "idle" =>
       LET b == bucket[req[h].bucket] IN
       /\ req[h].rl = made[req[h].bucket].config
       /\ b.capacity = req[h].rl.capacity /\ b.refillPerSec = req[h].rl.refill

\* A Put of a value that the size limit lets through ("50MB max per key.",
\* website/static/robot.txt:33) is refused only for want of tokens that time will
\* bring.  It fails: with the server's own settings a large value costs more than
\* the bucket can ever hold.
LargeValuesFit ==
  \A h \in Handlers : pc[h] = "limited" => Cost(req[h].rl, req[h].request) <= bucket[req[h].bucket].capacity
================================================================================
