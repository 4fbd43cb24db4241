------------------------------- MODULE Database --------------------------------
(***************************************************************************)
(* The data path of one tenant (server/database.go): Get, Put, Delete and  *)
(* Range copy what they need of the Database under db.mu, release it, ask  *)
(* the token bucket, and only then call the engine on the handle they      *)
(* copied, while Destroy may be closing it.                                *)
(*                                                                         *)
(* A section under db.mu is one step: DatabaseManager has materialize and  *)
(* Destroy in their parts.  The token bucket admits or not (RateLimiter    *)
(* says when).  The engine is not in the repository: a call of it on an    *)
(* open handle is an atomic operation on a map, or fails; on a closed      *)
(* handle its outcome is undefined.                                        *)
(*                                                                         *)
(* A handler answers with a status and a body, of which the values a       *)
(* request reads are kept: it is by its status that a client knows whether *)
(* a request took effect.                                                  *)
(***************************************************************************)
EXTENDS Naturals, FiniteSets

CONSTANTS
  Handlers,         \* goroutines serving requests for this tenant
  Keys, Values,
  Length,           \* how many bytes long each value is
  Sizes,            \* what the engine may tell of the size of its files
  MaxValueBytes, MaxStorageBytes,
  Missing, None, NoReply, Refused, Failed, Undefined

ASSUME DatabaseAssumption ==
  /\ IsFiniteSet(Handlers)
  /\ Length \in [Values -> Nat]
  /\ Sizes \subseteq Nat
  /\ MaxValueBytes \in Nat /\ MaxStorageBytes \in Nat

VARIABLES
  state, engine,    \* db.state; db.engine: "nil" or "open"
  handle,           \* the engine behind it: not opened yet, "open", or "closed"
  data, size,       \* the engine's map and what TotalSize tells
  overrun,          \* history: Puts carried out at the limit since size was last below it
  unmapped,         \* the tenant is no longer in man.tenants
  pc, op,           \* what each handler does next, for which request
  snap,             \* the handle it copied: "nil", "open", or "pending" for none yet
  res               \* what it is going to answer

vars == <<state, engine, handle, data, size, overrun, unmapped, pc, op, snap, res>>

Requests ==
  [op : {"get", "delete"}, key : Keys] \cup [op : {"put"}, key : Keys, value : Values]
    \cup [op : {"range"}]

Maps == [Keys -> Values \cup {Missing}]
Bodies == Values \cup {Missing, "ok", "error"} \cup Maps
Responses == [status : Nat, body : Bodies]

ASSUME RequestAssumption == None \notin Requests
ASSUME ReplyAssumption ==
  /\ NoReply \notin {Refused, Failed, Undefined} \cup Bodies
  /\ {NoReply, Undefined} \cap Responses = {}

Respond(status, body) == [status |-> status, body |-> body]
Error(status) == Respond(status, "error")

\* What a request that is carried out on the map m answers.
Result(r, m) ==
  IF r.op = "range" THEN Respond(200, m)
  ELSE IF r.op # "get" THEN Respond(204, "ok")
  ELSE IF m[r.key] = Missing THEN Respond(404, Missing) ELSE Respond(200, m[r.key])

Empty == [k \in Keys |-> Missing]
Stored == {v \in Values : Length[v] <= MaxValueBytes}

\* RequestProvision makes a pending tenant, LoadAll one whose engine is open.
Init ==
  /\ \/ /\ state = "pending" /\ engine = "nil" /\ handle = "unopened"
        /\ data = Empty /\ size = 0
     \/ /\ state = "active" /\ engine = "open" /\ handle = "open"
        /\ data \in [Keys -> Stored \cup {Missing}] /\ size \in Sizes
  /\ overrun = 0
  /\ unmapped = FALSE
  /\ pc   = [h \in Handlers |-> "idle"]
  /\ op   = [h \in Handlers |-> None]
  /\ snap = [h \in Handlers |-> "nil"]
  /\ res  = [h \in Handlers |-> NoReply]

-------------------------------------------------------------------------------
At(h, label)   == pc[h] = label
Goto(h, label) == pc' = [pc EXCEPT ![h] = label]
Answer(h, x)   == Goto(h, "answer") /\ res' = [res EXCEPT ![h] = x]
Copy(h, x)     == Goto(h, "admit") /\ snap' = [snap EXCEPT ![h] = x]

Receive(h) ==
  /\ At(h, "idle")
  /\ \E r \in Requests : op' = [op EXCEPT ![h] = r]
  /\ Goto(h, "lookup")
  /\ UNCHANGED <<state, engine, handle, data, size, overrun, unmapped, snap, res>>

\* A body that cannot be read is found before the tenant is looked up, an empty key
\* or bound after it: both are 400.
Lookup(h) ==
  /\ At(h, "lookup")
  /\ \/ Answer(h, Error(400))
     \/ unmapped /\ Answer(h, Error(401))
     \/ ~unmapped /\ Goto(h, "lock") /\ UNCHANGED res
  /\ UNCHANGED <<state, engine, handle, data, size, overrun, unmapped, op, snap>>

ReadLock(h) ==
  /\ At(h, "lock") /\ op[h].op # "put"
  /\ Copy(h, IF state = "pending" THEN "pending" ELSE engine)
  /\ UNCHANGED <<state, engine, handle, data, size, overrun, unmapped, op, res>>

TooLarge(v) == Length[v] > MaxValueBytes

PutLock(h) ==
  /\ At(h, "lock") /\ op[h].op = "put"
  /\ \/ /\ TooLarge(op[h].value)
        /\ Answer(h, Error(413)) /\ UNCHANGED <<state, engine, handle, snap>>
     \/ /\ ~TooLarge(op[h].value) /\ state = "pending"        \* materialize
        /\ \/ /\ state' = "active" /\ engine' = "open" /\ handle' = "open"
              /\ Copy(h, "open") /\ UNCHANGED res
           \/ Answer(h, Error(500)) /\ UNCHANGED <<state, engine, handle, snap>>
     \/ /\ ~TooLarge(op[h].value) /\ state = "active"
        /\ Copy(h, engine) /\ UNCHANGED <<state, engine, handle, res>>
  /\ UNCHANGED <<data, size, overrun, unmapped, op>>

\* Mutant: a pending tenant confirms whatever it is asked.
PendingOk(r) == Respond(204, "ok")
\* What a tenant without an engine answers: a miss, nothing deleted, no pairs (of
\* which the JSON is null, where an engine without pairs gives an empty array).
PendingReply(r) == Result(r, Empty)

Admit(h) ==
  /\ At(h, "admit")
  /\ \/ Answer(h, Error(429))
     \/ snap[h] = "pending" /\ Answer(h, PendingReply(op[h]))
     \/ snap[h] = "nil" /\ Answer(h, Error(503))              \* errGone
     \/ /\ snap[h] = "open"
        /\ Goto(h, IF op[h].op = "put" THEN "size" ELSE "call")
        /\ UNCHANGED res
  /\ UNCHANGED <<state, engine, handle, data, size, overrun, unmapped, op, snap>>

\* Mutant: the limit itself is let through.
OverLimit == size > MaxStorageBytes
Full == size >= MaxStorageBytes

TotalSize(h) ==
  /\ At(h, "size")
  /\ \/ handle = "closed" /\ Answer(h, Undefined)
     \/ handle = "open" /\ Answer(h, Error(503))              \* errUnavailable
     \/ handle = "open" /\ Full /\ Answer(h, Error(507))      \* errStorageFull
     \/ handle = "open" /\ ~Full /\ Goto(h, "call") /\ UNCHANGED res
  /\ UNCHANGED <<state, engine, handle, data, size, overrun, unmapped, op, snap>>

EngineReply(r) == Result(r, data)

Below == size < MaxStorageBytes
CountOverrun(puts) == overrun' = IF Below \/ Below' THEN 0 ELSE overrun + puts

\* Key, value and framing go to the engine's files, and a tombstone for a delete: what
\* that makes of their size is for the engine to say.
Execute(r) ==
  \/ r.op \in {"get", "range"} /\ UNCHANGED <<data, size, overrun>>
  \/ /\ r.op \in {"put", "delete"}
     /\ data' = [data EXCEPT ![r.key] = IF r.op = "put" THEN r.value ELSE Missing]
     /\ size' \in Sizes
     /\ CountOverrun(IF r.op = "put" THEN 1 ELSE 0)

\* A call that fails has had its effect or not.
EngineCall(h) ==
  /\ At(h, "call")
  /\ \/ handle = "closed" /\ Answer(h, Undefined) /\ UNCHANGED <<data, size, overrun>>
     \/ handle = "open" /\ Answer(h, EngineReply(op[h])) /\ Execute(op[h])
     \/ handle = "open" /\ Answer(h, Error(503)) /\ Execute(op[h])
     \/ handle = "open" /\ Answer(h, Error(503)) /\ UNCHANGED <<data, size, overrun>>
  /\ UNCHANGED <<state, engine, handle, unmapped, op, snap>>

Return(h) ==
  /\ At(h, "answer")
  /\ Goto(h, "idle")
  /\ op'   = [op EXCEPT ![h] = None]
  /\ snap' = [snap EXCEPT ![h] = "nil"]
  /\ res'  = [res EXCEPT ![h] = NoReply]
  /\ UNCHANGED <<state, engine, handle, data, size, overrun, unmapped>>

-------------------------------------------------------------------------------
\* Mutant: Destroy forgets db.engine = nil.
EngineKept == engine
EngineDropped == "nil"

\* Deprovision holds man.mu from before Destroy until the tenant is unmapped; when
\* RemoveAll fails it stays mapped, with no engine.
Destroy ==
  /\ ~unmapped
  /\ \/ /\ engine = "open"
        /\ handle' = "closed" /\ engine' = EngineDropped
        /\ data' = Empty /\ size' = 0 /\ overrun' = 0
     \/ engine = "nil" /\ UNCHANGED <<handle, engine, data, size, overrun>>
  /\ unmapped' \in BOOLEAN
  /\ UNCHANGED <<state, pc, op, snap, res>>

\* The engine rewrites its files when it likes.
Resize ==
  /\ handle = "open"
  /\ size' \in Sizes /\ CountOverrun(0)
  /\ UNCHANGED <<state, engine, handle, data, unmapped, pc, op, snap, res>>

Next ==
  \/ \E h \in Handlers :
       \/ Receive(h) \/ Lookup(h) \/ ReadLock(h) \/ PutLock(h) \/ Admit(h)
       \/ TotalSize(h) \/ EngineCall(h) \/ Return(h)
  \/ Destroy
  \/ Resize

Spec == Init /\ [][Next]_vars

-------------------------------------------------------------------------------
Refusals == {Error(s) : s \in {400, 401, 413, 429, 500, 507}}
Unavailable == Error(503)

\* A handler is done with a refusal, with 503, or with what its request may answer.
ReplyTypes(h) ==
  {NoReply, Undefined, Unavailable} \cup Refusals \cup
    (IF op[h] = None THEN {} ELSE {Result(op[h], m) : m \in Maps})

TypeOK ==
  /\ state \in {"pending", "active"}
  /\ engine \in {"nil", "open"} /\ handle \in {"unopened", "open", "closed"}
  /\ data \in Maps /\ size \in Nat /\ overrun \in Nat
  /\ unmapped \in BOOLEAN
  /\ pc   \in [Handlers -> {"idle", "lookup", "lock", "admit", "size", "call", "answer"}]
  /\ op   \in [Handlers -> Requests \cup {None}]
  /\ snap \in [Handlers -> {"nil", "open", "pending"}]
  /\ \A h \in Handlers : res[h] \in ReplyTypes(h)

\* The storage limit is read before the write and not under one lock with it
\* (server/database.go:190-197), and nothing bounds what one write adds: a Put that was
\* past the check when the limit was reached is carried out all the same.  But no
\* handler gets past it twice: until the files are below the limit again, no more Puts
\* are carried out than there are handlers.
OverrunBound == overrun <= Cardinality(Handlers)

\* The tenant is linearizable up to its teardown (TenantStore), and its statuses tell
\* clients so: 200, 204 and 404 that the request was carried out, 503 that it may have
\* been, and any other that it changed nothing (server/public.go:37-113,
\* server/database.go:22-33).  A request that found the tenant pending takes effect when
\* it copies that state, although it can be refused after that; any other when the
\* engine is called.
Meaning(x) ==
  IF x \in {NoReply, Undefined} THEN x
  ELSE IF x.status \in {200, 204, 404} THEN x.body
  ELSE IF x = Unavailable THEN Failed ELSE Refused
Closed == handle = "closed"
Exposed ==
  {h \in Handlers : Closed /\ snap[h] = "open" /\ pc[h] \in {"admit", "size", "call"}}
Tentative == {h \in Handlers : pc[h] = "admit" /\ snap[h] = "pending"}
Reply ==
  [h \in Handlers |-> Meaning(IF h \in Tentative THEN PendingReply(op[h]) ELSE res[h])]
Store == INSTANCE TenantStore WITH
  Clients <- Handlers, NoCall <- None, closed <- Closed, exposed <- Exposed,
  call <- op, reply <- Reply, tentative <- Tentative
LinearizableStore == Store!Spec

\* The engine is called through open handles only: what errGone, "database
\* unavailable" (server/database.go:32), is there to ensure.  It fails: db.engine
\* was copied before Destroy closed the handle.
CallsOpenHandle ==
  \A h \in Handlers : pc[h] \in {"size", "call"} => handle = "open"
================================================================================
