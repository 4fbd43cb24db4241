----------------------------- MODULE Database_proof ----------------------------
(***************************************************************************)
(* Proofs about Database, for any handlers, keys, values and limits.       *)
(***************************************************************************)
EXTENDS Database, FiniteSetTheorems, TLAPS

USE DEF At, Goto, Answer, Copy, vars

-------------------------------------------------------------------------------
(* The overrun of the storage limit: every Put that is past the check may   *)
(* still be carried out, and none joins them at the limit.                  *)

PCs == {"idle", "lookup", "lock", "admit", "size", "call", "answer"}

Checked(h) == pc[h] = "call" /\ op[h].op = "put"
Storing == {h \in Handlers : Checked(h)}

LEMMA SizesAreNumbers == \A s \in Sizes : s \in Nat
  BY DatabaseAssumption, Zenon

LEMMA StoringFinite ==
  /\ IsFiniteSet(Storing)
  /\ Cardinality(Storing) \in Nat
  /\ Cardinality(Handlers) \in Nat
  /\ Cardinality(Storing) <= Cardinality(Handlers)
<1>1. Storing \in SUBSET Handlers
  BY DEF Storing
<1> QED
  BY <1>1, DatabaseAssumption, FS_Subset, FS_CardinalityType

OverrunLeft ==
  IF Below THEN overrun = 0
  ELSE overrun + Cardinality(Storing) <= Cardinality(Handlers)

RequestsTyped ==
  /\ size \in Nat /\ overrun \in Nat
  /\ pc \in [Handlers -> PCs]
  /\ op \in [Handlers -> Requests \cup {None}]
  /\ \A h \in Handlers : pc[h] # "idle" => op[h] \in Requests

LEMMA RequestsTypedStep ==
  ASSUME RequestsTyped, [Next]_vars
  PROVE  RequestsTyped'
<1> USE DatabaseAssumption, RequestAssumption DEF RequestsTyped, PCs
<1>1. ASSUME NEW h \in Handlers, Receive(h) \/ Lookup(h) PROVE RequestsTyped'
  BY <1>1 DEF Receive, Lookup
<1>2. ASSUME NEW h \in Handlers, ReadLock(h) PROVE RequestsTyped'
  BY <1>2 DEF ReadLock
<1>3. ASSUME NEW h \in Handlers, PutLock(h) PROVE RequestsTyped'
  BY <1>3 DEF PutLock
<1>4. ASSUME NEW h \in Handlers, Admit(h) PROVE RequestsTyped'
  BY <1>4 DEF Admit
<1>5. ASSUME NEW h \in Handlers, TotalSize(h) PROVE RequestsTyped'
  BY <1>5 DEF TotalSize
<1>6. ASSUME NEW h \in Handlers, EngineCall(h) PROVE RequestsTyped'
  <2>1. ASSUME NEW n \in Nat, CountOverrun(n) PROVE overrun' \in Nat
    BY <2>1 DEF CountOverrun
  <2>2. Execute(op[h]) => size' \in Nat /\ overrun' \in Nat
    BY <2>1, SizesAreNumbers DEF Execute
  <2>3. size' \in Nat /\ overrun' \in Nat
    BY <1>6, <2>2 DEF EngineCall
  <2> QED
    BY <1>6, <2>3 DEF EngineCall
<1>7. ASSUME NEW h \in Handlers, Return(h) PROVE RequestsTyped'
  BY <1>7 DEF Return
<1>8. CASE Destroy
  BY <1>8 DEF Destroy
<1>9. CASE Resize
  BY <1>9, SizesAreNumbers DEF Resize, CountOverrun
<1>10. CASE UNCHANGED vars
  BY <1>10
<1> QED
  BY <1>1, <1>2, <1>3, <1>4, <1>5, <1>6, <1>7, <1>8, <1>9, <1>10 DEF Next

\* A Put that is carried out at the limit was one of those past the check, and is not
\* among them any more.
LEMMA OverrunLeftStep ==
  ASSUME RequestsTyped, OverrunLeft, [Next]_vars
  PROVE  OverrunLeft'
<1> DEFINE n == Cardinality(Storing)
<1>1. size' \in Nat /\ overrun' \in Nat
  BY RequestsTypedStep DEF RequestsTyped
<1>2. IsFiniteSet(Storing) /\ n \in Nat /\ Cardinality(Handlers) \in Nat
  BY StoringFinite
<1>3. n' \in Nat /\ n' <= Cardinality(Handlers)
  <2>1. Storing' \in SUBSET Handlers
    BY DEF Storing
  <2> QED
    BY <2>1, DatabaseAssumption, FS_Subset, FS_CardinalityType
\* Below the limit there is nothing to count, and all handlers fit.
<1>4. ASSUME Below, overrun' = 0 PROVE OverrunLeft'
  BY <1>2, <1>3, <1>4 DEF OverrunLeft
<1>5. ASSUME Storing' \subseteq Storing,
             CountOverrun(0) \/ UNCHANGED <<size, overrun>>
      PROVE  OverrunLeft'
  <2>1. n' <= n
    BY <1>2, <1>5, FS_Subset
  <2> QED
    BY <1>1, <1>2, <1>3, <1>5, <2>1 DEF CountOverrun, OverrunLeft, RequestsTyped, Below
<1>6. ASSUME NEW h \in Handlers, TotalSize(h) PROVE OverrunLeft'
  <2>1. UNCHANGED <<size, overrun>>
    BY <1>6 DEF TotalSize
  <2>2. CASE Below
    BY <1>4, <2>1, <2>2 DEF OverrunLeft
  <2>3. CASE ~Below
    <3>1. pc' = [pc EXCEPT ![h] = "answer"] /\ op' = op
      BY <1>6, <2>3, DatabaseAssumption DEF TotalSize, Full, Below, RequestsTyped
    <3>2. Storing' \subseteq Storing
      BY <3>1 DEF Storing, Checked, RequestsTyped
    <3> QED
      BY <1>5, <2>1, <3>2
  <2> QED
    BY <2>2, <2>3
<1>7. ASSUME NEW h \in Handlers, EngineCall(h) PROVE OverrunLeft'
  <2>1. Storing' = Storing \ {h}
    BY <1>7 DEF EngineCall, Storing, Checked, RequestsTyped, PCs
  <2>2. CASE CountOverrun(0) \/ UNCHANGED <<size, overrun>>
    BY <1>5, <2>1, <2>2
  <2>3. CASE op[h].op = "put" /\ CountOverrun(1)
    <3>1. h \in Storing
      BY <1>7, <2>3 DEF EngineCall, Storing, Checked
    <3>2. n' = n - 1
      BY <1>2, <2>1, <3>1, FS_RemoveElement
    <3> QED
      BY <1>1, <1>2, <1>3, <2>3, <3>2 DEF CountOverrun, OverrunLeft, RequestsTyped
  <2>4. op[h].op \in {"put", "delete"} /\ Execute(op[h]) =>
          CountOverrun(IF op[h].op = "put" THEN 1 ELSE 0)
    BY DEF Execute
  <2> QED
    BY <1>7, <2>2, <2>3, <2>4 DEF EngineCall, Execute
<1>8. ASSUME NEW h \in Handlers,
             Receive(h) \/ Lookup(h) \/ ReadLock(h) \/ PutLock(h) \/ Admit(h) \/ Return(h)
      PROVE  OverrunLeft'
  <2>1. Storing' \subseteq Storing
    BY <1>8 DEF Receive, Lookup, ReadLock, PutLock, Admit, Return, Storing, Checked, RequestsTyped, PCs
  <2>2. UNCHANGED <<size, overrun>>
    BY <1>8 DEF Receive, Lookup, ReadLock, PutLock, Admit, Return
  <2> QED
    BY <1>5, <2>1, <2>2
<1>9. CASE Destroy
  <2>1. Storing' = Storing
    BY <1>9 DEF Destroy, Storing, Checked
  <2>2. overrun' = 0 \/ UNCHANGED <<size, overrun>>
    BY <1>9 DEF Destroy
  <2> QED
    BY <1>2, <1>3, <1>5, <2>1, <2>2 DEF OverrunLeft
<1>10. CASE Resize
  BY <1>5, <1>10 DEF Resize, Storing, Checked
<1>11. CASE UNCHANGED vars
  BY <1>5, <1>11 DEF Storing, Checked
<1> QED
  BY <1>6, <1>7, <1>8, <1>9, <1>10, <1>11 DEF Next

LEMMA OverrunInit == Init => RequestsTyped /\ OverrunLeft
<1> SUFFICES ASSUME Init PROVE RequestsTyped /\ OverrunLeft
  OBVIOUS
<1>1. size \in Nat
  BY SizesAreNumbers DEF Init
<1>2. RequestsTyped
  BY <1>1 DEF Init, RequestsTyped, PCs
<1> QED
  BY <1>2, StoringFinite DEF Init, OverrunLeft

\* However Puts interleave, and whatever each adds to the files, no more of them than
\* there are handlers are carried out from when the limit is reached until the engine
\* is below it again.
THEOREM OverrunBounded == Spec => []OverrunBound
<1>1. RequestsTyped /\ OverrunLeft /\ [Next]_vars => (RequestsTyped /\ OverrunLeft)'
  BY RequestsTypedStep, OverrunLeftStep
<1>2. RequestsTyped /\ OverrunLeft => OverrunBound
  BY StoringFinite DEF OverrunBound, OverrunLeft, RequestsTyped
<1> QED
  BY <1>1, <1>2, OverrunInit, PTL DEF Spec

-------------------------------------------------------------------------------
(* Linearizability: the Database implements TenantStore.                    *)

\* The engine is opened once and closed once, and a tenant without one is empty.
EngineOnce ==
  /\ state = "pending" <=> handle = "unopened"
  /\ engine = "open" <=> handle = "open"
  /\ handle \in {"unopened", "open", "closed"} /\ engine \in {"nil", "open"}
  /\ state \in {"pending", "active"}
  /\ data \in Maps
  /\ state = "pending" => data = Empty

\* What a handler has copied, and whether its answer is fixed, goes with its place.
HandlersPlaced ==
  /\ snap \in [Handlers -> {"nil", "open", "pending"}]
  /\ DOMAIN res = Handlers /\ res = [h \in Handlers |-> res[h]]
  /\ \A h \in Handlers : res[h] \in ReplyTypes(h)
  /\ \A h \in Handlers :
       /\ pc[h] = "idle" <=> op[h] = None
       /\ pc[h] = "answer" <=> res[h] # NoReply
       /\ pc[h] \in {"idle", "lookup", "lock"} => snap[h] = "nil"
       /\ pc[h] = "admit" /\ snap[h] = "pending" => op[h].op # "put"
       /\ pc[h] \in {"size", "call"} => snap[h] = "open"
       /\ snap[h] = "open" => handle # "unopened"

\* What the statuses say, and that NoReply is none of them.
LEMMA ResultsAreResponses ==
  ASSUME NEW r \in Requests, NEW m \in Maps
  PROVE  /\ Result(r, m) \in Responses
         /\ Meaning(Result(r, m)) =
              IF r.op = "get" THEN m[r.key] ELSE IF r.op = "range" THEN m ELSE "ok"
  BY ReplyAssumption DEF Result, Respond, Responses, Bodies, Maps, Requests, Meaning

LEMMA RefusalsRefuse ==
  ASSUME NEW x \in Refusals
  PROVE  x \in Responses /\ Meaning(x) = Refused
  BY ReplyAssumption DEF Refusals, Error, Respond, Responses, Bodies, Meaning, Unavailable

LEMMA UnavailableFails == Unavailable \in Responses /\ Meaning(Unavailable) = Failed
  BY ReplyAssumption DEF Unavailable, Error, Respond, Responses, Bodies, Meaning

LEMMA RepliesMean ==
  ASSUME NEW h \in Handlers, res[h] \in ReplyTypes(h), op[h] \in Requests \cup {None}
  PROVE  Meaning(res[h]) = NoReply <=> res[h] = NoReply
<1>1. CASE res[h] \in {NoReply, Undefined}
  BY <1>1, ReplyAssumption DEF Meaning
<1>2. CASE res[h] \in Refusals \cup {Unavailable}
  BY <1>2, RefusalsRefuse, UnavailableFails, ReplyAssumption
<1>3. CASE op[h] # None /\ \E m \in Maps : res[h] = Result(op[h], m)
  <2>1. PICK m \in Maps : res[h] = Result(op[h], m)
    BY <1>3
  <2>2. res[h] \in Responses /\ Meaning(res[h]) \in Bodies
    BY <1>3, <2>1, ResultsAreResponses DEF Bodies, Maps, Requests
  <2> QED
    BY <2>2, ReplyAssumption
<1> QED
  BY <1>1, <1>2, <1>3 DEF ReplyTypes

StoreInv == RequestsTyped /\ EngineOnce /\ HandlersPlaced

\* materialize opens the engine of a tenant that has none, Destroy closes it, and
\* nothing sets db.state back.
LEMMA EngineOnceStep ==
  ASSUME StoreInv, [Next]_vars
  PROVE  EngineOnce'
<1> USE DEF StoreInv, EngineOnce, HandlersPlaced, RequestsTyped, Empty, Maps
<1>1. ASSUME NEW h \in Handlers,
             Receive(h) \/ Lookup(h) \/ ReadLock(h) \/ Admit(h) \/ TotalSize(h) \/ Return(h)
      PROVE  EngineOnce'
  BY <1>1 DEF Receive, Lookup, ReadLock, Admit, TotalSize, Return
<1>2. ASSUME NEW h \in Handlers, PutLock(h) PROVE EngineOnce'
  BY <1>2 DEF PutLock
<1>3. ASSUME NEW h \in Handlers, EngineCall(h) PROVE EngineOnce'
  BY <1>3 DEF EngineCall, Execute, Requests
<1>4. CASE Destroy
  BY <1>4 DEF Destroy, EngineDropped
<1>5. CASE Resize
  BY <1>5 DEF Resize
<1>6. CASE UNCHANGED vars
  BY <1>6
<1> QED
  BY <1>1, <1>2, <1>3, <1>4, <1>5, <1>6 DEF Next

\* A handler without an engine to call goes straight to its answer.
LEMMA HandlersPlacedStep ==
  ASSUME StoreInv, [Next]_vars
  PROVE  HandlersPlaced'
<1> USE RequestAssumption DEF StoreInv, EngineOnce, HandlersPlaced, RequestsTyped, PCs, ReplyTypes
<1>1. ASSUME NEW h \in Handlers, Receive(h) PROVE HandlersPlaced'
  BY <1>1 DEF Receive
<1>2. \A x \in Refusals \cup {Unavailable, Undefined} : x # NoReply
  BY RefusalsRefuse, UnavailableFails, ReplyAssumption
<1>3. ASSUME NEW r \in Requests, NEW m \in Maps PROVE Result(r, m) # NoReply
  BY ResultsAreResponses, ReplyAssumption
<1>4. {Error(400), Error(401), Error(413), Error(429), Error(500), Error(507)} \subseteq Refusals
  BY DEF Refusals
<1>5. Empty \in Maps
  BY DEF Empty, Maps
<1>6. ASSUME NEW h \in Handlers, Lookup(h) PROVE HandlersPlaced'
  BY <1>2, <1>4, <1>6 DEF Lookup
<1>7. ASSUME NEW h \in Handlers, ReadLock(h) PROVE HandlersPlaced'
  BY <1>7 DEF ReadLock
<1>8. ASSUME NEW h \in Handlers, PutLock(h) PROVE HandlersPlaced'
  BY <1>2, <1>4, <1>8 DEF PutLock
<1>9. ASSUME NEW h \in Handlers, Admit(h) PROVE HandlersPlaced'
  BY <1>2, <1>3, <1>4, <1>5, <1>9 DEF Admit, PendingReply, Unavailable
<1>10. ASSUME NEW h \in Handlers, TotalSize(h) PROVE HandlersPlaced'
  BY <1>2, <1>4, <1>10 DEF TotalSize, Unavailable
<1>11. ASSUME NEW h \in Handlers, EngineCall(h) PROVE HandlersPlaced'
  BY <1>2, <1>3, <1>11 DEF EngineCall, EngineReply, Unavailable
<1>12. ASSUME NEW h \in Handlers, Return(h) PROVE HandlersPlaced'
  BY <1>12 DEF Return
<1>13. CASE Destroy
  BY <1>13 DEF Destroy
<1>14. CASE Resize
  BY <1>14 DEF Resize
<1>15. CASE UNCHANGED vars
  BY <1>15
<1> QED
  BY <1>1, <1>6, <1>7, <1>8, <1>9, <1>10, <1>11, <1>12, <1>13, <1>14, <1>15 DEF Next

\* Seen from the store, a step that moves none of these is no step.
Unseen == UNCHANGED <<data, Closed, Exposed, op, Reply, Tentative>>

\* Each step of the code is at most one step of the store.
LEMMA StoreStep ==
  ASSUME StoreInv, [Next]_vars
  PROVE  [Store!Next]_(Store!vars)
<1> USE RequestAssumption DEF StoreInv, EngineOnce, HandlersPlaced, RequestsTyped, PCs
<1> DEFINE Busy(h) == pc[h] \in {"lookup", "lock", "admit", "size", "call"}
<1>1. ASSUME NEW h \in Handlers, Busy(h), h \notin Tentative
      PROVE  Store!Unanswered(h)
  <2>1. op[h] # None /\ res[h] = NoReply
    BY <1>1
  <2>2. Reply[h] = NoReply
    BY <1>1, <2>1 DEF Reply, Meaning
  <2> QED
    BY <2>1, <2>2 DEF Store!Unanswered
\* How an answer looks from the store, wherever it is given.
<1>2. ASSUME NEW h \in Handlers, Busy(h), Goto(h, "answer"),
             res' = [res EXCEPT ![h] = res'[h]], UNCHANGED <<op, snap, handle>>
      PROVE  /\ Store!WillReply(h, Meaning(res'[h]))
             /\ Tentative' = Tentative \ {h}
             /\ Exposed' = Exposed \ {h}
             /\ h \notin Tentative => Tentative' = Tentative
             /\ h \notin Exposed => Exposed' = Exposed
  <2>1. Tentative' = Tentative \ {h}
    BY <1>2 DEF Tentative
  <2>2. Closed' = Closed
    BY <1>2 DEF Closed
  <2>3. Exposed' = Exposed \ {h}
    BY <1>2, <2>2 DEF Exposed
  <2>4. Reply' = [Reply EXCEPT ![h] = Meaning(res'[h])]
    BY <1>2, <2>1 DEF Reply
  <2>5. /\ h \notin Tentative => Tentative \ {h} = Tentative
        /\ h \notin Exposed => Exposed \ {h} = Exposed
    OBVIOUS
  <2> QED
    BY <1>2, <2>1, <2>2, <2>3, <2>4, <2>5 DEF Store!WillReply
<1>3. ASSUME NEW h \in Handlers, Busy(h), NEW x \in Refusals, Answer(h, x),
             UNCHANGED <<data, op, snap, handle>>
      PROVE  Store!Refuse(h)
  <2>1. Store!WillReply(h, Refused) /\ Tentative' = Tentative \ {h}
    <3>1. res'[h] = x /\ Meaning(x) = Refused
      BY <1>3, RefusalsRefuse
    <3> QED
      BY <1>2, <1>3, <3>1
  <2>2. Store!Unanswered(h) \/ h \in Tentative
    BY <1>1, <1>3
  <2> QED
    BY <1>3, <2>1, <2>2 DEF Store!Refuse
<1>4. ASSUME NEW h \in Handlers, Busy(h), Answer(h, Undefined), h \in Exposed,
             UNCHANGED <<data, op, snap, handle>>
      PROVE  Store!Misbehave(h)
  <2>1. h \notin Tentative
    BY <1>4 DEF Tentative, Exposed
  <2>2. Store!WillReply(h, Undefined) /\ Tentative' = Tentative
    <3>1. res'[h] = Undefined /\ Meaning(Undefined) = Undefined
      BY <1>4 DEF Meaning
    <3>2. Goto(h, "answer") /\ res' = [res EXCEPT ![h] = res'[h]]
      BY <1>4, <3>1
    <3>3. Store!WillReply(h, Meaning(res'[h])) /\ Tentative' = Tentative
      BY <1>2, <1>4, <2>1, <3>2
    <3> QED
      BY <3>1, <3>3
  <2>3. Store!Unanswered(h)
    BY <1>1, <1>4, <2>1
  <2> QED
    BY <1>4, <2>2, <2>3 DEF Store!Misbehave
<1>5. ASSUME NEW h \in Handlers, Busy(h), h \notin Tentative, Answer(h, Unavailable),
             \/ data' = data
             \/ ~Closed /\ data' = Store!After(op[h]),
             UNCHANGED <<op, snap, handle>>
      PROVE  Store!Fail(h)
  <2>1. Store!WillReply(h, Failed) /\ Tentative' = Tentative
    <3>1. res'[h] = Unavailable /\ Meaning(Unavailable) = Failed
      BY <1>5, UnavailableFails
    <3> QED
      BY <1>2, <1>5, <3>1
  <2> QED
    BY <1>1, <1>5, <2>1 DEF Store!Fail
<1>6. ASSUME NEW h \in Handlers, pc[h] \in {"admit", "size"}, snap[h] = "open",
             Goto(h, "call") \/ Goto(h, "size"),
             UNCHANGED <<data, op, snap, handle, res>>
      PROVE  Unseen
  <2>1. Tentative' = Tentative
    BY <1>6 DEF Tentative
  <2>2. Exposed' = Exposed /\ Closed' = Closed
    BY <1>6 DEF Exposed, Closed
  <2>3. Reply' = Reply
    BY <1>6, <2>1 DEF Reply
  <2> QED
    BY <1>6, <2>1, <2>2, <2>3 DEF Unseen
<1>7. ASSUME NEW h \in Handlers, Receive(h)
      PROVE  \E r \in Requests : Store!Call(h, r)
  <2>1. PICK r \in Requests : op' = [op EXCEPT ![h] = r]
    BY <1>7 DEF Receive
  <2>2. Closed' = Closed
    BY <1>7 DEF Receive, Closed
  <2>3. Exposed' = Exposed
    BY <1>7 DEF Receive, Closed, Exposed
  <2>4. Tentative' = Tentative
    BY <1>7 DEF Receive, Tentative
  <2>5. Reply' = Reply
    BY <1>7, <2>1, <2>4 DEF Receive, Reply, Tentative
  <2>6. op[h] = None /\ data' = data
    BY <1>7 DEF Receive
  <2>7. Store!Call(h, r)
    BY <2>1, <2>2, <2>3, <2>4, <2>5, <2>6 DEF Store!Call
  <2> QED
    BY <2>7
<1>8. {Error(400), Error(401), Error(413), Error(429), Error(500), Error(507)} \subseteq Refusals
  BY DEF Refusals
<1>9. ASSUME NEW h \in Handlers, Lookup(h)
      PROVE  Store!Refuse(h) \/ Unseen
  <2>1. CASE Answer(h, Error(400)) \/ Answer(h, Error(401))
    <3>1. Busy(h) /\ UNCHANGED <<data, op, snap, handle>>
      BY <1>9 DEF Lookup
    <3>2. Error(400) \in Refusals /\ Error(401) \in Refusals
      BY <1>8
    <3> QED
      BY <1>3, <2>1, <3>1, <3>2
  <2>2. CASE Goto(h, "lock") /\ UNCHANGED res
    <3>1. Tentative' = Tentative
      BY <1>9, <2>2 DEF Lookup, Tentative
    <3>2. Exposed' = Exposed /\ Closed' = Closed
      BY <1>9, <2>2 DEF Lookup, Exposed, Closed
    <3>3. Reply' = Reply
      BY <1>9, <2>2, <3>1 DEF Lookup, Reply, Tentative
    <3> QED
      BY <1>9, <3>1, <3>2, <3>3 DEF Lookup, Unseen
  <2> QED
    BY <1>9, <2>1, <2>2 DEF Lookup
<1>10. ASSUME NEW h \in Handlers, ReadLock(h)
      PROVE  Store!TakeEffect(h) \/ Unseen
  <2>1. /\ Closed' = Closed
        /\ Exposed' = Exposed
    BY <1>10 DEF ReadLock, Closed, Exposed
  <2>2. CASE state = "pending"
    <3>1. Tentative' = Tentative \cup {h} /\ h \notin Tentative
      BY <1>10, <2>2 DEF ReadLock, Tentative
    <3>2. Reply' = [Reply EXCEPT ![h] = Meaning(PendingReply(op[h]))]
      BY <1>10, <3>1 DEF ReadLock, Reply
    <3>3. /\ Meaning(PendingReply(op[h])) = Store!ReplyTo(op[h])
          /\ data' = data
          /\ Store!After(op[h]) = data
          /\ ~Closed
      <4>1. op[h] \in Requests /\ op[h].op \in {"get", "delete", "range"} /\ data = Empty
        BY <1>10, <2>2 DEF ReadLock, Requests
      <4>2. Meaning(PendingReply(op[h])) = Store!ReplyTo(op[h])
        BY <4>1, ResultsAreResponses DEF PendingReply, Store!ReplyTo
      <4> QED
        BY <1>10, <2>2, <4>1, <4>2 DEF ReadLock, Empty, Requests, Store!After, Closed
    <3>4. Store!Unanswered(h)
      BY <1>1, <1>10, <3>1 DEF ReadLock
    <3> QED
      BY <1>10, <2>1, <3>1, <3>2, <3>3, <3>4 DEF Store!TakeEffect, Store!WillReply, ReadLock
  <2>3. CASE state # "pending"
    <3>1. Tentative' = Tentative
      BY <1>10, <2>3 DEF ReadLock, Tentative
    <3>2. Reply' = Reply
      BY <1>10, <3>1 DEF ReadLock, Reply
    <3> QED
      BY <1>10, <2>1, <3>1, <3>2 DEF Unseen, ReadLock
  <2> QED
    BY <2>2, <2>3
<1>11. ASSUME NEW h \in Handlers, PutLock(h)
      PROVE  Store!Refuse(h) \/ Unseen
  <2>1. CASE (Answer(h, Error(413)) \/ Answer(h, Error(500))) /\ UNCHANGED <<handle, snap>>
    <3>1. Busy(h) /\ UNCHANGED <<data, op, snap, handle>>
      BY <1>11, <2>1 DEF PutLock
    <3>2. Error(413) \in Refusals /\ Error(500) \in Refusals
      BY <1>8
    <3> QED
      BY <1>3, <2>1, <3>1, <3>2
  <2>2. CASE Copy(h, "open") \/ Copy(h, "nil")
    <3>1. Closed' = Closed
      BY <1>11, <2>2 DEF PutLock, Closed
    <3>2. Exposed' = Exposed
      BY <1>11, <2>2, <3>1 DEF PutLock, Closed, Exposed
    <3>3. Tentative' = Tentative
      BY <1>11, <2>2 DEF PutLock, Tentative
    <3>4. Reply' = Reply
      BY <1>11, <2>2, <3>3 DEF PutLock, Reply
    <3> QED
      BY <1>11, <3>1, <3>2, <3>3, <3>4 DEF Unseen, PutLock
  <2> QED
    BY <1>11, <2>1, <2>2 DEF PutLock
<1>12. ASSUME NEW h \in Handlers, Admit(h)
      PROVE  Store!Refuse(h) \/ Store!Fail(h) \/ Store!Confirm(h) \/ Unseen
  <2>1. CASE Answer(h, Error(429))
    <3>1. Busy(h) /\ UNCHANGED <<data, op, snap, handle>>
      BY <1>12 DEF Admit
    <3>2. Error(429) \in Refusals
      BY <1>8
    <3> QED
      BY <1>3, <2>1, <3>1, <3>2
  <2>2. CASE snap[h] = "pending" /\ Answer(h, PendingReply(op[h]))
    <3>1. h \in Tentative /\ Reply[h] = Meaning(PendingReply(op[h]))
      BY <1>12, <2>2 DEF Admit, Tentative, Reply
    <3>2. /\ Store!WillReply(h, Meaning(PendingReply(op[h])))
          /\ Tentative' = Tentative \ {h}
          /\ Exposed' = Exposed \ {h}
      BY <1>2, <1>12, <2>2 DEF Admit
    <3>3. Reply' = Reply
      BY <3>1, <3>2 DEF Store!WillReply, Reply
    <3>4. Exposed' = Exposed
      BY <2>2, <3>2 DEF Exposed
    <3> QED
      BY <1>12, <3>2, <3>3, <3>4 DEF Admit, Store!Confirm, Store!WillReply
  <2>3. CASE snap[h] = "nil" /\ Answer(h, Error(503))
    BY <1>5, <1>12, <2>3 DEF Admit, Tentative, Unavailable
  <2>4. CASE snap[h] = "open" /\ (Goto(h, "size") \/ Goto(h, "call")) /\ UNCHANGED res
    BY <1>6, <1>12, <2>4 DEF Admit
  <2> QED
    BY <1>12, <2>1, <2>2, <2>3, <2>4 DEF Admit
<1>13. ASSUME NEW h \in Handlers, TotalSize(h)
      PROVE  Store!Refuse(h) \/ Store!Fail(h) \/ Store!Misbehave(h) \/ Unseen
  <2>1. CASE Answer(h, Error(507))
    <3>1. Busy(h) /\ UNCHANGED <<data, op, snap, handle>>
      BY <1>13 DEF TotalSize
    <3>2. Error(507) \in Refusals
      BY <1>8
    <3> QED
      BY <1>3, <2>1, <3>1, <3>2
  <2>2. CASE Answer(h, Error(503))
    BY <1>5, <1>13, <2>2 DEF TotalSize, Tentative, Unavailable
  <2>3. CASE handle = "closed" /\ Answer(h, Undefined)
    BY <1>4, <1>13, <2>3 DEF TotalSize, Exposed, Closed
  <2>4. CASE Goto(h, "call") /\ UNCHANGED res
    BY <1>6, <1>13, <2>4 DEF TotalSize
  <2> QED
    BY <1>13, <2>1, <2>2, <2>3, <2>4 DEF TotalSize
<1>14. ASSUME NEW h \in Handlers, EngineCall(h)
      PROVE  Store!TakeEffect(h) \/ Store!Fail(h) \/ Store!Misbehave(h)
  <2>1. h \notin Tentative /\ Store!Unanswered(h)
    BY <1>1, <1>14 DEF EngineCall, Tentative
  <2>2. CASE handle = "closed" /\ Answer(h, Undefined) /\ UNCHANGED data
    BY <1>4, <1>14, <2>2 DEF EngineCall, Exposed, Closed
  <2>3. CASE handle = "open" /\ Answer(h, EngineReply(op[h])) /\ Execute(op[h])
    <3>1. ~Closed /\ Exposed = {}
      BY <2>3 DEF Closed, Exposed
    <3>2. Meaning(EngineReply(op[h])) = Store!ReplyTo(op[h])
      BY <1>14, ResultsAreResponses DEF EngineCall, EngineReply, Store!ReplyTo
    <3>3. data' = Store!After(op[h])
      BY <2>3 DEF Execute, Store!After
    <3>4. /\ Store!WillReply(h, Meaning(EngineReply(op[h])))
          /\ Tentative' = Tentative /\ Exposed' = Exposed
      BY <1>2, <1>14, <2>1, <2>3, <3>1 DEF EngineCall
    <3> QED
      BY <2>1, <3>1, <3>2, <3>3, <3>4 DEF Store!TakeEffect
  <2>4. CASE handle = "open" /\ Answer(h, Error(503)) /\ (Execute(op[h]) \/ UNCHANGED data)
    <3>1. \/ data' = data
          \/ ~Closed /\ data' = Store!After(op[h])
      BY <2>4 DEF Closed, Execute, Store!After
    <3> QED
      BY <1>5, <1>14, <2>1, <2>4, <3>1 DEF EngineCall, Unavailable
  <2> QED
    BY <1>14, <2>2, <2>3, <2>4 DEF EngineCall
<1>15. ASSUME NEW h \in Handlers, Return(h)
      PROVE  Store!Return(h)
  <2>1. /\ Tentative' = Tentative /\ h \notin Tentative
        /\ Closed' = Closed
        /\ Exposed' = Exposed
    BY <1>15 DEF Return, Tentative, Closed, Exposed
  <2>2. Reply[h] # NoReply
    BY <1>15, <2>1, RepliesMean DEF Return, Reply
  <2>3. Reply' = [Reply EXCEPT ![h] = NoReply]
    <3>1. res' = [res EXCEPT ![h] = NoReply] /\ \A g \in Tentative : op'[g] = op[g]
      BY <1>15, <2>1 DEF Return
    <3>2. Meaning(NoReply) = NoReply
      BY DEF Meaning
    <3> QED
      BY <2>1, <3>1, <3>2 DEF Reply
  <2> QED
    BY <1>15, <2>1, <2>2, <2>3 DEF Return, Store!Return
<1>16. CASE Destroy
  <2>1. Tentative' = Tentative /\ Reply' = Reply /\ op' = op
    BY <1>16 DEF Destroy, Tentative, Reply
  <2>2. CASE engine = "open"
    <3>1. ~Closed /\ Closed' /\ data' = Empty
      BY <1>16, <2>2 DEF Destroy, Closed
    <3>2. Exposed' \in SUBSET {h \in Handlers : Store!Unanswered(h)}
      BY <1>16, <2>1, <2>2 DEF Destroy, Exposed, Closed, Store!Unanswered, Reply, Tentative, Meaning
    <3> QED
      BY <2>1, <3>1, <3>2 DEF Store!Close, Empty, Store!Next
  <2>3. CASE engine # "open"
    <3>1. UNCHANGED <<data, Closed, Exposed>>
      BY <1>16, <2>3 DEF Destroy, Closed, Exposed
    <3> QED
      BY <2>1, <3>1 DEF Store!vars
  <2> QED
    BY <2>2, <2>3
<1>17. CASE UNCHANGED <<data, handle, pc, op, snap, res>>
  BY <1>17 DEF Store!vars, Closed, Exposed, Tentative, Reply
<1> QED
  <2>1. Unseen => UNCHANGED Store!vars
    BY DEF Unseen, Store!vars
  <2>2. Resize \/ UNCHANGED vars => UNCHANGED <<data, handle, pc, op, snap, res>>
    BY DEF Resize
  <2>3. Requests = Store!Requests
    BY DEF Requests, Store!Requests
  <2> QED
    BY <1>7, <1>9, <1>10, <1>11, <1>12, <1>13, <1>14, <1>15, <1>16, <1>17, <2>1, <2>2, <2>3
    DEF Next, Store!Next

LEMMA StoreInvHolds == Spec => []StoreInv
<1>1. Init => StoreInv
  <2> SUFFICES ASSUME Init PROVE StoreInv
    OBVIOUS
  <2> QED
    BY OverrunInit DEF Init, StoreInv, EngineOnce, HandlersPlaced, Empty, Stored, Maps, ReplyTypes
<1>2. StoreInv /\ [Next]_vars => StoreInv'
  BY RequestsTypedStep, EngineOnceStep, HandlersPlacedStep DEF StoreInv
<1> QED
  BY <1>1, <1>2, PTL DEF Spec

\* A handler answers nothing but a refusal, 503, or what its own request may answer, and
\* nothing undefined but where the model says so.
THEOREM TypeCorrect == Spec => []TypeOK
<1>1. Init => unmapped \in BOOLEAN
  BY DEF Init
<1>2. unmapped \in BOOLEAN /\ [Next]_vars => (unmapped \in BOOLEAN)'
  BY DEF Next, Receive, Lookup, ReadLock, PutLock, Admit, TotalSize, EngineCall, Return,
         Destroy, Resize
<1>3. StoreInv /\ unmapped \in BOOLEAN => TypeOK
  BY DEF StoreInv, RequestsTyped, EngineOnce, HandlersPlaced, PCs, TypeOK
<1> QED
  BY <1>1, <1>2, <1>3, StoreInvHolds, PTL DEF Spec

\* Every request takes effect at one instant between its call and its answer, or not
\* at all when it is refused; only requests that a teardown overlapped can go wrong.
THEOREM Linearizable == Spec => LinearizableStore
<1>1. Init => Store!Init
  <2> SUFFICES ASSUME Init PROVE Store!Init
    OBVIOUS
  <2>1. Exposed = {} /\ Tentative = {} /\ Closed = FALSE
    BY DEF Init, Exposed, Tentative, Closed
  <2>2. Reply = [h \in Handlers |-> NoReply]
    BY <2>1 DEF Init, Reply, Meaning
  <2>3. data \in [Keys -> Values \cup {Missing}]
    BY DEF Init, Empty, Stored
  <2> QED
    BY <2>1, <2>2, <2>3 DEF Init, Store!Init
<1>2. StoreInv /\ [Next]_vars => [Store!Next]_(Store!vars)
  BY StoreStep
<1> QED
  BY <1>1, <1>2, StoreInvHolds, PTL DEF Spec, LinearizableStore, Store!Spec
================================================================================
