------------------------------ MODULE TenantStore ------------------------------
(***************************************************************************)
(* What one tenant's Database promises its clients: a map whose operations *)
(* each take effect at one instant between call and answer, until the      *)
(* store is closed for good.  A request that is refused has changed        *)
(* nothing; one that failed may or may not have.  Only requests that were  *)
(* in progress when the store was closed can be answered anything at all.  *)
(***************************************************************************)
CONSTANTS
  Clients, Keys, Values,
  Missing,    \* what a key without a value maps to
  NoCall, NoReply,
  Refused, Failed, Undefined

VARIABLES
  data,       \* the map
  closed,     \* whether the store has been torn down
  exposed,    \* clients whose request the teardown overlapped
  call,       \* each client's request, or NoCall
  reply,      \* what it is going to be answered, or NoReply
  tentative   \* clients whose request took effect, changed nothing, and may be refused yet

vars == <<data, closed, exposed, call, reply, tentative>>

Requests ==
  [op : {"get", "delete"}, key : Keys] \cup [op : {"put"}, key : Keys, value : Values]
    \cup [op : {"range"}]

\* What r answers and what it makes of the map.
ReplyTo(r) == IF r.op = "get" THEN data[r.key] ELSE IF r.op = "range" THEN data ELSE "ok"
After(r) ==
  IF r.op \in {"get", "range"} THEN data
  ELSE [data EXCEPT ![r.key] = IF r.op = "put" THEN r.value ELSE Missing]

Init ==
  /\ data \in [Keys -> Values \cup {Missing}] /\ closed = FALSE /\ exposed = {}
  /\ call  = [c \in Clients |-> NoCall]
  /\ reply = [c \in Clients |-> NoReply]
  /\ tentative = {}

Unanswered(c) == call[c] # NoCall /\ reply[c] = NoReply

WillReply(c, x) ==
  /\ reply' = [reply EXCEPT ![c] = x]
  /\ exposed' \in SUBSET exposed
  /\ UNCHANGED <<closed, call>>

Call(c, r) ==
  /\ call[c] = NoCall
  /\ call' = [call EXCEPT ![c] = r]
  /\ UNCHANGED <<data, closed, exposed, reply, tentative>>

TakeEffect(c) ==
  /\ Unanswered(c) /\ ~closed
  /\ WillReply(c, ReplyTo(call[c]))
  /\ data' = After(call[c])
  /\ \/ UNCHANGED tentative
     \/ data' = data /\ tentative' = tentative \cup {c}

Confirm(c) ==
  /\ tentative' = tentative \ {c}
  /\ UNCHANGED <<data, closed, exposed, call, reply>>

Refuse(c) ==
  /\ Unanswered(c) \/ c \in tentative
  /\ WillReply(c, Refused)
  /\ tentative' = tentative \ {c}
  /\ UNCHANGED data

Fail(c) ==
  /\ Unanswered(c)
  /\ WillReply(c, Failed)
  /\ \/ data' = data
     \/ ~closed /\ data' = After(call[c])
  /\ UNCHANGED tentative

Misbehave(c) ==
  /\ Unanswered(c) /\ c \in exposed
  /\ WillReply(c, Undefined)
  /\ UNCHANGED <<data, tentative>>

Return(c) ==
  /\ reply[c] # NoReply /\ c \notin tentative
  /\ call'  = [call EXCEPT ![c] = NoCall]
  /\ reply' = [reply EXCEPT ![c] = NoReply]
  /\ UNCHANGED <<data, closed, exposed, tentative>>

Close ==
  /\ ~closed
  /\ closed' = TRUE /\ data' = [k \in Keys |-> Missing]
  /\ exposed' \in SUBSET {c \in Clients : Unanswered(c)}
  /\ UNCHANGED <<call, reply, tentative>>

Next ==
  \/ \E c \in Clients :
       \/ \E r \in Requests : Call(c, r)
       \/ TakeEffect(c) \/ Confirm(c) \/ Refuse(c) \/ Fail(c) \/ Misbehave(c) \/ Return(c)
  \/ Close

Spec == Init /\ [][Next]_vars
================================================================================
