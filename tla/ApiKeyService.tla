----------------------------- MODULE ApiKeyService -----------------------------
(***************************************************************************)
(* What the tenant manager promises about API keys, without its locks, its *)
(* files and its crashes: a key is created once, answered to one client at *)
(* most, and revoked once and for all.  DatabaseManager implements it with *)
(* live read off keys.txt: rewriting that file in two steps, and being     *)
(* killed between any two, looks like one atomic removal of one key.       *)
(***************************************************************************)
CONSTANT ApiKeys

VARIABLES
  live,     \* keys the service answers for, after a restart too
  issued,   \* keys a client was given
  revoked   \* keys whose removal was confirmed to a client

vars == <<live, issued, revoked>>

Init == live = {} /\ issued = {} /\ revoked = {}

Create(k) ==
  /\ k \notin live \cup issued \cup revoked
  /\ live' = live \cup {k}
  /\ UNCHANGED <<issued, revoked>>

Issue(k) ==
  /\ k \in live \ issued
  /\ issued' = issued \cup {k}
  /\ UNCHANGED <<live, revoked>>

Revoke(k) ==
  /\ k \in live
  /\ live' = live \ {k}
  /\ revoked' = revoked \cup {k}
  /\ UNCHANGED issued

Next == \E k \in ApiKeys : Create(k) \/ Issue(k) \/ Revoke(k)

Spec == Init /\ [][Next]_vars
================================================================================
