---------------------------- MODULE DatabaseManager ----------------------------
(***************************************************************************)
(* The tenant manager of fredb (server/database-manager.go) with the part  *)
(* of Database (server/database.go) that creates and destroys a tenant's   *)
(* database: API keys are handed out, registered in keys.txt, materialised *)
(* on the first Put, torn down by Deprovision, and reloaded by LoadAll     *)
(* after the process was killed at any point.                              *)
(*                                                                         *)
(* Goroutines interleave at every file-system operation and every lock     *)
(* acquisition.  A section that runs under a read lock and touches no file *)
(* is one step, enabled when no writer holds the lock.  A *Database is     *)
(* named by its API key: as long as no key is drawn twice (RepeatDraws), a *)
(* key gets one object per run of the process.                             *)
(***************************************************************************)
EXTENDS Naturals

CONSTANTS
  ApiKeys,      \* the names tenants can have: keys, and lines that are no key
  Fragments,    \* of those, what appends that fail half way make lines of
  Handlers,     \* goroutines that serve requests; the reaper is one of them
  None,         \* no handler, no key
  RepeatDraws   \* two concurrent calls of generateAPIKey can draw one key

ASSUME ManagerAssumption ==
  /\ None \notin ApiKeys \cup Handlers
  /\ Fragments \subseteq ApiKeys
  /\ RepeatDraws \in BOOLEAN

VARIABLES
  \* the process
  serving,    \* main is past LoadAll
  loading,    \* registered keys LoadAll has yet to visit
  skipped,    \* keys LoadAll gave up on because their engine did not open
  asking,     \* tenants the reaper's scan has yet to come to
  tenants,    \* keys of man.tenants
  state,      \* db.state
  engine,     \* db.engine: "nil", or "open" when it is set
  handles,    \* engine handles open on the tenant's directory
  manMu,      \* the writer that holds man.mu
  dbMu,       \* the writer that holds db.mu
  pc, key,    \* what each handler does next, and for which key
  \* the disk
  registry,   \* the lines of keys.txt
  torn,       \* the last of them, when it has no newline
  tmp,        \* the keys in keys.txt.tmp
  dir,        \* each tenant's directory
  \* what the outside has seen; no step of the code reads these
  drawn,      \* keys generateAPIKey has returned
  garbled,    \* fragments, keys without their newline, keys glued to a fragment
  issued,     \* keys answered to a client
  written,    \* keys for which a Put reached materialize
  acked,      \* keys with a Put that was answered 204
  doomed,     \* keys whose Deprovision found them and began to tear down
  revoked     \* keys whose Deprovision was answered 204

background == <<serving, loading, skipped, asking>>
dbs     == <<state, engine, handles>>
locks   == <<manMu, dbMu>>
handler == <<pc, key>>
keysTxt == <<registry, torn, tmp>>
process == <<background, tenants, dbs, locks, handler>>
disk    == <<keysTxt, dir>>
seen    == <<drawn, garbled, issued, written, acked, doomed, revoked>>
vars    == <<process, disk, seen>>

\* Where a handler is while it holds man.mu, and while it holds a db.mu.
HoldsManMu == {"append", "insert", "destroy", "removeAll", "unmap", "writeTmp", "rename"}
HoldsDbMu  == {"mkdir", "open", "removeAll"}
Waiting    == {"generated", "put"}
PCs        == HoldsManMu \cup HoldsDbMu \cup Waiting \cup {"idle", "write", "scan"}

DirStates == {"none", "empty", "db", "partial"}

Init ==
  /\ serving = FALSE /\ loading = {} /\ skipped = {} /\ asking = {} /\ tenants = {}
  /\ state   = [k \in ApiKeys |-> "pending"]
  /\ engine  = [k \in ApiKeys |-> "nil"]
  /\ handles = [k \in ApiKeys |-> 0]
  /\ manMu = None
  /\ dbMu  = [k \in ApiKeys |-> None]
  /\ pc    = [h \in Handlers |-> "idle"]
  /\ key   = [h \in Handlers |-> None]
  /\ registry = {} /\ torn = None /\ tmp = {}
  /\ dir = [k \in ApiKeys |-> "none"]
  /\ drawn = {} /\ garbled = {} /\ issued = {} /\ written = {} /\ acked = {}
  /\ doomed = {} /\ revoked = {}

-------------------------------------------------------------------------------
(* Steps of a handler. *)

At(h, label)   == serving /\ pc[h] = label
Goto(h, label) == pc' = [pc EXCEPT ![h] = label] /\ UNCHANGED key
Take(h, k, label) ==
  /\ pc'  = [pc EXCEPT ![h] = label]
  /\ key' = [key EXCEPT ![h] = k]
Answer(h) == Take(h, None, "idle")

\* Mutant: the lock is taken for reading only.
DbMuShared(k) == TRUE
DbMuFree(k) == dbMu[k] = None
\* The scan of the reaper is the one reader of man.mu that keeps it while it waits.
Scanning  == \E h \in Handlers : pc[h] = "scan"
ManMuFree == manMu = None /\ ~Scanning

(***************************************************************************)
(* POST /provision.  24 random bytes do not repeat a key drawn before,     *)
(* except, when RepeatDraws holds, one that another call has just drawn.   *)
(* A draw that is already a tenant is retried and leaves no trace.         *)
(***************************************************************************)
BeingDrawn(k) ==
  k \notin issued /\ \E h \in Handlers : pc[h] = "generated" /\ key[h] = k

GenerateAPIKey(h) ==
  /\ At(h, "idle")
  /\ manMu = None
  /\ \E k \in ApiKeys \ (tenants \cup Fragments) :
       /\ k \notin drawn \/ (RepeatDraws /\ BeingDrawn(k))
       /\ drawn' = drawn \cup {k}
       /\ Take(h, k, "generated")
  /\ UNCHANGED <<background, tenants, dbs, locks, disk, garbled, issued, written,
                 acked, doomed, revoked>>

\* Mutant: the check under the write lock is forgotten.
NotRechecked(k) == FALSE
AlreadyProvisioned(k) == k \in tenants

RequestProvision(h) ==
  /\ At(h, "generated")
  /\ ManMuFree
  /\ \/ /\ AlreadyProvisioned(key[h])
        /\ Answer(h) /\ UNCHANGED manMu
     \/ /\ ~AlreadyProvisioned(key[h])
        /\ Goto(h, "append") /\ manMu' = h
  /\ UNCHANGED <<background, tenants, dbs, dbMu, disk, seen>>

\* Mutant: the error of the append is dropped.
AppendErrorDropped(h) == Goto(h, "insert") /\ UNCHANGED manMu
AppendFailed(h) == Answer(h) /\ manMu' = None

\* The bytes go behind what the file ends in.  A fragment, alone or with what comes
\* after it, makes a line that readRegistry takes for a key of its own: each such line
\* has a name of Fragments, or its key's if only the newline is missing.  No client
\* sends such a name, and there are as many failures as Fragments has names.
NewLines == Fragments \ garbled
EndWith(line, newline) ==
  /\ registry' = (registry \ {torn}) \cup {line}
  /\ torn' = IF newline THEN None ELSE line

AppendToRegistry(h) ==
  LET k == key[h] IN
  /\ At(h, "append")
  /\ \/ /\ torn = None /\ EndWith(k, TRUE)
        /\ Goto(h, "insert") /\ UNCHANGED <<manMu, garbled>>
     \/ /\ torn # None
        /\ \E line \in NewLines :
             EndWith(line, TRUE) /\ garbled' = garbled \cup {line, k}
        /\ Goto(h, "insert") /\ UNCHANGED manMu
     \/ AppendFailed(h) /\ UNCHANGED <<registry, torn, garbled>>
     \/ /\ \E line \in NewLines \cup (IF torn = None THEN {k} ELSE {}) :
             EndWith(line, FALSE) /\ garbled' = garbled \cup {line}
        /\ Fragments # {} /\ AppendFailed(h)              \* failed half way
  /\ UNCHANGED <<background, tenants, dbs, dbMu, tmp, dir, drawn, issued, written, acked,
                 doomed, revoked>>

InsertTenant(h) ==
  /\ At(h, "insert")
  /\ tenants' = tenants \cup {key[h]}
  /\ state'   = [state EXCEPT ![key[h]] = "pending"]
  /\ engine'  = [engine EXCEPT ![key[h]] = "nil"]
  /\ issued'  = issued \cup {key[h]}
  /\ manMu' = None /\ Answer(h)
  /\ UNCHANGED <<background, handles, dbMu, disk, drawn, garbled, written, acked,
                 doomed, revoked>>

(***************************************************************************)
(* PUT /key/...: Lookup, the section of Put under db.mu with materialize   *)
(* in it, and the engine call that follows once db.mu is released.         *)
(***************************************************************************)
Lookup(h) ==
  /\ At(h, "idle")
  /\ manMu = None
  /\ \E k \in tenants \ Fragments : Take(h, k, "put")
  /\ UNCHANGED <<background, tenants, dbs, locks, disk, seen>>

\* An active tenant's engine is read and the lock released at once; errGone if nil.
PutLock(h) ==
  LET k == key[h] IN
  /\ At(h, "put")
  /\ DbMuFree(k)
  /\ \/ /\ state[k] = "pending"
        /\ dbMu' = [dbMu EXCEPT ![k] = h] /\ Goto(h, "mkdir")
     \/ /\ state[k] = "active" /\ engine[k] = "open"
        /\ Goto(h, "write") /\ UNCHANGED dbMu
     \/ /\ state[k] = "active" /\ engine[k] = "nil"
        /\ Answer(h) /\ UNCHANGED dbMu
  /\ UNCHANGED <<background, tenants, dbs, manMu, disk, seen>>

\* Mutant: this return forgets db.mu.Unlock().
ReturnLocked(h) == Answer(h) /\ UNCHANGED dbMu
MaterializeFailed(h) == Answer(h) /\ dbMu' = [dbMu EXCEPT ![key[h]] = None]

MaterializeMkdir(h) ==
  LET k == key[h] IN
  /\ At(h, "mkdir")
  /\ written' = written \cup {k}
  /\ \/ /\ dir' = [dir EXCEPT ![k] = IF @ = "none" THEN "empty" ELSE @]
        /\ Goto(h, "open") /\ UNCHANGED dbMu
     \/ MaterializeFailed(h) /\ UNCHANGED dir
  /\ UNCHANGED <<background, tenants, dbs, manMu, keysTxt, drawn, garbled, issued, acked,
                 doomed, revoked>>

\* InitializeEngine; the activity marker written next can fail without effect.
MaterializeOpen(h) ==
  LET k == key[h] IN
  /\ At(h, "open")
  /\ \/ /\ dir'     = [dir EXCEPT ![k] = "db"]
        /\ engine'  = [engine EXCEPT ![k] = "open"]
        /\ handles' = [handles EXCEPT ![k] = @ + 1]
        /\ state'   = [state EXCEPT ![k] = "active"]
        /\ dbMu'    = [dbMu EXCEPT ![k] = None]
        /\ Goto(h, "write")
     \/ MaterializeFailed(h) /\ UNCHANGED <<dir, engine, handles, state>>
  /\ UNCHANGED <<background, tenants, manMu, keysTxt, seen>>

\* Only a write on a handle nobody closed stores anything; otherwise, and whenever
\* the limits or the engine refuse it, the Put is not counted as answered 204.
Write(h) ==
  /\ At(h, "write")
  /\ \/ engine[key[h]] = "open" /\ acked' = acked \cup {key[h]}
     \/ UNCHANGED acked
  /\ Answer(h)
  /\ UNCHANGED <<background, tenants, dbs, locks, disk, drawn, garbled, issued, written,
                 doomed, revoked>>

(***************************************************************************)
(* DELETE /provision, and the reaper's call of Deprovision.                *)
(***************************************************************************)
Deprovision(h) ==
  /\ At(h, "idle")
  /\ ManMuFree
  /\ \E k \in (issued \cup tenants) \ Fragments :
       \/ k \notin tenants /\ UNCHANGED <<handler, manMu, doomed>>        \* 404
       \/ /\ k \in tenants
          /\ Take(h, k, "destroy") /\ manMu' = h
          /\ doomed' = doomed \cup {k}
  /\ UNCHANGED <<background, tenants, dbs, dbMu, disk, drawn, garbled, issued, written,
                 acked, revoked>>

\* Mutant: Destroy closes whatever handle the tenant had.
CloseAlways(k) == TRUE
EngineIsSet(k) == engine[k] = "open"

DestroyClose(h) ==
  LET k == key[h] IN
  /\ At(h, "destroy")
  /\ DbMuFree(k)
  /\ dbMu' = [dbMu EXCEPT ![k] = h]
  /\ \/ /\ EngineIsSet(k)
        /\ engine'  = [engine EXCEPT ![k] = "nil"]
        /\ handles' = [handles EXCEPT ![k] = @ - 1]
     \/ ~EngineIsSet(k) /\ UNCHANGED <<engine, handles>>
  /\ Goto(h, "removeAll")
  /\ UNCHANGED <<background, tenants, state, manMu, disk, seen>>

\* os.RemoveAll of a directory that is not there succeeds; one that fails has
\* removed some of the files or none.
DestroyRemoveAll(h) ==
  LET k == key[h] IN
  /\ At(h, "removeAll")
  /\ dbMu' = [dbMu EXCEPT ![k] = None]
  /\ \/ /\ dir' = [dir EXCEPT ![k] = "none"]
        /\ Goto(h, "unmap") /\ UNCHANGED manMu
     \/ /\ dir[k] # "none"                         \* errInternal
        /\ \E d \in {dir[k], "partial"} : dir' = [dir EXCEPT ![k] = d]
        /\ Answer(h) /\ manMu' = None
  /\ UNCHANGED <<background, tenants, dbs, keysTxt, seen>>

UnmapTenant(h) ==
  /\ At(h, "unmap")
  /\ tenants' = tenants \ {key[h]}
  /\ Goto(h, "writeTmp")
  /\ UNCHANGED <<background, dbs, locks, disk, seen>>

\* removeFromRegistry: read keys.txt, write the other lines to keys.txt.tmp, rename.
\* The rewritten file ends in a newline whatever the old one ended in.
\* Mutant: the file is rewritten from man.tenants.
OtherTenants(k) == tenants \ {k}
OtherKeys(k) == registry \ {k}

WriteTmp(h) ==
  /\ At(h, "writeTmp")
  /\ \/ /\ tmp' = OtherKeys(key[h])
        /\ Goto(h, "rename") /\ UNCHANGED manMu
     \/ /\ Answer(h) /\ manMu' = None              \* errInternal
        /\ UNCHANGED tmp
  /\ UNCHANGED <<background, tenants, dbs, dbMu, registry, torn, dir, seen>>

\* Mutant: the error of removeFromRegistry is dropped.
RenameErrorDropped(h) == revoked' = revoked \cup {key[h]} /\ UNCHANGED keysTxt
RenameFailed(h) == UNCHANGED <<keysTxt, revoked>>

RenameTmp(h) ==
  /\ At(h, "rename")
  /\ \/ /\ registry' = tmp /\ torn' = None /\ tmp' = {}
        /\ revoked' = revoked \cup {key[h]}
     \/ RenameFailed(h)                            \* errInternal
  /\ Answer(h) /\ manMu' = None
  /\ UNCHANGED <<background, tenants, dbs, dbMu, dir, drawn, garbled, issued, written,
                 acked, doomed>>

(***************************************************************************)
(* The scan of reapInactive: it holds man.mu for reading and takes the     *)
(* db.mu of one tenant after the other, in the order a map gives them.     *)
(* There is one reaper.  Its markers and its choice are in Reaper.         *)
(***************************************************************************)
ReapInactive(h) ==
  /\ At(h, "idle")
  /\ ManMuFree
  /\ \E k \in tenants : Take(h, k, "scan") /\ asking' = tenants \ {k}
  /\ UNCHANGED <<serving, loading, skipped, tenants, dbs, locks, disk, seen>>

IsPending(h) ==
  /\ At(h, "scan")
  /\ DbMuFree(key[h])
  /\ \/ asking = {} /\ Answer(h) /\ UNCHANGED asking
     \/ \E k \in asking : Take(h, k, "scan") /\ asking' = asking \ {k}
  /\ UNCHANGED <<serving, loading, skipped, tenants, dbs, locks, disk, seen>>

-------------------------------------------------------------------------------
(* The process is killed, and started again. *)

Crash ==
  /\ serving' = FALSE /\ loading' = registry /\ skipped' = {} /\ asking' = {} /\ tenants' = {}
  /\ state'   = [k \in ApiKeys |-> "pending"]
  /\ engine'  = [k \in ApiKeys |-> "nil"]
  /\ handles' = [k \in ApiKeys |-> 0]
  /\ manMu' = None
  /\ dbMu'  = [k \in ApiKeys |-> None]
  /\ pc'    = [h \in Handlers |-> "idle"]
  /\ key'   = [h \in Handlers |-> None]
  /\ UNCHANGED <<disk, seen>>

\* Mutant: LoadAll opens every registered key.
OpenEveryKey(k) == FALSE
NeverMaterialized(k) == dir[k] = "none"

\* Mutant: LoadAll clears the directory of a key that does not open.
ClearBadKey(k) == skipped' = skipped \cup {k} /\ dir' = [dir EXCEPT ![k] = "none"]
SkipKey(k) == skipped' = skipped \cup {k} /\ UNCHANGED dir

\* One turn of LoadAll's loop: a key without a directory is pending, any other
\* is opened, and skipped when it does not open.
LoadKey(k) ==
  /\ ~serving
  /\ k \in loading
  /\ loading' = loading \ {k}
  /\ \/ /\ NeverMaterialized(k)
        /\ tenants' = tenants \cup {k}
        /\ UNCHANGED <<skipped, dbs, dir>>
     \/ /\ ~NeverMaterialized(k)
        /\ dir'     = [dir EXCEPT ![k] = "db"]
        /\ engine'  = [engine EXCEPT ![k] = "open"]
        /\ handles' = [handles EXCEPT ![k] = @ + 1]
        /\ state'   = [state EXCEPT ![k] = "active"]
        /\ tenants' = tenants \cup {k}
        /\ UNCHANGED skipped
     \/ /\ ~NeverMaterialized(k)
        /\ SkipKey(k)
        /\ UNCHANGED <<tenants, dbs>>
  /\ UNCHANGED <<serving, asking, locks, handler, keysTxt, seen>>

ListenAndServe ==
  /\ ~serving
  /\ loading = {}
  /\ serving' = TRUE
  /\ UNCHANGED <<loading, skipped, asking, tenants, dbs, locks, handler, disk, seen>>

-------------------------------------------------------------------------------
Step(h) ==
  \/ RequestProvision(h) \/ AppendToRegistry(h) \/ InsertTenant(h)
  \/ PutLock(h) \/ MaterializeMkdir(h) \/ MaterializeOpen(h) \/ Write(h)
  \/ DestroyClose(h) \/ DestroyRemoveAll(h) \/ UnmapTenant(h)
  \/ WriteTmp(h) \/ RenameTmp(h) \/ IsPending(h)

Request(h) == GenerateAPIKey(h) \/ Lookup(h) \/ Deprovision(h) \/ ReapInactive(h)

Next ==
  \/ \E h \in Handlers : Request(h) \/ Step(h)
  \/ \E k \in ApiKeys : LoadKey(k)
  \/ ListenAndServe
  \/ Crash

Spec == Init /\ [][Next]_vars

(***************************************************************************)
(* A goroutine that can run does run.  A call of Lock on a Go RWMutex or   *)
(* Mutex holds back later readers and is served in turn, so a handler that *)
(* finds its lock free again and again gets it: strong fairness.           *)
(***************************************************************************)
Fairness == \A h \in Handlers : SF_vars(Step(h))

FairSpec == Spec /\ Fairness

-------------------------------------------------------------------------------
TypeOK ==
  /\ serving \in BOOLEAN
  /\ loading \in SUBSET ApiKeys /\ skipped \in SUBSET ApiKeys /\ asking \in SUBSET ApiKeys
  /\ tenants \in SUBSET ApiKeys
  /\ state   \in [ApiKeys -> {"pending", "active"}]
  /\ engine  \in [ApiKeys -> {"nil", "open"}]
  /\ handles \in [ApiKeys -> Nat]
  /\ manMu \in Handlers \cup {None}
  /\ dbMu  \in [ApiKeys -> Handlers \cup {None}]
  /\ pc    \in [Handlers -> PCs]
  /\ key   \in [Handlers -> ApiKeys \cup {None}]
  /\ registry \in SUBSET ApiKeys /\ torn \in ApiKeys \cup {None} /\ tmp \in SUBSET ApiKeys
  /\ dir \in [ApiKeys -> DirStates]
  /\ drawn \in SUBSET ApiKeys /\ garbled \in SUBSET ApiKeys
  /\ issued \in SUBSET ApiKeys /\ written \in SUBSET ApiKeys
  /\ acked \in SUBSET ApiKeys /\ doomed \in SUBSET ApiKeys /\ revoked \in SUBSET ApiKeys

\* A key a client was given, and nobody began to tear down, stays in keys.txt
\* whatever is killed or fails, so every restart either serves it or skips it.  An
\* append that fails half way costs the next key that is registered, and no other.
Kept == issued \ doomed

KeysSurvive ==
  /\ Kept \ garbled \subseteq registry
  /\ serving => Kept \ garbled \subseteq tenants \cup skipped

\* A restart should restore a key, "not lose it" (server/database_manager_test.go:432).
\* It fails for the key that was glued to a fragment.
RestartKeepsKeys == serving => Kept \subseteq tenants \cup skipped

\* A Deprovision answered 204 is final: the key is neither served nor
\* registered ever again, so that no restart brings it back.
RevokedForever == revoked \cap (tenants \cup registry) = {}

\* However many first writes race, and whatever is torn down meanwhile, one
\* engine at most is open on a tenant's directory: materialize and Destroy
\* exclude each other under db.mu (server/database.go:172, 119).
SingleHandle == \A k \in ApiKeys : handles[k] <= 1

\* A Put answered 204 is on disk until somebody begins to tear its tenant down.
AckedOnDisk == \A k \in acked \ doomed : dir[k] = "db"

\* No directory is made before a write: reads, RequestProvision and LoadAll
\* leave a pending key without one (server/database_manager_test.go:71, 432).
NoDirBeforeWrite == \A k \in ApiKeys : dir[k] # "none" => k \in written

\* A client's key is not handed to a second client while the first may use it,
\* even when two calls of generateAPIKey draw the same bytes.
OneOwner ==
  \A h \in Handlers : pc[h] \in {"append", "insert"} => key[h] \notin Kept

\* The manager implements ApiKeyService with keys.txt as the set of live keys, as far
\* as keys have a line of their own in it.
Keys == INSTANCE ApiKeyService WITH
  live <- registry \ garbled, issued <- issued \ garbled, revoked <- revoked \ garbled
KeyService == Keys!Spec

\* Every request that is waiting for a lock, or holds one, is answered (or dies
\* with the process): no order of man.mu and db.mu makes handlers wait on
\* each other for ever.
EveryRequestAnswered ==
  \A h \in Handlers : pc[h] # "idle" ~> pc[h] = "idle"

\* What holds up the next step, or the next request, of h: the holder of man.mu, the
\* scan where a writer of man.mu is meant, the holder of the tenant's db.mu.
HoldsUp(g, h) ==
  \/ pc[h] \in {"idle", "generated"} /\ (manMu = g \/ pc[g] = "scan")
  \/ pc[h] \in {"put", "destroy", "scan"} /\ dbMu[key[h]] = g

\* Waiting is never circular, nor for a lock that its holder has left behind: who
\* holds somebody up is inside a section, and can go on as soon as one other
\* handler at most, which can go on at once, has left its own.  So man.mu is taken
\* before db.mu (server/database-manager.go:211, 218), and every return unlocks.
Running(h) == pc[h] # "idle" /\ \A g \in Handlers : ~HoldsUp(g, h)

NoCircularWait ==
  \A g, h \in Handlers : HoldsUp(g, h) =>
    \/ Running(g)
    \/ pc[g] # "idle" /\ \A f \in Handlers : HoldsUp(f, g) => Running(f)

\* DELETE /provision "tears down the tenant named by key"
\* (integration-tests/integration_test.go:168): once answered 204 there is no
\* directory left.  It fails: a Put that looked the pending tenant up before
\* materialises it afterwards.
TornDown == \A k \in revoked : dir[k] = "none"
================================================================================
