------------------------- MODULE DatabaseManager_proof -------------------------
(***************************************************************************)
(* Proofs about DatabaseManager, for any sets of keys and of handlers.     *)
(*                                                                         *)
(* EngineInv is inductive as long as no key is drawn twice (24 random      *)
(* bytes): its parts say who holds which lock, who can know which key,     *)
(* which engine handles are open, what is on disk behind them, and what a  *)
(* teardown has done so far.  RegistryInv relates keys.txt to man.tenants, *)
(* as far as an append that failed half way has not garbled a line.        *)
(***************************************************************************)
EXTENDS DatabaseManager, TLAPS

-------------------------------------------------------------------------------
(* Locks. *)

\* A handler in a section under a lock is the one that holds it, and the scan shuts
\* out whoever would write man.tenants.
LocksHeld ==
  \A h \in Handlers :
    /\ pc[h] # "idle" => key[h] \in ApiKeys
    /\ pc[h] \in HoldsManMu => manMu = h
    /\ pc[h] \in HoldsDbMu => dbMu[key[h]] = h
    /\ pc[h] = "scan" => manMu = None /\ key[h] \in tenants /\ asking \subseteq tenants

\* Nothing runs before LoadAll is done, and it opens each key once.
LoadingAlone ==
  ~serving =>
    /\ \A h \in Handlers : pc[h] = "idle"
    /\ loading \subseteq registry
    /\ loading \cap tenants = {}
    /\ \A k \in ApiKeys : engine[k] = "open" => k \in tenants

LockInv == LocksHeld /\ LoadingAlone

-------------------------------------------------------------------------------
(* Keys: what has not been drawn is unknown everywhere, and what has just  *)
(* been drawn is known to the handler that drew it only.                   *)

DrawnFirst ==
  /\ tenants \cup registry \cup tmp \cup issued \cup revoked \subseteq drawn \cup garbled
  /\ garbled \subseteq drawn \cup Fragments /\ drawn \cap Fragments = {}
  /\ torn # None => torn \in garbled
  /\ \A h \in Handlers : pc[h] # "idle" => key[h] \in drawn \cup garbled
  /\ \A k \in ApiKeys : engine[k] = "open" => k \in drawn \cup garbled

FreshAlone ==
  \A h \in Handlers : pc[h] \in {"generated", "append", "insert"} =>
    /\ key[h] \in drawn
    /\ key[h] \notin tenants \cup issued \cup revoked
    /\ engine[key[h]] = "nil"
    /\ \A g \in Handlers \ {h} : pc[g] # "idle" => key[g] # key[h]

KeyInv == DrawnFirst /\ FreshAlone

-------------------------------------------------------------------------------
(* Engine handles: db.engine tells whether a handle is open, and a tenant   *)
(* that is pending, or being materialised, has none.                        *)

HandleInv ==
  /\ \A k \in ApiKeys :
       /\ handles[k] = IF engine[k] = "open" THEN 1 ELSE 0
       /\ state[k] = "pending" => engine[k] = "nil"
  /\ \A h \in Handlers : pc[h] \in {"mkdir", "open"} => state[key[h]] = "pending"

-------------------------------------------------------------------------------
(* The disk: the directory behind an open engine is there, unless a         *)
(* teardown, which is seen to begin, has come to it.                        *)

TeardownDoomed ==
  \A h \in Handlers :
    pc[h] \in {"destroy", "removeAll", "unmap", "writeTmp", "rename"} => key[h] \in doomed

DiskInv ==
  /\ TeardownDoomed
  /\ \A k \in ApiKeys : engine[k] = "open" => dir[k] = "db" \/ k \in doomed
  /\ \A h \in Handlers : pc[h] = "open" => key[h] \in written
  /\ AckedOnDisk
  /\ NoDirBeforeWrite

-------------------------------------------------------------------------------
(* Revocation: while man.mu is held keys.txt does not change under the      *)
(* handler that is about to replace it, nor does its key come back.         *)

RevokeInv ==
  /\ \A h \in Handlers :
       /\ pc[h] \in {"writeTmp", "rename"} => key[h] \notin tenants
       /\ pc[h] = "rename" => tmp = registry \ {key[h]}
  /\ RevokedForever

EngineInv ==
  /\ RepeatDraws = FALSE
  /\ TypeOK /\ LockInv /\ KeyInv /\ HandleInv /\ DiskInv /\ RevokeInv

-------------------------------------------------------------------------------
(* keys.txt and man.tenants, of the keys that have a line of their own. *)

RegistryInv ==
  /\ tenants \subseteq registry \cup garbled
  /\ ~serving => registry \ loading \subseteq tenants \cup skipped
  /\ \A h \in Handlers :
       /\ pc[h] \in {"generated", "append"} => key[h] \notin registry \cup garbled
       /\ pc[h] \in {"insert", "writeTmp", "rename"} => key[h] \in registry \cup garbled
       /\ pc[h] \in {"destroy", "removeAll", "unmap"} => key[h] \in tenants
  /\ KeysSurvive

-------------------------------------------------------------------------------
USE DEF vars, process, background, dbs, locks, handler, keysTxt, disk, seen,
        HoldsManMu, HoldsDbMu, Waiting, PCs, DirStates, At, Take, Goto, Answer

\* handles stays natural because Destroy closes a handle only where one is open.
LEMMA TypeStep ==
  ASSUME EngineInv, [Next]_vars
  PROVE  TypeOK'
<1> USE DEF EngineInv, TypeOK, HandleInv, LockInv, LocksHeld
<1>1. ASSUME NEW h \in Handlers, GenerateAPIKey(h) PROVE TypeOK'
  BY <1>1 DEF GenerateAPIKey, BeingDrawn
<1>2. ASSUME NEW h \in Handlers, RequestProvision(h) PROVE TypeOK'
  BY <1>2 DEF RequestProvision, AlreadyProvisioned, ManMuFree, Scanning
<1>3. ASSUME NEW h \in Handlers, AppendToRegistry(h) PROVE TypeOK'
  <2>1. NewLines \subseteq ApiKeys
    BY ManagerAssumption DEF NewLines
  <2>2. /\ torn' \in ApiKeys \cup {None} /\ registry' \in SUBSET ApiKeys
        /\ garbled' \in SUBSET ApiKeys
    BY <1>3, <2>1 DEF AppendToRegistry, AppendFailed, EndWith
  <2>3. /\ manMu' \in Handlers \cup {None}
        /\ pc' \in [Handlers -> PCs]
        /\ key' \in [Handlers -> ApiKeys \cup {None}]
    BY <1>3 DEF AppendToRegistry, AppendFailed
  <2> QED
    BY <1>3, <2>1, <2>2, <2>3 DEF AppendToRegistry
<1>4. ASSUME NEW h \in Handlers, InsertTenant(h) PROVE TypeOK'
  BY <1>4 DEF InsertTenant
<1>5. ASSUME NEW h \in Handlers, Lookup(h) PROVE TypeOK'
  BY <1>5 DEF Lookup
<1>6. ASSUME NEW h \in Handlers, PutLock(h) PROVE TypeOK'
  BY <1>6 DEF PutLock, DbMuFree
<1>7. ASSUME NEW h \in Handlers, MaterializeMkdir(h) PROVE TypeOK'
  BY <1>7 DEF MaterializeMkdir, MaterializeFailed
<1>8. ASSUME NEW h \in Handlers, MaterializeOpen(h) PROVE TypeOK'
  BY <1>8 DEF MaterializeOpen, MaterializeFailed
<1>9. ASSUME NEW h \in Handlers, Write(h) PROVE TypeOK'
  BY <1>9 DEF Write
<1>10. ASSUME NEW h \in Handlers, Deprovision(h) PROVE TypeOK'
  BY <1>10 DEF Deprovision, ManMuFree, Scanning
<1>11. ASSUME NEW h \in Handlers, DestroyClose(h) PROVE TypeOK'
  BY <1>11 DEF DestroyClose, DbMuFree, EngineIsSet
<1>12. ASSUME NEW h \in Handlers, DestroyRemoveAll(h) PROVE TypeOK'
  BY <1>12 DEF DestroyRemoveAll
<1>13. ASSUME NEW h \in Handlers, UnmapTenant(h) PROVE TypeOK'
  BY <1>13 DEF UnmapTenant
<1>14. ASSUME NEW h \in Handlers, WriteTmp(h) PROVE TypeOK'
  BY <1>14 DEF WriteTmp, OtherKeys
<1>15. ASSUME NEW h \in Handlers, RenameTmp(h) PROVE TypeOK'
  <2>1. torn' \in ApiKeys \cup {None}
    BY <1>15 DEF RenameTmp, RenameFailed
  <2>2. /\ registry' \in SUBSET ApiKeys
        /\ tmp' \in SUBSET ApiKeys
        /\ revoked' \in SUBSET ApiKeys
    BY <1>15 DEF RenameTmp, RenameFailed
  <2>3. /\ manMu' \in Handlers \cup {None}
        /\ pc' \in [Handlers -> PCs]
        /\ key' \in [Handlers -> ApiKeys \cup {None}]
    BY <1>15 DEF RenameTmp
  <2> QED
    BY <1>15, <2>1, <2>2, <2>3 DEF RenameTmp
<1>16. ASSUME NEW k \in ApiKeys, LoadKey(k) PROVE TypeOK'
  BY <1>16 DEF LoadKey, NeverMaterialized, SkipKey
<1>17. CASE ListenAndServe
  BY <1>17 DEF ListenAndServe
<1>18. CASE Crash
  BY <1>18 DEF Crash
<1>19. ASSUME NEW h \in Handlers, ReapInactive(h) \/ IsPending(h) PROVE TypeOK'
  BY <1>19, ManagerAssumption DEF ReapInactive, IsPending, ManMuFree, DbMuFree
<1>20. CASE UNCHANGED vars
  BY <1>20
<1> QED
  BY <1>1, <1>2, <1>3, <1>4, <1>5, <1>6, <1>7, <1>8, <1>9, <1>10, <1>11, <1>12, <1>13,
     <1>14, <1>15, <1>16, <1>17, <1>18, <1>19, <1>20 DEF Next, Request, Step

\* Only the owner of a lock releases it, and LoadAll runs before any handler.
LEMMA LockStep ==
  ASSUME EngineInv, [Next]_vars
  PROVE  LockInv'
<1> USE DEF EngineInv, TypeOK, LockInv, LocksHeld, LoadingAlone
<1>1. ASSUME NEW h \in Handlers, GenerateAPIKey(h) PROVE LockInv'
  BY <1>1 DEF GenerateAPIKey, BeingDrawn
<1>2. ASSUME NEW h \in Handlers, RequestProvision(h) PROVE LockInv'
  BY <1>2, ManagerAssumption DEF RequestProvision, AlreadyProvisioned, ManMuFree, Scanning
<1>3. ASSUME NEW h \in Handlers, AppendToRegistry(h) PROVE LockInv'
  BY <1>3 DEF AppendToRegistry, AppendFailed, EndWith, NewLines
<1>4. ASSUME NEW h \in Handlers, InsertTenant(h) PROVE LockInv'
  BY <1>4 DEF InsertTenant
<1>5. ASSUME NEW h \in Handlers, Lookup(h) PROVE LockInv'
  BY <1>5 DEF Lookup
<1>6. ASSUME NEW h \in Handlers, PutLock(h) PROVE LockInv'
  BY <1>6, ManagerAssumption DEF PutLock, DbMuFree
<1>7. ASSUME NEW h \in Handlers, MaterializeMkdir(h) PROVE LockInv'
  BY <1>7 DEF MaterializeMkdir, MaterializeFailed
<1>8. ASSUME NEW h \in Handlers, MaterializeOpen(h) PROVE LockInv'
  BY <1>8 DEF MaterializeOpen, MaterializeFailed
<1>9. ASSUME NEW h \in Handlers, Write(h) PROVE LockInv'
  BY <1>9 DEF Write
<1>10. ASSUME NEW h \in Handlers, Deprovision(h) PROVE LockInv'
  BY <1>10, ManagerAssumption DEF Deprovision, ManMuFree, Scanning
<1>11. ASSUME NEW h \in Handlers, DestroyClose(h) PROVE LockInv'
  BY <1>11, ManagerAssumption DEF DestroyClose, DbMuFree, EngineIsSet
<1>12. ASSUME NEW h \in Handlers, DestroyRemoveAll(h) PROVE LockInv'
  BY <1>12 DEF DestroyRemoveAll
<1>13. ASSUME NEW h \in Handlers, UnmapTenant(h) PROVE LockInv'
  BY <1>13, ManagerAssumption DEF UnmapTenant
<1>14. ASSUME NEW h \in Handlers, WriteTmp(h) PROVE LockInv'
  BY <1>14 DEF WriteTmp, OtherKeys
<1>15. ASSUME NEW h \in Handlers, RenameTmp(h) PROVE LockInv'
  BY <1>15 DEF RenameTmp, RenameFailed
<1>16. ASSUME NEW k \in ApiKeys, LoadKey(k) PROVE LockInv'
  BY <1>16 DEF LoadKey, NeverMaterialized, SkipKey
<1>17. CASE ListenAndServe
  BY <1>17 DEF ListenAndServe
<1>18. CASE Crash
  BY <1>18 DEF Crash
<1>19. ASSUME NEW h \in Handlers, ReapInactive(h) \/ IsPending(h) PROVE LockInv'
  BY <1>19, ManagerAssumption DEF ReapInactive, IsPending, ManMuFree, DbMuFree
<1>20. CASE UNCHANGED vars
  BY <1>20
<1> QED
  BY <1>1, <1>2, <1>3, <1>4, <1>5, <1>6, <1>7, <1>8, <1>9, <1>10, <1>11, <1>12, <1>13,
     <1>14, <1>15, <1>16, <1>17, <1>18, <1>19, <1>20 DEF Next, Request, Step

\* A key becomes known by being drawn; until it is a tenant only one handler has it.
LEMMA KeyStep ==
  ASSUME EngineInv, [Next]_vars
  PROVE  KeyInv'
<1> USE DEF EngineInv, TypeOK, LockInv, LocksHeld, LoadingAlone, KeyInv, DrawnFirst,
            FreshAlone
<1>1. ASSUME NEW h \in Handlers, GenerateAPIKey(h) PROVE KeyInv'
  BY <1>1 DEF GenerateAPIKey, BeingDrawn
<1>2. ASSUME NEW h \in Handlers, RequestProvision(h) PROVE KeyInv'
  BY <1>2 DEF RequestProvision, AlreadyProvisioned, ManMuFree, Scanning
<1>3. ASSUME NEW h \in Handlers, AppendToRegistry(h) PROVE KeyInv'
  BY <1>3, ManagerAssumption DEF AppendToRegistry, AppendFailed, EndWith, NewLines
<1>4. ASSUME NEW h \in Handlers, InsertTenant(h) PROVE KeyInv'
  BY <1>4 DEF InsertTenant
<1>5. ASSUME NEW h \in Handlers, Lookup(h) PROVE KeyInv'
  BY <1>5 DEF Lookup
<1>6. ASSUME NEW h \in Handlers, PutLock(h) PROVE KeyInv'
  BY <1>6 DEF PutLock, DbMuFree
<1>7. ASSUME NEW h \in Handlers, MaterializeMkdir(h) PROVE KeyInv'
  BY <1>7 DEF MaterializeMkdir, MaterializeFailed
<1>8. ASSUME NEW h \in Handlers, MaterializeOpen(h) PROVE KeyInv'
  BY <1>8 DEF MaterializeOpen, MaterializeFailed
<1>9. ASSUME NEW h \in Handlers, Write(h) PROVE KeyInv'
  BY <1>9 DEF Write
<1>10. ASSUME NEW h \in Handlers, Deprovision(h) PROVE KeyInv'
  BY <1>10 DEF Deprovision, ManMuFree, Scanning
<1>11. ASSUME NEW h \in Handlers, DestroyClose(h) PROVE KeyInv'
  BY <1>11 DEF DestroyClose, DbMuFree, EngineIsSet
<1>12. ASSUME NEW h \in Handlers, DestroyRemoveAll(h) PROVE KeyInv'
  BY <1>12 DEF DestroyRemoveAll
<1>13. ASSUME NEW h \in Handlers, UnmapTenant(h) PROVE KeyInv'
  BY <1>13 DEF UnmapTenant
<1>14. ASSUME NEW h \in Handlers, WriteTmp(h) PROVE KeyInv'
  BY <1>14 DEF WriteTmp, OtherKeys
<1>15. ASSUME NEW h \in Handlers, RenameTmp(h) PROVE KeyInv'
  BY <1>15 DEF RenameTmp, RenameFailed
<1>16. ASSUME NEW k \in ApiKeys, LoadKey(k) PROVE KeyInv'
  BY <1>16 DEF LoadKey, NeverMaterialized, SkipKey
<1>17. CASE ListenAndServe
  BY <1>17 DEF ListenAndServe
<1>18. CASE Crash
  BY <1>18 DEF Crash
<1>19. ASSUME NEW h \in Handlers, ReapInactive(h) \/ IsPending(h) PROVE KeyInv'
  BY <1>19, ManagerAssumption DEF ReapInactive, IsPending, ManMuFree, DbMuFree
<1>20. CASE UNCHANGED vars
  BY <1>20
<1> QED
  BY <1>1, <1>2, <1>3, <1>4, <1>5, <1>6, <1>7, <1>8, <1>9, <1>10, <1>11, <1>12, <1>13,
     <1>14, <1>15, <1>16, <1>17, <1>18, <1>19, <1>20 DEF Next, Request, Step

\* db.mu keeps two materialize, and materialize and Destroy, of one tenant apart.
LEMMA HandleStep ==
  ASSUME EngineInv, [Next]_vars
  PROVE  HandleInv'
<1> USE DEF EngineInv, TypeOK, LockInv, LocksHeld, LoadingAlone, KeyInv, DrawnFirst,
            FreshAlone, HandleInv
<1>1. ASSUME NEW h \in Handlers, GenerateAPIKey(h) PROVE HandleInv'
  BY <1>1 DEF GenerateAPIKey, BeingDrawn
<1>2. ASSUME NEW h \in Handlers, RequestProvision(h) PROVE HandleInv'
  BY <1>2 DEF RequestProvision, AlreadyProvisioned, ManMuFree, Scanning
<1>3. ASSUME NEW h \in Handlers, AppendToRegistry(h) PROVE HandleInv'
  BY <1>3 DEF AppendToRegistry, AppendFailed, EndWith, NewLines
<1>4. ASSUME NEW h \in Handlers, InsertTenant(h) PROVE HandleInv'
  BY <1>4 DEF InsertTenant
<1>5. ASSUME NEW h \in Handlers, Lookup(h) PROVE HandleInv'
  BY <1>5 DEF Lookup
<1>6. ASSUME NEW h \in Handlers, PutLock(h) PROVE HandleInv'
  BY <1>6 DEF PutLock, DbMuFree
<1>7. ASSUME NEW h \in Handlers, MaterializeMkdir(h) PROVE HandleInv'
  BY <1>7 DEF MaterializeMkdir, MaterializeFailed
<1>8. ASSUME NEW h \in Handlers, MaterializeOpen(h) PROVE HandleInv'
  BY <1>8 DEF MaterializeOpen, MaterializeFailed
<1>9. ASSUME NEW h \in Handlers, Write(h) PROVE HandleInv'
  BY <1>9 DEF Write
<1>10. ASSUME NEW h \in Handlers, Deprovision(h) PROVE HandleInv'
  BY <1>10 DEF Deprovision, ManMuFree, Scanning
<1>11. ASSUME NEW h \in Handlers, DestroyClose(h) PROVE HandleInv'
  BY <1>11 DEF DestroyClose, DbMuFree, EngineIsSet
<1>12. ASSUME NEW h \in Handlers, DestroyRemoveAll(h) PROVE HandleInv'
  BY <1>12 DEF DestroyRemoveAll
<1>13. ASSUME NEW h \in Handlers, UnmapTenant(h) PROVE HandleInv'
  BY <1>13 DEF UnmapTenant
<1>14. ASSUME NEW h \in Handlers, WriteTmp(h) PROVE HandleInv'
  BY <1>14 DEF WriteTmp, OtherKeys
<1>15. ASSUME NEW h \in Handlers, RenameTmp(h) PROVE HandleInv'
  BY <1>15 DEF RenameTmp, RenameFailed
<1>16. ASSUME NEW k \in ApiKeys, LoadKey(k) PROVE HandleInv'
  BY <1>16 DEF LoadKey, NeverMaterialized, SkipKey
<1>17. CASE ListenAndServe
  BY <1>17 DEF ListenAndServe
<1>18. CASE Crash
  BY <1>18 DEF Crash
<1>19. ASSUME NEW h \in Handlers, ReapInactive(h) \/ IsPending(h) PROVE HandleInv'
  BY <1>19, ManagerAssumption DEF ReapInactive, IsPending, ManMuFree, DbMuFree
<1>20. CASE UNCHANGED vars
  BY <1>20
<1> QED
  BY <1>1, <1>2, <1>3, <1>4, <1>5, <1>6, <1>7, <1>8, <1>9, <1>10, <1>11, <1>12, <1>13,
     <1>14, <1>15, <1>16, <1>17, <1>18, <1>19, <1>20 DEF Next, Request, Step

\* Files go away only in a teardown, and come only with a Put.
LEMMA DiskStep ==
  ASSUME EngineInv, [Next]_vars
  PROVE  DiskInv'
<1> USE DEF EngineInv, TypeOK, LockInv, LocksHeld, LoadingAlone, KeyInv, FreshAlone,
            HandleInv, DiskInv, TeardownDoomed, AckedOnDisk, NoDirBeforeWrite
<1>1. ASSUME NEW h \in Handlers, GenerateAPIKey(h) PROVE DiskInv'
  BY <1>1 DEF GenerateAPIKey, BeingDrawn
<1>2. ASSUME NEW h \in Handlers, RequestProvision(h) PROVE DiskInv'
  BY <1>2 DEF RequestProvision, AlreadyProvisioned, ManMuFree, Scanning
<1>3. ASSUME NEW h \in Handlers, AppendToRegistry(h) PROVE DiskInv'
  BY <1>3 DEF AppendToRegistry, AppendFailed, EndWith, NewLines
<1>4. ASSUME NEW h \in Handlers, InsertTenant(h) PROVE DiskInv'
  BY <1>4 DEF InsertTenant
<1>5. ASSUME NEW h \in Handlers, Lookup(h) PROVE DiskInv'
  BY <1>5 DEF Lookup
<1>6. ASSUME NEW h \in Handlers, PutLock(h) PROVE DiskInv'
  BY <1>6 DEF PutLock, DbMuFree
<1>7. ASSUME NEW h \in Handlers, MaterializeMkdir(h) PROVE DiskInv'
  BY <1>7 DEF MaterializeMkdir, MaterializeFailed
<1>8. ASSUME NEW h \in Handlers, MaterializeOpen(h) PROVE DiskInv'
  BY <1>8 DEF MaterializeOpen, MaterializeFailed
<1>9. ASSUME NEW h \in Handlers, Write(h) PROVE DiskInv'
  BY <1>9 DEF Write
<1>10. ASSUME NEW h \in Handlers, Deprovision(h) PROVE DiskInv'
  BY <1>10 DEF Deprovision, ManMuFree, Scanning
<1>11. ASSUME NEW h \in Handlers, DestroyClose(h) PROVE DiskInv'
  BY <1>11 DEF DestroyClose, DbMuFree, EngineIsSet
<1>12. ASSUME NEW h \in Handlers, DestroyRemoveAll(h) PROVE DiskInv'
  BY <1>12 DEF DestroyRemoveAll
<1>13. ASSUME NEW h \in Handlers, UnmapTenant(h) PROVE DiskInv'
  BY <1>13 DEF UnmapTenant
<1>14. ASSUME NEW h \in Handlers, WriteTmp(h) PROVE DiskInv'
  BY <1>14 DEF WriteTmp, OtherKeys
<1>15. ASSUME NEW h \in Handlers, RenameTmp(h) PROVE DiskInv'
  BY <1>15 DEF RenameTmp, RenameFailed
<1>16. ASSUME NEW k \in ApiKeys, LoadKey(k) PROVE DiskInv'
  BY <1>16 DEF LoadKey, NeverMaterialized, SkipKey
<1>17. CASE ListenAndServe
  BY <1>17 DEF ListenAndServe
<1>18. CASE Crash
  BY <1>18 DEF Crash
<1>19. ASSUME NEW h \in Handlers, ReapInactive(h) \/ IsPending(h) PROVE DiskInv'
  BY <1>19, ManagerAssumption DEF ReapInactive, IsPending, ManMuFree, DbMuFree
<1>20. CASE UNCHANGED vars
  BY <1>20
<1> QED
  BY <1>1, <1>2, <1>3, <1>4, <1>5, <1>6, <1>7, <1>8, <1>9, <1>10, <1>11, <1>12, <1>13,
     <1>14, <1>15, <1>16, <1>17, <1>18, <1>19, <1>20 DEF Next, Request, Step

\* man.mu is held from the lookup in Deprovision to the rename of keys.txt.tmp.
LEMMA RevokeStep ==
  ASSUME EngineInv, [Next]_vars
  PROVE  RevokeInv'
<1> USE DEF EngineInv, TypeOK, LockInv, LocksHeld, LoadingAlone, KeyInv, DrawnFirst,
            FreshAlone, RevokeInv, RevokedForever
<1>1. ASSUME NEW h \in Handlers, GenerateAPIKey(h) PROVE RevokeInv'
  BY <1>1 DEF GenerateAPIKey, BeingDrawn
<1>2. ASSUME NEW h \in Handlers, RequestProvision(h) PROVE RevokeInv'
  BY <1>2 DEF RequestProvision, AlreadyProvisioned, ManMuFree, Scanning
<1>3. ASSUME NEW h \in Handlers, AppendToRegistry(h) PROVE RevokeInv'
  BY <1>3, ManagerAssumption DEF AppendToRegistry, AppendFailed, EndWith, NewLines
<1>4. ASSUME NEW h \in Handlers, InsertTenant(h) PROVE RevokeInv'
  BY <1>4 DEF InsertTenant
<1>5. ASSUME NEW h \in Handlers, Lookup(h) PROVE RevokeInv'
  BY <1>5 DEF Lookup
<1>6. ASSUME NEW h \in Handlers, PutLock(h) PROVE RevokeInv'
  BY <1>6 DEF PutLock, DbMuFree
<1>7. ASSUME NEW h \in Handlers, MaterializeMkdir(h) PROVE RevokeInv'
  BY <1>7 DEF MaterializeMkdir, MaterializeFailed
<1>8. ASSUME NEW h \in Handlers, MaterializeOpen(h) PROVE RevokeInv'
  BY <1>8 DEF MaterializeOpen, MaterializeFailed
<1>9. ASSUME NEW h \in Handlers, Write(h) PROVE RevokeInv'
  BY <1>9 DEF Write
<1>10. ASSUME NEW h \in Handlers, Deprovision(h) PROVE RevokeInv'
  BY <1>10 DEF Deprovision, ManMuFree, Scanning
<1>11. ASSUME NEW h \in Handlers, DestroyClose(h) PROVE RevokeInv'
  BY <1>11 DEF DestroyClose, DbMuFree, EngineIsSet
<1>12. ASSUME NEW h \in Handlers, DestroyRemoveAll(h) PROVE RevokeInv'
  BY <1>12 DEF DestroyRemoveAll
<1>13. ASSUME NEW h \in Handlers, UnmapTenant(h) PROVE RevokeInv'
  BY <1>13 DEF UnmapTenant
<1>14. ASSUME NEW h \in Handlers, WriteTmp(h) PROVE RevokeInv'
  BY <1>14 DEF WriteTmp, OtherKeys
<1>15. ASSUME NEW h \in Handlers, RenameTmp(h) PROVE RevokeInv'
  BY <1>15 DEF RenameTmp, RenameFailed
<1>16. ASSUME NEW k \in ApiKeys, LoadKey(k) PROVE RevokeInv'
  BY <1>16 DEF LoadKey, NeverMaterialized, SkipKey
<1>17. CASE ListenAndServe
  BY <1>17 DEF ListenAndServe
<1>18. CASE Crash
  BY <1>18 DEF Crash
<1>19. ASSUME NEW h \in Handlers, ReapInactive(h) \/ IsPending(h) PROVE RevokeInv'
  BY <1>19, ManagerAssumption DEF ReapInactive, IsPending, ManMuFree, DbMuFree
<1>20. CASE UNCHANGED vars
  BY <1>20
<1> QED
  BY <1>1, <1>2, <1>3, <1>4, <1>5, <1>6, <1>7, <1>8, <1>9, <1>10, <1>11, <1>12, <1>13,
     <1>14, <1>15, <1>16, <1>17, <1>18, <1>19, <1>20 DEF Next, Request, Step

\* keys.txt gains its line before man.tenants, and loses it after.
LEMMA RegistryStep ==
  ASSUME EngineInv, RegistryInv, [Next]_vars
  PROVE  RegistryInv'
<1> USE DEF EngineInv, TypeOK, LockInv, LocksHeld, LoadingAlone, KeyInv, DrawnFirst,
            FreshAlone, DiskInv, TeardownDoomed, RevokeInv, RegistryInv, KeysSurvive,
            Kept
<1>1. ASSUME NEW h \in Handlers, GenerateAPIKey(h) PROVE RegistryInv'
  BY <1>1 DEF GenerateAPIKey, BeingDrawn
<1>2. ASSUME NEW h \in Handlers, RequestProvision(h) PROVE RegistryInv'
  BY <1>2 DEF RequestProvision, AlreadyProvisioned, ManMuFree, Scanning
<1>3. ASSUME NEW h \in Handlers, AppendToRegistry(h) PROVE RegistryInv'
  BY <1>3, ManagerAssumption DEF AppendToRegistry, AppendFailed, EndWith, NewLines
<1>4. ASSUME NEW h \in Handlers, InsertTenant(h) PROVE RegistryInv'
  BY <1>4 DEF InsertTenant
<1>5. ASSUME NEW h \in Handlers, Lookup(h) PROVE RegistryInv'
  BY <1>5 DEF Lookup
<1>6. ASSUME NEW h \in Handlers, PutLock(h) PROVE RegistryInv'
  BY <1>6 DEF PutLock, DbMuFree
<1>7. ASSUME NEW h \in Handlers, MaterializeMkdir(h) PROVE RegistryInv'
  BY <1>7 DEF MaterializeMkdir, MaterializeFailed
<1>8. ASSUME NEW h \in Handlers, MaterializeOpen(h) PROVE RegistryInv'
  BY <1>8 DEF MaterializeOpen, MaterializeFailed
<1>9. ASSUME NEW h \in Handlers, Write(h) PROVE RegistryInv'
  BY <1>9 DEF Write
<1>10. ASSUME NEW h \in Handlers, Deprovision(h) PROVE RegistryInv'
  BY <1>10 DEF Deprovision, ManMuFree, Scanning
<1>11. ASSUME NEW h \in Handlers, DestroyClose(h) PROVE RegistryInv'
  BY <1>11 DEF DestroyClose, DbMuFree, EngineIsSet
<1>12. ASSUME NEW h \in Handlers, DestroyRemoveAll(h) PROVE RegistryInv'
  BY <1>12 DEF DestroyRemoveAll
<1>13. ASSUME NEW h \in Handlers, UnmapTenant(h) PROVE RegistryInv'
  BY <1>13 DEF UnmapTenant
<1>14. ASSUME NEW h \in Handlers, WriteTmp(h) PROVE RegistryInv'
  BY <1>14 DEF WriteTmp, OtherKeys
<1>15. ASSUME NEW h \in Handlers, RenameTmp(h) PROVE RegistryInv'
  BY <1>15 DEF RenameTmp, RenameFailed
<1>16. ASSUME NEW k \in ApiKeys, LoadKey(k) PROVE RegistryInv'
  BY <1>16 DEF LoadKey, NeverMaterialized, SkipKey
<1>17. CASE ListenAndServe
  BY <1>17 DEF ListenAndServe
<1>18. CASE Crash
  BY <1>18 DEF Crash
<1>19. ASSUME NEW h \in Handlers, ReapInactive(h) \/ IsPending(h) PROVE RegistryInv'
  BY <1>19, ManagerAssumption DEF ReapInactive, IsPending, ManMuFree, DbMuFree
<1>20. CASE UNCHANGED vars
  BY <1>20
<1> QED
  BY <1>1, <1>2, <1>3, <1>4, <1>5, <1>6, <1>7, <1>8, <1>9, <1>10, <1>11, <1>12, <1>13,
     <1>14, <1>15, <1>16, <1>17, <1>18, <1>19, <1>20 DEF Next, Request, Step

-------------------------------------------------------------------------------
LEMMA EngineInit ==
  ASSUME RepeatDraws = FALSE, Init
  PROVE  EngineInv
<1> USE DEF Init
<1>1. TypeOK
  <2>1. serving \in BOOLEAN
    BY Zenon
  <2> QED
    BY <2>1 DEF TypeOK
<1>2. LockInv
  BY DEF LockInv, LocksHeld, LoadingAlone
<1>3. KeyInv
  BY DEF KeyInv, DrawnFirst, FreshAlone
<1>4. HandleInv
  BY DEF HandleInv
<1>5. DiskInv
  BY DEF DiskInv, TeardownDoomed, AckedOnDisk, NoDirBeforeWrite
<1>6. RevokeInv
  BY DEF RevokeInv, RevokedForever
<1> QED
  BY <1>1, <1>2, <1>3, <1>4, <1>5, <1>6 DEF EngineInv

LEMMA EngineNext == EngineInv /\ [Next]_vars => EngineInv'
  BY TypeStep, LockStep, KeyStep, HandleStep, DiskStep, RevokeStep DEF EngineInv

LEMMA EngineInvariant == RepeatDraws = FALSE /\ Spec => []EngineInv
<1>1. RepeatDraws = FALSE /\ Init => EngineInv
  BY EngineInit
<1> QED
  BY <1>1, EngineNext, PTL DEF Spec

\* Every variable keeps its type; in particular no engine handle is closed twice.
THEOREM TypeCorrect == RepeatDraws = FALSE /\ Spec => []TypeOK
<1>1. EngineInv => TypeOK
  BY DEF EngineInv
<1> QED
  BY <1>1, EngineInvariant, PTL

\* materialize and Destroy never leave two engines open on one directory, however
\* many first writes, teardowns and restarts interleave.
THEOREM OneHandle == RepeatDraws = FALSE /\ Spec => []SingleHandle
<1>1. EngineInv => SingleHandle
  <2> SUFFICES ASSUME EngineInv, NEW k \in ApiKeys PROVE handles[k] <= 1
    BY DEF SingleHandle
  <2>1. handles[k] = 1 \/ handles[k] = 0
    BY DEF EngineInv, HandleInv
  <2> QED
    BY <2>1
<1> QED
  BY <1>1, EngineInvariant, PTL

\* An acknowledged Put is behind a whole directory until a teardown begins.
THEOREM AckedDurable == RepeatDraws = FALSE /\ Spec => []AckedOnDisk
<1>1. EngineInv => AckedOnDisk
  BY DEF EngineInv, DiskInv
<1> QED
  BY <1>1, EngineInvariant, PTL

\* Only a Put makes a tenant's directory.
THEOREM LazyDirectory == RepeatDraws = FALSE /\ Spec => []NoDirBeforeWrite
<1>1. EngineInv => NoDirBeforeWrite
  BY DEF EngineInv, DiskInv
<1> QED
  BY <1>1, EngineInvariant, PTL

\* A key whose removal was confirmed is served and registered never again, even
\* when appends to keys.txt are cut short.
THEOREM RevocationFinal == RepeatDraws = FALSE /\ Spec => []RevokedForever
<1>1. EngineInv => RevokedForever
  BY DEF EngineInv, RevokeInv
<1> QED
  BY <1>1, EngineInvariant, PTL

-------------------------------------------------------------------------------
LEMMA RegistryInit == Init => RegistryInv
  BY DEF Init, RegistryInv, KeysSurvive, Kept

LEMMA RegistryInvariant ==
  RepeatDraws = FALSE /\ Spec => [](EngineInv /\ RegistryInv)
<1>1. RepeatDraws = FALSE /\ Init => EngineInv /\ RegistryInv
  BY EngineInit, RegistryInit
<1>2. EngineInv /\ RegistryInv /\ [Next]_vars => (EngineInv /\ RegistryInv)'
  BY EngineNext, RegistryStep
<1> QED
  BY <1>1, <1>2, PTL DEF Spec

\* A key a client holds, and nobody began to tear down, survives every crash and
\* every failed operation: keys.txt keeps it, and LoadAll serves or skips it, unless
\* it was glued to what an append that failed half way had left behind.
THEOREM IssuedSurvive == RepeatDraws = FALSE /\ Spec => []KeysSurvive
<1>1. RegistryInv => KeysSurvive
  BY DEF RegistryInv
<1> QED
  BY <1>1, RegistryInvariant, PTL

-------------------------------------------------------------------------------
(* The check under the write lock, when keys can be drawn twice and appends  *)
(* can fail half way: this invariant needs no assumption on either.        *)

OwnerInv ==
  /\ pc \in [Handlers -> PCs] /\ key \in [Handlers -> ApiKeys \cup {None}]
  /\ tenants \cup asking \cup issued \subseteq ApiKeys /\ issued \subseteq drawn
  /\ ~serving => \A h \in Handlers : pc[h] = "idle"
  /\ \A h \in Handlers :
       /\ pc[h] # "idle" => key[h] \in ApiKeys
       /\ pc[h] \in HoldsManMu => manMu = h
       /\ pc[h] \in {"destroy", "removeAll", "unmap"} => key[h] \in doomed
       /\ pc[h] \in {"append", "insert"} => key[h] \notin tenants
       /\ pc[h] \in {"generated", "append", "insert"} =>
            /\ key[h] \in drawn
            /\ key[h] \in Kept => key[h] \in tenants

LEMMA OwnerStep ==
  ASSUME OwnerInv, [Next]_vars
  PROVE  OwnerInv'
<1> USE ManagerAssumption DEF OwnerInv, Kept
<1>1. ASSUME NEW h \in Handlers, GenerateAPIKey(h) PROVE OwnerInv'
  BY <1>1 DEF GenerateAPIKey, BeingDrawn
<1>2. ASSUME NEW h \in Handlers, RequestProvision(h) PROVE OwnerInv'
  BY <1>2 DEF RequestProvision, AlreadyProvisioned, ManMuFree
<1>3. ASSUME NEW h \in Handlers, AppendToRegistry(h) PROVE OwnerInv'
  BY <1>3 DEF AppendToRegistry, AppendFailed
<1>4. ASSUME NEW h \in Handlers, InsertTenant(h) PROVE OwnerInv'
  BY <1>4 DEF InsertTenant
<1>5. ASSUME NEW h \in Handlers, Lookup(h) \/ PutLock(h) \/ Write(h) PROVE OwnerInv'
  BY <1>5 DEF Lookup, PutLock, Write
<1>6. ASSUME NEW h \in Handlers, MaterializeMkdir(h) \/ MaterializeOpen(h) PROVE OwnerInv'
  BY <1>6 DEF MaterializeMkdir, MaterializeOpen, MaterializeFailed
<1>7. ASSUME NEW h \in Handlers, Deprovision(h) PROVE OwnerInv'
  BY <1>7 DEF Deprovision, ManMuFree
<1>8. ASSUME NEW h \in Handlers, DestroyClose(h) \/ DestroyRemoveAll(h) PROVE OwnerInv'
  BY <1>8 DEF DestroyClose, DestroyRemoveAll
<1>9. ASSUME NEW h \in Handlers, UnmapTenant(h) PROVE OwnerInv'
  BY <1>9 DEF UnmapTenant
<1>10. ASSUME NEW h \in Handlers, WriteTmp(h) \/ RenameTmp(h) PROVE OwnerInv'
  BY <1>10 DEF WriteTmp, RenameTmp
<1>11. ASSUME NEW h \in Handlers, ReapInactive(h) \/ IsPending(h) PROVE OwnerInv'
  BY <1>11 DEF ReapInactive, IsPending
<1>12. ASSUME NEW k \in ApiKeys, LoadKey(k) PROVE OwnerInv'
  BY <1>12 DEF LoadKey
<1>13. CASE ListenAndServe
  BY <1>13 DEF ListenAndServe
<1>14. CASE Crash
  BY <1>14 DEF Crash
<1>15. CASE UNCHANGED vars
  BY <1>15
<1> QED
  BY <1>1, <1>2, <1>3, <1>4, <1>5, <1>6, <1>7, <1>8, <1>9, <1>10, <1>11, <1>12, <1>13,
     <1>14, <1>15 DEF Next, Request, Step

\* Two calls of generateAPIKey may draw the same bytes: no second client is given a key
\* that the first may use.
THEOREM OneOwnerEach == Spec => []OneOwner
<1>1. Init => OwnerInv
  BY DEF Init, OwnerInv, Kept
<1>2. OwnerInv => OneOwner
  BY DEF OwnerInv, OneOwner
<1> QED
  BY <1>1, <1>2, OwnerStep, PTL DEF Spec

-------------------------------------------------------------------------------
(* Waiting: a lock that is held is held by the handler inside the section    *)
(* that took it.  No assumption on keys or appends is needed.                *)

Locked ==
  /\ \A h \in Handlers :
       /\ pc[h] # "idle" => key[h] \in ApiKeys
       /\ pc[h] \in HoldsManMu => manMu = h
       /\ pc[h] \in HoldsDbMu => dbMu[key[h]] = h
       /\ pc[h] = "scan" => manMu = None
  /\ manMu \in Handlers => pc[manMu] \in HoldsManMu
  /\ \A k \in ApiKeys : dbMu[k] \in Handlers => pc[dbMu[k]] \in HoldsDbMu /\ key[dbMu[k]] = k

WaitInv ==
  /\ pc \in [Handlers -> PCs] /\ key \in [Handlers -> ApiKeys \cup {None}]
  /\ manMu \in Handlers \cup {None} /\ dbMu \in [ApiKeys -> Handlers \cup {None}]
  /\ tenants \cup asking \subseteq ApiKeys
  /\ ~serving => \A h \in Handlers : pc[h] = "idle"
  /\ Locked

LEMMA WaitStep ==
  ASSUME WaitInv, [Next]_vars
  PROVE  WaitInv'
<1> USE ManagerAssumption DEF WaitInv, Locked
<1>1. ASSUME NEW h \in Handlers, GenerateAPIKey(h) PROVE WaitInv'
  BY <1>1 DEF GenerateAPIKey
<1>2. ASSUME NEW h \in Handlers, RequestProvision(h) PROVE WaitInv'
  BY <1>2 DEF RequestProvision, ManMuFree, Scanning
<1>3. ASSUME NEW h \in Handlers, AppendToRegistry(h) PROVE WaitInv'
  <2>1. /\ (Goto(h, "insert") /\ UNCHANGED manMu) \/ AppendFailed(h)
        /\ pc[h] = "append" /\ serving /\ UNCHANGED <<serving, asking, tenants, dbMu>>
    BY <1>3 DEF AppendToRegistry
  <2> QED
    BY <2>1 DEF AppendFailed
<1>4. ASSUME NEW h \in Handlers, InsertTenant(h) PROVE WaitInv'
  BY <1>4 DEF InsertTenant
<1>5. ASSUME NEW h \in Handlers, Lookup(h) \/ Write(h) PROVE WaitInv'
  BY <1>5 DEF Lookup, Write
<1>6. ASSUME NEW h \in Handlers, PutLock(h) PROVE WaitInv'
  BY <1>6 DEF PutLock, DbMuFree
<1>7. ASSUME NEW h \in Handlers, MaterializeMkdir(h) \/ MaterializeOpen(h) PROVE WaitInv'
  BY <1>7 DEF MaterializeMkdir, MaterializeOpen, MaterializeFailed
<1>8. ASSUME NEW h \in Handlers, Deprovision(h) PROVE WaitInv'
  BY <1>8 DEF Deprovision, ManMuFree, Scanning
<1>9. ASSUME NEW h \in Handlers, DestroyClose(h) PROVE WaitInv'
  BY <1>9 DEF DestroyClose, DbMuFree
<1>10. ASSUME NEW h \in Handlers, DestroyRemoveAll(h) PROVE WaitInv'
  BY <1>10 DEF DestroyRemoveAll
<1>11. ASSUME NEW h \in Handlers, UnmapTenant(h) PROVE WaitInv'
  BY <1>11 DEF UnmapTenant
<1>12. ASSUME NEW h \in Handlers, WriteTmp(h) \/ RenameTmp(h) PROVE WaitInv'
  BY <1>12 DEF WriteTmp, RenameTmp
<1>13. ASSUME NEW h \in Handlers, ReapInactive(h) \/ IsPending(h) PROVE WaitInv'
  BY <1>13 DEF ReapInactive, IsPending, ManMuFree
<1>14. ASSUME NEW k \in ApiKeys, LoadKey(k) PROVE WaitInv'
  BY <1>14 DEF LoadKey
<1>15. CASE ListenAndServe
  BY <1>15 DEF ListenAndServe
<1>16. CASE Crash
  BY <1>16 DEF Crash
<1>17. CASE UNCHANGED vars
  BY <1>17
<1> QED
  BY <1>1, <1>2, <1>3, <1>4, <1>5, <1>6, <1>7, <1>8, <1>9, <1>10, <1>11, <1>12, <1>13,
     <1>14, <1>15, <1>16, <1>17 DEF Next, Request, Step

\* The three places of a handler that holds somebody up: under a db.mu it runs, and
\* elsewhere it waits for such a handler at most.
LEMMA UnderDbMuRuns ==
  ASSUME WaitInv, NEW g \in Handlers, pc[g] \in HoldsDbMu
  PROVE  Running(g)
BY DEF Running, HoldsUp

LEMMA HeldUpByDbMu ==
  ASSUME WaitInv, NEW f \in Handlers, NEW g \in Handlers, HoldsUp(f, g),
         pc[g] \in HoldsManMu \cup {"scan"}
  PROVE  pc[f] \in HoldsDbMu
BY DEF WaitInv, Locked, HoldsUp

\* No order of man.mu and the db.mu's, and no early return, makes handlers wait for
\* each other, or for a lock that nobody will release.
THEOREM NoLockCycle == Spec => []NoCircularWait
<1>1. Init => WaitInv
  BY ManagerAssumption DEF Init, WaitInv, Locked
<1>2. WaitInv => NoCircularWait
  <2> SUFFICES ASSUME WaitInv, NEW g \in Handlers, NEW h \in Handlers, HoldsUp(g, h)
               PROVE  \/ Running(g)
                      \/ pc[g] # "idle" /\ \A f \in Handlers : HoldsUp(f, g) => Running(f)
    BY DEF NoCircularWait
  <2>1. pc[g] \in HoldsDbMu \cup HoldsManMu \cup {"scan"}
    BY DEF WaitInv, Locked, HoldsUp
  <2>2. CASE pc[g] \in HoldsDbMu
    BY <2>2, UnderDbMuRuns
  <2>3. CASE pc[g] \in HoldsManMu \cup {"scan"}
    <3>1. pc[g] # "idle"
      BY <2>3
    <3>2. ASSUME NEW f \in Handlers, HoldsUp(f, g) PROVE Running(f)
      BY <2>3, <3>2, HeldUpByDbMu, UnderDbMuRuns
    <3> QED
      BY <3>1, <3>2
  <2> QED
    BY <2>1, <2>2, <2>3
<1> QED
  BY <1>1, <1>2, WaitStep, PTL DEF Spec

-------------------------------------------------------------------------------
(* The manager implements ApiKeyService. *)

LEMMA KeysInit == Init => Keys!Init
  BY DEF Init, Keys!Init

LEMMA KeysStep ==
  ASSUME EngineInv, RegistryInv, [Next]_vars
  PROVE  [Keys!Next]_(Keys!vars)
<1> USE DEF Keys!vars
<1> DEFINE live == registry \ garbled
           Same == UNCHANGED <<live, issued \ garbled, revoked \ garbled>>
<1>1. ASSUME NEW h \in Handlers, AppendToRegistry(h)
      PROVE  (key[h] \in ApiKeys /\ Keys!Create(key[h])) \/ Same
  <2> DEFINE k == key[h]
  <2>1. /\ k \in ApiKeys /\ k \notin registry \cup garbled \cup issued \cup revoked
        /\ torn # None => torn \in garbled
        /\ None \notin registry /\ UNCHANGED <<issued, revoked>>
        /\ NewLines \cap (registry \cup issued \cup revoked) = {}
    BY <1>1, ManagerAssumption DEF AppendToRegistry, EngineInv, TypeOK, LockInv, LocksHeld,
       KeyInv, DrawnFirst, FreshAlone, RegistryInv, NewLines
  <2>2. CASE torn = None /\ EndWith(k, TRUE) /\ UNCHANGED garbled
    BY <2>1, <2>2 DEF EndWith, Keys!Create
  <2>3. CASE \E line \in NewLines :
               EndWith(line, TRUE) /\ garbled' = garbled \cup {line, k}
    BY <2>1, <2>3 DEF EndWith
  <2>4. CASE UNCHANGED <<registry, garbled>>
    BY <2>1, <2>4
  <2>5. CASE \E line \in NewLines \cup {k} :
               EndWith(line, FALSE) /\ garbled' = garbled \cup {line}
    BY <2>1, <2>5 DEF EndWith
  <2> QED
    BY <1>1, <2>2, <2>3, <2>4, <2>5 DEF AppendToRegistry
<1>2. ASSUME NEW h \in Handlers, InsertTenant(h)
      PROVE  (key[h] \in ApiKeys /\ Keys!Issue(key[h])) \/ Same
  <2> DEFINE k == key[h]
  <2>1. /\ k \in ApiKeys /\ k \notin issued /\ k \in registry \cup garbled
        /\ issued' = issued \cup {k} /\ UNCHANGED <<registry, garbled, revoked>>
    BY <1>2 DEF InsertTenant, EngineInv, LockInv, LocksHeld, KeyInv, FreshAlone, RegistryInv
  <2> QED
    BY <2>1 DEF Keys!Issue
<1>3. ASSUME NEW h \in Handlers, RenameTmp(h)
      PROVE  (key[h] \in ApiKeys /\ Keys!Revoke(key[h])) \/ Same
  <2> DEFINE k == key[h]
  <2>1. /\ k \in ApiKeys /\ k \in registry \cup garbled /\ tmp = registry \ {k}
        /\ UNCHANGED <<garbled, issued>>
    BY <1>3 DEF RenameTmp, EngineInv, LockInv, LocksHeld, RevokeInv, RegistryInv
  <2>2. \/ registry' = tmp /\ revoked' = revoked \cup {k}
        \/ UNCHANGED <<registry, revoked>>
    BY <1>3 DEF RenameTmp, RenameFailed
  <2> QED
    BY <2>1, <2>2 DEF Keys!Revoke
<1>4. ASSUME NEW h \in Handlers,
             \/ Request(h) \/ RequestProvision(h) \/ PutLock(h) \/ MaterializeMkdir(h)
             \/ MaterializeOpen(h) \/ Write(h) \/ DestroyClose(h) \/ DestroyRemoveAll(h)
             \/ UnmapTenant(h) \/ WriteTmp(h) \/ IsPending(h)
      PROVE  Same
  BY <1>4 DEF Request, GenerateAPIKey, Lookup, Deprovision, RequestProvision, PutLock,
     MaterializeMkdir, MaterializeOpen, Write, DestroyClose, DestroyRemoveAll, UnmapTenant,
     WriteTmp, ReapInactive, IsPending
<1>5. ASSUME \/ \E k \in ApiKeys : LoadKey(k)
             \/ ListenAndServe \/ Crash \/ UNCHANGED vars
      PROVE  Same
  BY <1>5 DEF LoadKey, ListenAndServe, Crash
<1> QED
  BY <1>1, <1>2, <1>3, <1>4, <1>5 DEF Next, Step, Keys!Next

\* Locks, files and crashes are invisible: seen from keys.txt and from the clients,
\* a key is created once, issued once, and revoked once and for all.
THEOREM ImplementsApiKeyService == RepeatDraws = FALSE /\ Spec => KeyService
<1>1. EngineInv /\ RegistryInv /\ [Next]_vars => [Keys!Next]_(Keys!vars)
  BY KeysStep
<1> QED
  BY <1>1, KeysInit, RegistryInvariant, PTL DEF Spec, KeyService, Keys!Spec
================================================================================
