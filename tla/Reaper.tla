--------------------------------- MODULE Reaper --------------------------------
(***************************************************************************)
(* Deleting idle tenants: requests note their time in db.lastActive, which *)
(* reapInactive copies to a marker file in the tenant's directory, compares *)
(* with maxIdle, and LoadAll reads back from the marker after a restart.   *)
(*                                                                         *)
(* Times are ages in days: what the code holds as a time t is here how     *)
(* long ago t is.  Ages stop growing at Old, past which no comparison can  *)
(* tell them apart, so that time goes on for ever in finitely many states. *)
(* Deprovision and LoadAll, which DatabaseManager has in their parts, are  *)
(* one step each.                                                          *)
(***************************************************************************)
EXTENDS Integers

CONSTANTS
  Tenants, Handlers,
  InactivityDays,   \* the inactivity after which a tenant is deleted
  MaxDuration,   \* the days that fit in a time.Duration, which is an int64
  MaxScan,       \* bound: days that pass during one scan
  MaxCrashes,    \* bound: how often the server is killed
  None           \* no marker

Old == InactivityDays + MaxScan + 1

ASSUME ReaperAssumption ==
  /\ InactivityDays \in Nat /\ MaxDuration \in Nat
  /\ MaxScan \in Nat /\ MaxCrashes \in Nat /\ None \notin Nat

\* Mutant: the product is made in a type of fewer bits.
Narrow(days) == IF days < MaxDuration THEN days ELSE days - 2 * MaxDuration
Duration(days) == ((days + MaxDuration + 1) % (2 * (MaxDuration + 1))) - (MaxDuration + 1)
MaxIdle == Duration(InactivityDays)

VARIABLES
  up, crashes,
  mapped, active,       \* in man.tenants; db.state is tenantActive
  idle,                 \* age of db.lastActive
  listed, dir, marker,  \* on disk: in keys.txt, the directory, the age of its marker
  rpc, todo, cur,       \* the reaper: its next step, tenants left, and the one at hand
  scan, seen,           \* how long ago it read the clock; now.Sub(last)
  pc, target,           \* the handlers and the tenants they serve
  quiet, flushed        \* history: age of the last activity, and of the last one flushed

disk   == <<listed, dir, marker>>
tenant == <<mapped, active, idle>>
reaper == <<rpc, todo, cur, scan, seen>>
client == <<pc, target>>
vars   == <<up, crashes, disk, tenant, reaper, client, quiet, flushed>>

\* LoadAll has just run: a tenant is pending, active, or could not be recovered.
Loaded(t) ==
  \/ ~listed[t] /\ ~mapped[t] /\ ~active[t] /\ idle[t] = 0
  \/ listed[t] /\ ~dir[t] /\ mapped[t] /\ ~active[t] /\ idle[t] = 0
  \/ listed[t] /\ dir[t] /\ ~mapped[t] /\ ~active[t] /\ idle[t] = 0
  \/ /\ listed[t] /\ dir[t] /\ mapped[t] /\ active[t]
     /\ idle[t] = IF marker[t] = None THEN 0 ELSE marker[t]

Init ==
  /\ up = TRUE /\ crashes = 0
  /\ listed \in [Tenants -> BOOLEAN] /\ dir \in [Tenants -> BOOLEAN]
  /\ marker \in [Tenants -> 0..Old \cup {None}]
  /\ \A t \in Tenants : (dir[t] => listed[t]) /\ (~dir[t] => marker[t] = None)
  /\ mapped \in [Tenants -> BOOLEAN] /\ active \in [Tenants -> BOOLEAN]
  /\ idle \in [Tenants -> 0..Old]
  /\ \A t \in Tenants : Loaded(t)
  /\ rpc = "wait" /\ todo = {} /\ cur \in Tenants /\ scan = 0 /\ seen = 0
  /\ pc = [h \in Handlers |-> "idle"] /\ target \in [Handlers -> Tenants]
  /\ quiet = idle /\ flushed = [t \in Tenants |-> Old]

-------------------------------------------------------------------------------
(* Requests                                                                 *)

Lookup(h) ==
  /\ pc[h] = "idle"
  /\ \E t \in Tenants : mapped[t] /\ target' = [target EXCEPT ![h] = t]
  /\ \E op \in {"read", "write"} : pc' = [pc EXCEPT ![h] = op]
  /\ UNCHANGED <<up, crashes, disk, tenant, reaper, quiet, flushed>>

\* A request that is not admitted leaves db.lastActive alone, and so does a read of a
\* pending tenant.
Leave(h) == pc' = [pc EXCEPT ![h] = "idle"]
Touch(h) == pc' = [pc EXCEPT ![h] = "touch"]

Read(h) ==
  /\ pc[h] = "read"
  /\ \/ Leave(h)
     \/ active[target[h]] /\ Touch(h)
  /\ UNCHANGED <<up, crashes, disk, tenant, target, reaper, quiet, flushed>>

\* materialize writes the marker before the Put is admitted, so that the marker has
\* the time the tenant was made, or now when Chtimes fails.
Write(h) ==
  /\ pc[h] = "write"
  /\ LET t == target[h] IN
     \/ active[t] /\ UNCHANGED <<dir, marker, active, flushed>>
     \/ /\ ~active[t]
        /\ dir' = [dir EXCEPT ![t] = TRUE] /\ active' = [active EXCEPT ![t] = TRUE]
        /\ \/ /\ marker' = [marker EXCEPT ![t] = idle[t]]
              /\ flushed' = [flushed EXCEPT ![t] = idle[t]]
           \/ \E age \in {0, None} : marker' = [marker EXCEPT ![t] = age] /\ UNCHANGED flushed
  /\ Leave(h) \/ Touch(h)
  /\ UNCHANGED <<up, crashes, listed, mapped, idle, target, reaper, quiet>>

MaterializeFails(h) ==
  /\ pc[h] = "write" /\ ~active[target[h]]
  /\ Leave(h)
  /\ dir' \in {dir, [dir EXCEPT ![target[h]] = TRUE]}
  /\ UNCHANGED <<up, crashes, listed, marker, tenant, target, reaper, quiet, flushed>>

TouchActivity(h) ==
  /\ pc[h] = "touch"
  /\ idle'  = [idle EXCEPT ![target[h]] = 0]
  /\ quiet' = [quiet EXCEPT ![target[h]] = 0]
  /\ Leave(h)
  /\ UNCHANGED <<up, crashes, disk, mapped, active, target, reaper, flushed>>

\* Destroy and the removal from man.tenants, under man.mu; the line of keys.txt can
\* stay behind.  A RemoveAll that fails may have removed the marker.
Destroyed(t) ==
  /\ mapped[t]
  /\ mapped' = [mapped EXCEPT ![t] = FALSE]
  /\ dir'    = [dir EXCEPT ![t] = FALSE]
  /\ marker' = [marker EXCEPT ![t] = None]
  /\ listed' \in {listed, [listed EXCEPT ![t] = FALSE]}
  /\ UNCHANGED <<active, idle>>

NotDestroyed(t) ==
  /\ mapped[t] => marker' \in {marker, [marker EXCEPT ![t] = None]}
  /\ ~mapped[t] => UNCHANGED marker
  /\ UNCHANGED <<listed, dir, tenant>>

Deprovision ==
  /\ up
  /\ \E t \in Tenants : Destroyed(t) \/ NotDestroyed(t)
  /\ UNCHANGED <<up, crashes, reaper, client, quiet, flushed>>

-------------------------------------------------------------------------------
(* reapInactive                                                             *)

\* Mutant: pending tenants are scanned too.
AllTenants == {t \in Tenants : mapped[t]}
Scanned == {t \in Tenants : mapped[t] /\ active[t]}

Scan ==
  /\ up /\ rpc = "wait"
  /\ rpc' = "clock" /\ todo' = Scanned
  /\ UNCHANGED <<up, crashes, disk, tenant, cur, scan, seen, client, quiet, flushed>>

ReadClock ==
  /\ rpc = "clock"
  /\ rpc' = "next" /\ scan' = 0
  /\ UNCHANGED <<up, crashes, disk, tenant, todo, cur, seen, client, quiet, flushed>>

ReadActivity ==
  /\ rpc = "next"
  /\ \/ /\ todo = {}
        /\ rpc' = "wait" /\ UNCHANGED <<todo, cur, seen>>
     \/ \E t \in todo :
          /\ rpc' = "write" /\ todo' = todo \ {t} /\ cur' = t
          /\ seen' = idle[t] - scan
  /\ UNCHANGED <<up, crashes, disk, tenant, scan, client, quiet, flushed>>

\* Mutant: PersistActivity is given what the reaper read before.
SeenActivity(t) == IF seen + scan > Old THEN Old ELSE seen + scan
LastActive(t) == idle[t]

\* Mutant: a tenant whose marker cannot be written is passed over.
PassedOver == "next"
PersistFailed == "decide"

WriteMarker ==
  /\ rpc = "write"
  /\ \/ /\ dir[cur]
        /\ rpc' = "chtimes" /\ marker' = [marker EXCEPT ![cur] = 0]
     \/ rpc' = PersistFailed /\ UNCHANGED marker
  /\ UNCHANGED <<up, crashes, listed, dir, tenant, todo, cur, scan, seen, client, quiet, flushed>>

Chtimes ==
  /\ rpc = "chtimes"
  /\ rpc' = "decide"
  /\ \/ /\ marker[cur] # None
        /\ marker'  = [marker EXCEPT ![cur] = LastActive(cur)]
        /\ flushed' = [flushed EXCEPT ![cur] = idle[cur]]
     \/ UNCHANGED <<marker, flushed>>
  /\ UNCHANGED <<up, crashes, listed, dir, tenant, todo, cur, scan, seen, client, quiet>>

Reap ==
  /\ rpc = "decide" /\ seen > MaxIdle
  /\ rpc' = "next" /\ Destroyed(cur)
  /\ UNCHANGED <<up, crashes, todo, cur, scan, seen, client, quiet, flushed>>

Keep ==
  /\ rpc = "decide"
  /\ rpc' = "next"
  /\ IF seen > MaxIdle THEN NotDestroyed(cur) ELSE UNCHANGED <<disk, tenant>>
  /\ UNCHANGED <<up, crashes, todo, cur, scan, seen, client, quiet, flushed>>

-------------------------------------------------------------------------------
Crash ==
  /\ up /\ crashes < MaxCrashes
  /\ up' = FALSE /\ crashes' = crashes + 1
  /\ mapped' = [t \in Tenants |-> FALSE] /\ active' = [t \in Tenants |-> FALSE]
  /\ idle' = [t \in Tenants |-> 0]
  /\ rpc' = "wait" /\ todo' = {} /\ scan' = 0 /\ seen' = 0
  /\ pc' = [h \in Handlers |-> "idle"]
  /\ UNCHANGED <<disk, cur, target, quiet, flushed>>

LoadAll ==
  /\ ~up /\ up' = TRUE
  /\ UNCHANGED <<crashes, disk, reaper, client, quiet, flushed>>
  /\ mapped' \in [Tenants -> BOOLEAN] /\ active' \in [Tenants -> BOOLEAN]
  /\ idle' \in [Tenants -> 0..Old]
  /\ \A t \in Tenants : Loaded(t)'

Older(age) == IF age < Old THEN age + 1 ELSE Old
AllOlder(ages) == [t \in Tenants |-> IF ages[t] = None THEN None ELSE Older(ages[t])]

Tick ==
  /\ \/ rpc \in {"wait", "clock"} /\ UNCHANGED scan
     \/ rpc \notin {"wait", "clock"} /\ scan < MaxScan /\ scan' = scan + 1
  /\ idle' = AllOlder(idle) /\ marker' = AllOlder(marker)
  /\ quiet' = AllOlder(quiet) /\ flushed' = AllOlder(flushed)
  /\ UNCHANGED <<up, crashes, listed, dir, mapped, active, rpc, todo, cur, seen, client>>

reapInactive == Scan \/ ReadClock \/ ReadActivity \/ WriteMarker \/ Chtimes \/ Reap \/ Keep

Next ==
  \/ \E h \in Handlers :
       Lookup(h) \/ Read(h) \/ Write(h) \/ MaterializeFails(h) \/ TouchActivity(h)
  \/ Deprovision \/ reapInactive
  \/ Crash \/ LoadAll \/ Tick

Spec == Init /\ [][Next]_vars

\* Time passes, the reaper's goroutine runs, a dead server is started again, and a
\* disk that removes nothing is mended some day.
Fairness ==
  /\ SF_vars(Tick) /\ SF_vars(Reap)
  /\ WF_vars(reapInactive) /\ WF_vars(LoadAll)

FairSpec == Spec /\ Fairness

-------------------------------------------------------------------------------
Ages == [Tenants -> 0..Old]

TypeOK ==
  /\ up \in BOOLEAN /\ crashes \in 0..MaxCrashes
  /\ mapped \in [Tenants -> BOOLEAN] /\ active \in [Tenants -> BOOLEAN]
  /\ listed \in [Tenants -> BOOLEAN] /\ dir \in [Tenants -> BOOLEAN]
  /\ idle \in Ages /\ quiet \in Ages /\ flushed \in Ages
  /\ marker \in [Tenants -> 0..Old \cup {None}]
  /\ \A t \in Tenants : ~dir[t] => marker[t] = None
  /\ rpc \in {"wait", "clock", "next", "write", "chtimes", "decide"}
  /\ todo \subseteq Tenants /\ cur \in Tenants
  /\ rpc \in {"write", "chtimes", "decide"} => active[cur]
  /\ scan \in 0..MaxScan /\ seen \in -MaxScan..Old
  /\ pc \in [Handlers -> {"idle", "read", "write", "touch"}] /\ target \in [Handlers -> Tenants]

\* Activity that was flushed to the marker is not forgotten: through crashes, failed
\* writes and requests that race the scan, the server never takes a tenant for idler
\* than it was at the last flush ("recovers the real idle time instead of resetting",
\* server/database_manager_test.go:364-366).
FlushedActivityKept ==
  \A t \in Tenants : mapped[t] /\ active[t] => idle[t] <= flushed[t]

\* A tenant nobody uses is deleted in the end, whatever flushes and removals fail on the
\* way ("databases deleted after 67 days of inactivity", website/static/robot.txt:39).
IdleIsReaped ==
  \A t \in Tenants : <>[](quiet[t] = Old) => <>[]~(mapped[t] /\ active[t])

\* The reaper deletes only what has had no request for InactivityDays ("after this many
\* days with zero requests", server/main.go:108).  It fails: requests go on between the
\* reading of lastActive and Deprovision, and activity since the last flush does not
\* survive a restart.
Reaped(t) == rpc = "decide" /\ rpc' = "next" /\ cur = t /\ mapped[t] /\ ~mapped'[t]
Idle(age) == age > InactivityDays
ReapedOnlyIdle == [][\A t \in Tenants : Reaped(t) => Idle(quiet[t])]_vars

\* These are the only ways to lose a tenant that was used: it was used during this very
\* scan, or the server was killed and the last flush is that old.
UsedAndLost(t) == quiet[t] <= scan \/ (crashes > 0 /\ Idle(flushed[t]))
UsedIsSpared == [][\A t \in Tenants : Reaped(t) => Idle(quiet[t]) \/ UsedAndLost(t)]_vars
================================================================================
