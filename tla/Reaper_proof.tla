------------------------------ MODULE Reaper_proof -----------------------------
(***************************************************************************)
(* Proofs about Reaper, for any tenants, handlers and bounds.              *)
(***************************************************************************)
EXTENDS Reaper, TLAPS

USE DEF vars, disk, tenant, reaper, client, Leave, Touch

AgesTyped ==
  /\ mapped \in [Tenants -> BOOLEAN] /\ active \in [Tenants -> BOOLEAN]
  /\ listed \in [Tenants -> BOOLEAN] /\ dir \in [Tenants -> BOOLEAN]
  /\ idle \in Ages /\ quiet \in Ages /\ flushed \in Ages
  /\ marker \in [Tenants -> 0..Old \cup {None}]
  /\ \A t \in Tenants : ~dir[t] => marker[t] = None
  /\ cur \in Tenants /\ todo \subseteq Tenants /\ target \in [Handlers -> Tenants]

\* A marker, and with it what LoadAll will believe, is no older than the last flush.
MarkersKept ==
  \A t \in Tenants :
    /\ mapped[t] => idle[t] <= flushed[t]
    /\ marker[t] # None => marker[t] <= flushed[t]

LEMMA OldType == Old \in Nat /\ None \notin 0..Old /\ 0 \in 0..Old
  BY ReaperAssumption DEF Old

LEMMA Aging ==
  ASSUME NEW a \in 0..Old, NEW b \in 0..Old
  PROVE  Older(a) \in 0..Old /\ (a <= b => Older(a) <= Older(b))
  BY OldType DEF Older

LEMMA AgesTypedStep ==
  ASSUME AgesTyped, [Next]_vars
  PROVE  AgesTyped'
<1> USE OldType DEF AgesTyped, Ages
<1>1. ASSUME NEW h \in Handlers, Lookup(h) \/ Read(h) \/ TouchActivity(h)
      PROVE  AgesTyped'
  BY <1>1 DEF Lookup, Read, TouchActivity
<1>2. ASSUME NEW h \in Handlers, Write(h) \/ MaterializeFails(h) PROVE AgesTyped'
  <2>1. target[h] \in Tenants /\ idle[target[h]] \in 0..Old
    OBVIOUS
  <2>2. CASE MaterializeFails(h)
    BY <2>1, <2>2 DEF MaterializeFails
  <2>3. CASE Write(h)
    <3>1. dir' \in [Tenants -> BOOLEAN] /\ active' \in [Tenants -> BOOLEAN]
      BY <2>1, <2>3 DEF Write
    <3>2. flushed' \in [Tenants -> 0..Old]
      BY <2>1, <2>3 DEF Write
    <3>3. marker' \in [Tenants -> 0..Old \cup {None}]
      BY <2>1, <2>3 DEF Write
    <3>4. \A t \in Tenants : ~dir'[t] => marker'[t] = None
      BY <2>1, <2>3 DEF Write
    <3> QED
      BY <2>3, <3>1, <3>2, <3>3, <3>4 DEF Write
  <2> QED
    BY <1>2, <2>2, <2>3
<1>3. CASE Deprovision
  BY <1>3 DEF Deprovision, Destroyed, NotDestroyed
<1>4. CASE Scan \/ ReadClock \/ ReadActivity
  BY <1>4 DEF Scan, ReadClock, ReadActivity, Scanned
<1>5. CASE WriteMarker \/ Chtimes
  BY <1>5 DEF WriteMarker, Chtimes, LastActive
<1>6. CASE Reap \/ Keep
  BY <1>6 DEF Reap, Keep, Destroyed, NotDestroyed
<1>7. CASE Crash
  BY <1>7 DEF Crash
<1>8. CASE LoadAll
  BY <1>8 DEF LoadAll
<1>9. CASE Tick
  <2>1. ASSUME NEW ages \in [Tenants -> 0..Old \cup {None}]
        PROVE  AllOlder(ages) \in [Tenants -> 0..Old \cup {None}]
    BY <2>1, Aging DEF AllOlder
  <2>2. ASSUME NEW ages \in [Tenants -> 0..Old]
        PROVE  AllOlder(ages) \in [Tenants -> 0..Old]
    BY <2>2, Aging DEF AllOlder
  <2>3. \A t \in Tenants : marker[t] = None => AllOlder(marker)[t] = None
    BY DEF AllOlder
  <2> QED
    BY <1>9, <2>1, <2>2, <2>3 DEF Tick
<1>10. CASE UNCHANGED vars
  BY <1>10
<1> QED
  BY <1>1, <1>2, <1>3, <1>4, <1>5, <1>6, <1>7, <1>8, <1>9, <1>10 DEF Next, reapInactive

LEMMA MarkersKeptStep ==
  ASSUME AgesTyped, MarkersKept, [Next]_vars
  PROVE  MarkersKept'
<1> USE OldType DEF AgesTyped, Ages, MarkersKept
<1>1. ASSUME NEW h \in Handlers, Lookup(h) \/ Read(h) \/ MaterializeFails(h)
      PROVE  MarkersKept'
  BY <1>1 DEF Lookup, Read, MaterializeFails
<1>2. ASSUME NEW h \in Handlers, TouchActivity(h) PROVE MarkersKept'
  BY <1>2 DEF TouchActivity
<1>3. ASSUME NEW h \in Handlers, Write(h) PROVE MarkersKept'
  BY <1>3 DEF Write
<1>4. CASE Deprovision
  BY <1>4 DEF Deprovision, Destroyed, NotDestroyed
<1>5. CASE Scan \/ ReadClock \/ ReadActivity
  BY <1>5 DEF Scan, ReadClock, ReadActivity
<1>6. CASE WriteMarker
  BY <1>6 DEF WriteMarker
<1>7. CASE Chtimes
  BY <1>7 DEF Chtimes, LastActive
<1>8. CASE Reap \/ Keep
  BY <1>8 DEF Reap, Keep, Destroyed, NotDestroyed
<1>9. CASE Crash
  BY <1>9 DEF Crash
<1>10. CASE LoadAll
  <2> SUFFICES ASSUME NEW t \in Tenants, mapped'[t] PROVE idle'[t] <= flushed[t]
    BY <1>10 DEF LoadAll
  <2>1. idle'[t] = 0 \/ (marker[t] # None /\ idle'[t] = marker[t])
    BY <1>10 DEF LoadAll, Loaded
  <2> QED
    BY <2>1
<1>11. CASE Tick
  <2> SUFFICES ASSUME NEW t \in Tenants
               PROVE  /\ mapped[t] => idle'[t] <= flushed'[t]
                      /\ marker'[t] # None => marker'[t] <= flushed'[t]
    BY <1>11 DEF Tick
  <2>1. idle[t] \in 0..Old /\ flushed[t] \in 0..Old /\ marker[t] \in 0..Old \cup {None}
    OBVIOUS
  <2>2. idle'[t] = Older(idle[t]) /\ flushed'[t] = Older(flushed[t])
    BY <1>11, <2>1 DEF Tick, AllOlder
  <2>3. marker'[t] = IF marker[t] = None THEN None ELSE Older(marker[t])
    BY <1>11, <2>1 DEF Tick, AllOlder
  <2> QED
    BY <2>1, <2>2, <2>3, Aging
<1>12. CASE UNCHANGED vars
  BY <1>12
<1> QED
  BY <1>1, <1>2, <1>3, <1>4, <1>5, <1>6, <1>7, <1>8, <1>9, <1>10, <1>11, <1>12
     DEF Next, reapInactive

LEMMA MarkersInit == Init => AgesTyped /\ MarkersKept
<1> SUFFICES ASSUME Init PROVE AgesTyped /\ MarkersKept
  OBVIOUS
<1>1. AgesTyped
  BY OldType DEF Init, AgesTyped, Ages
<1>2. MarkersKept
  <2> SUFFICES ASSUME NEW t \in Tenants
               PROVE  idle[t] <= flushed[t] /\ (marker[t] # None => marker[t] <= flushed[t])
    BY DEF MarkersKept
  <2>1. flushed[t] = Old
    BY DEF Init
  <2>2. idle[t] \in 0..Old /\ marker[t] \in 0..Old \cup {None}
    BY <1>1 DEF AgesTyped, Ages
  <2> QED
    BY <2>1, <2>2, OldType
<1> QED
  BY <1>1, <1>2

\* The server never takes a tenant for idler than it was at the last flush.
THEOREM FlushKept == Spec => []FlushedActivityKept
<1>1. AgesTyped /\ MarkersKept /\ [Next]_vars => (AgesTyped /\ MarkersKept)'
  BY AgesTypedStep, MarkersKeptStep
<1>2. MarkersKept => FlushedActivityKept
  BY DEF MarkersKept, FlushedActivityKept
<1> QED
  BY <1>1, <1>2, MarkersInit, PTL DEF Spec

-------------------------------------------------------------------------------
(* The reaper's own state, and what its reading of lastActive is worth.     *)

Deciding == rpc \in {"write", "chtimes", "decide"}

ScanTyped ==
  /\ up \in BOOLEAN /\ crashes \in 0..MaxCrashes
  /\ rpc \in {"wait", "clock", "next", "write", "chtimes", "decide"}
  /\ ~up => rpc = "wait" /\ todo = {}
  /\ \A t \in todo : active[t]
  /\ Deciding => active[cur]
  /\ scan \in 0..MaxScan /\ seen \in -MaxScan..Old
  /\ pc \in [Handlers -> {"idle", "read", "write", "touch"}]

LEMMA ScanTypedStep ==
  ASSUME AgesTyped, ScanTyped, [Next]_vars
  PROVE  ScanTyped'
<1> USE OldType, ReaperAssumption DEF AgesTyped, Ages, ScanTyped, Deciding
<1>1. ASSUME NEW h \in Handlers, Lookup(h) \/ Read(h) \/ MaterializeFails(h) \/ TouchActivity(h)
      PROVE  ScanTyped'
  BY <1>1 DEF Lookup, Read, MaterializeFails, TouchActivity
<1>2. ASSUME NEW h \in Handlers, Write(h) PROVE ScanTyped'
  <2>1. \A t \in Tenants : active[t] => active'[t]
    BY <1>2 DEF Write
  <2>2. pc' \in [Handlers -> {"idle", "read", "write", "touch"}]
    BY <1>2 DEF Write
  <2> QED
    BY <1>2, <2>1, <2>2 DEF Write
<1>3. CASE Deprovision
  BY <1>3 DEF Deprovision, Destroyed, NotDestroyed
<1>4. CASE Scan \/ ReadClock
  BY <1>4 DEF Scan, ReadClock, Scanned
<1>5. CASE ReadActivity
  BY <1>5 DEF ReadActivity
<1>6. CASE WriteMarker \/ Chtimes
  BY <1>6 DEF WriteMarker, PersistFailed, Chtimes
<1>7. CASE Reap \/ Keep
  BY <1>7 DEF Reap, Keep, Destroyed, NotDestroyed
<1>8. CASE Crash
  <2>1. crashes' \in 0..MaxCrashes /\ scan' \in 0..MaxScan /\ seen' \in -MaxScan..Old
    BY <1>8 DEF Crash
  <2>2. pc' \in [Handlers -> {"idle", "read", "write", "touch"}]
    BY <1>8 DEF Crash
  <2> QED
    BY <1>8, <2>1, <2>2 DEF Crash
<1>9. CASE LoadAll
  BY <1>9 DEF LoadAll
<1>10. CASE Tick
  BY <1>10 DEF Tick
<1>11. CASE UNCHANGED vars
  BY <1>11
<1> QED
  BY <1>1, <1>2, <1>3, <1>4, <1>5, <1>6, <1>7, <1>8, <1>9, <1>10, <1>11 DEF Next, reapInactive

LEMMA ScanInit == Init => ScanTyped
  BY OldType, ReaperAssumption DEF Init, ScanTyped, Deciding

\* The scan takes only active tenants, whatever requests and teardowns do meanwhile.
THEOREM TypeCorrect == Spec => []TypeOK
<1>1. AgesTyped /\ ScanTyped /\ [Next]_vars => (AgesTyped /\ ScanTyped)'
  BY AgesTypedStep, ScanTypedStep
<1>2. AgesTyped /\ ScanTyped => TypeOK
  BY DEF AgesTyped, ScanTyped, Deciding, TypeOK
<1> QED
  BY <1>1, <1>2, MarkersInit, ScanInit, PTL DEF Spec

\* Until the server is killed lastActive is the time of the last activity; and what the
\* scan has read of it is still true, or the tenant was used since the scan began.
ReadingHolds ==
  /\ ~up => crashes > 0
  /\ crashes = 0 => idle = quiet
  /\ Deciding => quiet[cur] <= scan \/ idle[cur] >= seen + scan \/ idle[cur] = Old

LEMMA ReadingHoldsStep ==
  ASSUME AgesTyped, ScanTyped, ReadingHolds, [Next]_vars
  PROVE  ReadingHolds'
<1> USE OldType, ReaperAssumption DEF AgesTyped, Ages, ScanTyped, Deciding, ReadingHolds
<1>1. ASSUME NEW h \in Handlers,
             Lookup(h) \/ Read(h) \/ Write(h) \/ MaterializeFails(h) \/ TouchActivity(h)
      PROVE  ReadingHolds'
  BY <1>1 DEF Lookup, Read, Write, MaterializeFails, TouchActivity
<1>2. CASE Deprovision
  BY <1>2 DEF Deprovision, Destroyed, NotDestroyed
<1>3. CASE Scan \/ ReadClock \/ ReadActivity
  BY <1>3 DEF Scan, ReadClock, ReadActivity
<1>4. CASE WriteMarker \/ Chtimes
  BY <1>4 DEF WriteMarker, PersistFailed, Chtimes
<1>5. CASE Reap \/ Keep
  BY <1>5 DEF Reap, Keep, Destroyed, NotDestroyed
<1>6. CASE Crash
  BY <1>6 DEF Crash
<1>7. CASE LoadAll
  BY <1>7 DEF LoadAll
<1>8. CASE Tick
  <2>1. \A t \in Tenants : idle'[t] = Older(idle[t]) /\ quiet'[t] = Older(quiet[t])
    BY <1>8 DEF Tick, AllOlder
  <2>2. idle = quiet => idle' = quiet'
    BY <1>8 DEF Tick
  <2>3. ASSUME Deciding PROVE scan' = scan + 1
    BY <1>8, <2>3 DEF Tick
  <2>4. cur \in Tenants /\ idle[cur] \in 0..Old /\ quiet[cur] \in 0..Old
    OBVIOUS
  <2> QED
    BY <1>8, <2>1, <2>2, <2>3, <2>4 DEF Tick, Older
<1>9. CASE UNCHANGED vars
  BY <1>9
<1> QED
  BY <1>1, <1>2, <1>3, <1>4, <1>5, <1>6, <1>7, <1>8, <1>9 DEF Next, reapInactive

LEMMA DurationFits ==
  ASSUME InactivityDays <= MaxDuration
  PROVE  MaxIdle = InactivityDays
<1> DEFINE w == 2 * (MaxDuration + 1)
           d == InactivityDays + MaxDuration + 1
<1>1. w \in Nat /\ w > 0 /\ d \in Nat /\ d < w
  BY ReaperAssumption
<1>2. ASSUME NEW n \in Nat, NEW m \in Nat, n < m PROVE n % m = n
  BY <1>2
<1>3. d % w = d
  BY <1>1, <1>2
<1> QED
  BY <1>3, ReaperAssumption DEF MaxIdle, Duration

\* As long as the days fit in a time.Duration, only the scan at work and a kill can cost
\* a tenant that was used.
THEOREM UsedSpared ==
  ASSUME InactivityDays <= MaxDuration
  PROVE  Spec => UsedIsSpared
<1> DEFINE IInv == AgesTyped /\ MarkersKept /\ ScanTyped /\ ReadingHolds
<1>1. Init => IInv
  BY MarkersInit, ScanInit, ReaperAssumption DEF Init, ReadingHolds, Deciding
<1>2. IInv /\ [Next]_vars => IInv'
  BY AgesTypedStep, MarkersKeptStep, ScanTypedStep, ReadingHoldsStep
<1>3. IInv /\ [Next]_vars =>
        [\A t \in Tenants : Reaped(t) => Idle(quiet[t]) \/ UsedAndLost(t)]_vars
  <2> SUFFICES ASSUME IInv, Next, NEW t \in Tenants, Reaped(t), ~(quiet[t] <= scan)
               PROVE  Idle(quiet[t]) \/ (crashes > 0 /\ Idle(flushed[t]))
    BY DEF UsedAndLost
  <2>1. Reap
    <3>1. rpc = "decide" /\ rpc' = "next" /\ mapped[t] /\ ~mapped'[t]
      BY DEF Reaped
    <3> QED
      BY <3>1 DEF Next, Lookup, Read, Write, MaterializeFails, TouchActivity, Deprovision,
            reapInactive, Scan, ReadClock, ReadActivity, WriteMarker, Chtimes, Keep,
            NotDestroyed, Crash, LoadAll, Tick
  <2>2. Idle(idle[t])
    BY <2>1, DurationFits, OldType, ReaperAssumption
    DEF Reap, Reaped, ReadingHolds, Deciding, Idle, AgesTyped, Ages, ScanTyped, Old
  <2>3. CASE crashes = 0
    BY <2>2, <2>3 DEF ReadingHolds
  <2>4. CASE crashes # 0
    <3>1. crashes > 0
      BY <2>4, ReaperAssumption DEF ScanTyped
    <3>2. idle[t] <= flushed[t]
      BY DEF MarkersKept, Reaped
    <3> QED
      BY <2>2, <3>1, <3>2, OldType, ReaperAssumption DEF Idle, AgesTyped, Ages
  <2> QED
    BY <2>3, <2>4
<1> QED
  BY <1>1, <1>2, <1>3, PTL DEF Spec, UsedIsSpared
================================================================================
