# fredb in TLA+

fredb is a small multi-tenant key/value store: one Go server hands out API keys, keeps one
embedded C++ engine per tenant, and serves `GET`/`PUT`/`DELETE /key/K` and `GET /range` for the
tenant named by the `X-Api-Key` header. These modules specify the server (`server/`), TLC checks
them on small instances, and TLAPS proves what matters most for every value of the constants.

    tlc -config MCDatabaseManager.cfg MCDatabaseManager     # a run; PROJECT.json lists them all
    tlapm DatabaseManager_proof.tla                         # the proofs of one component

`PROJECT.json` maps every definition to the lines it models, and lists the runs, the hazards, the
theorems, and for every property a mutant: a plausible bug in a mapped definition (defined next to
it, with a comment that starts "Mutant:") under which TLC finds that property violated.

## The system

| Component | State | Operations | Talks to |
|---|---|---|---|
| tenant manager, `server/database-manager.go` | `man.tenants` under `man.mu`; on disk `keys.txt`, `keys.txt.tmp` | `RequestProvision`, `Deprovision`, `Lookup`, `LoadAll`, `reapInactive`, `StorageStats`, `TenantCount` | `Database`, the file system |
| tenant, `server/database.go` | `state` (pending or active), `engine`, `bucket`, `rateLimit` under `db.mu`; `lastActive` (atomic); on disk a directory with the engine's files and an activity marker | `Get`, `Put` (materialises on first use), `Delete`, `Range`, `Destroy`, `SetRateLimitConfig`, `TouchActivity`, `PersistActivity` | bucket, engine, the file system |
| rate limiter, `server/rate-limiter.go` | `tokens`, `last` under `b.mu` | `Consume`, `Charge`, `refill` | the clock |
| engine binding, `server/engine_cgo.go` | the C handle | open, close, get, put, remove, range, total size | the C++ engine, a submodule whose sources are not in the repository |
| public API, `server/public.go` | none | `/provision`, `/key/`, `/range`: look up, then one operation | manager, tenant |
| admin API, `server/admin.go` | none | rate-limit override, storage report | manager, tenant |
| reaper, `StartReaper` | its local copies of `lastActive` and of the time | `reapInactive` at every tick | manager, tenant, the markers |
| status sampler, `server/status.go` | counters, rings and feed under `s.mu`; the published view (atomic) | `record` by every tracked request; `sampleHealth`, `publish` by one goroutine | manager |
| `server/main.go` | flags | `LoadAll` first, then the reaper, the sampler and the two listeners | all |
| `website/` | none | pages, `/ui/provision` (the manager's `RequestProvision`), `/status` | manager, sampler |

What is hard about it: every request is a goroutine, and most operations copy state under one
lock and use it after the lock is released (the engine handle, the bucket, `lastActive`, the
looked-up `*Database`); the manager updates memory and two kinds of files in an order that a kill
or an I/O error can cut anywhere; tenants come to life on their first write, racing teardown; and
the reaper decides on times that are flushed lazily and recovered after a restart.

What makes the parts correct:

- manager: a key that a client holds is not lost, a revoked one does not come back, no two clients
  share one, and no lock order leaves a request waiting for ever;
- tenant: at most one engine on a directory, acknowledged writes on disk until a teardown, no
  directory without a write; a linearizable map; a storage limit overrun only by Puts in flight;
- rate limiter: no token spent twice, bounded debt, one configuration per request;
- reaper: flushed activity is remembered, idle tenants go in the end, used ones stay;
- sampler: a view is consistent, the page keeps going.

## Modules

| Module | What it is |
|---|---|
| `DatabaseManager` | provisioning, lazy materialisation, teardown, crash and recovery; file-system operations and lock acquisitions are the steps |
| `ApiKeyService` | what the manager promises about keys; `DatabaseManager` implements it with `live` the keys that have a line of their own |
| `Database` | one tenant's requests against its teardown, section of lock by section of lock |
| `TenantStore` | a linearizable map that is closed once; `Database` implements it |
| `RangeDecoder` | the engine's answer to a range, read byte by byte |
| `RateLimiter` | buckets, costs, overrides, restarts |
| `Reaper` | activity, markers, the scan, kills and recovery |
| `StatusSampler` | rings, feed, the published view |
| `MC*` | instances for TLC, each with one or more `.cfg` |
| `*_proof` | theorems and proofs of one component |
| `SortingTheorems` | sorted orders exist, and what stands where in them; used by `StatusSampler_proof` |

The components meet at narrow places, and each module keeps its neighbours at the precision it
needs of them. `DatabaseManager` has `materialize` and `Destroy` step by step, `Database` and
`Reaper` have them in one step; `Database` lets the bucket admit or refuse freely, `RateLimiter`
says which; `DatabaseManager` counts a `Put` as acknowledged or not, `Database` says what it stores;
`Database` has a range answered in one step, `RangeDecoder` reads the answer; `DatabaseManager` has
the locks of the reaper's scan, `Reaper` what it decides.

### DatabaseManager

Handlers are goroutines; `pc` names the next step and `key` the tenant. A step is a file-system
operation or a section under a lock: `GenerateAPIKey`, `RequestProvision`, `AppendToRegistry` and
`InsertTenant` are `POST /provision`; `Lookup`, `PutLock`, `MaterializeMkdir`, `MaterializeOpen`
and `Write` a `Put`; `Deprovision`, `DestroyClose`, `DestroyRemoveAll`, `UnmapTenant`, `WriteTmp`
and `RenameTmp` a teardown, by a client or by the reaper. Every file operation can fail, and leaves
what it can leave behind. `ReapInactive` and `IsPending` are the scan of the reaper, the one place
where `man.mu` is held for reading while a handler waits for a `db.mu`: a writer of `man.mu` needs
`ManMuFree`. Other readers hold it for a moment, within one step. That a waiting writer holds back
later readers is left out: no handler takes one lock twice, or `man.mu` after a `db.mu`, so that it
makes readers wait longer and closes no circle. `HoldsUp` says who holds up whom: `NoCircularWait`
is the safety side of that argument, `EveryRequestAnswered` the liveness side. `Crash` is possible in every state and drops
everything but the disk; `LoadKey` is one turn of the loop of `LoadAll`. History variables (`issued`, `acked`, `revoked` ...)
hold what clients have been told.

`registry` is the set of the lines of `keys.txt` as `readRegistry` reads them, the unfinished last
one (`torn`) included: any line that is not empty is a key to it. An append that fails half way
leaves a line that is a fragment of a key, or all of the key but its newline, and the next append
goes on with that line (`EndWith`). Such lines have names in `Fragments`; `LoadAll` serves them as
pending tenants, the scan of the reaper asks them, and rewrites of `keys.txt` keep them, with a
newline. Clients know none of these names and send none. `garbled` is history: the fragments, and
the keys that were glued to one or are without their newline. `KeysSurvive` and `KeyService` are
about all other keys, `RestartKeepsKeys`, which fails, about the glued one too. There are as many
failures of this kind in an instance as `Fragments` has names. What the kernel had not written back when
the machine loses power is not modelled: a kill is of the process.

### Database and TenantStore

`ReadLock` and `PutLock` copy what the code copies under `db.mu`, `Admit` is the bucket's answer
and the checks of the copied state, `TotalSize` and `EngineCall` are the engine calls. `data` is the
engine's content and `size` what `TotalSize` tells. `TooLarge` compares the length of a value alone,
as the code does. How many bytes a call adds to the files (a key, whose length nobody checks, the
value, framing, the tombstone of a delete) is the engine's affair: `size` is any of `Sizes` after a
put or a delete, and the engine may write and rewrite its files at any other time (`Resize`). So no
bound on the size holds, and none is claimed: `OverrunBound` is about the number of Puts. From when
the limit is reached until the engine is below it again, no more of them are carried out than there
are handlers, those that were past the check (`overrun`, a history variable, counts them). Deletes
are never checked, and are not counted. On a handle that `Destroy` has closed an engine call does
anything (`Undefined`). A handler ends
with a status and a body (`Respond`), of which the statuses are those of the `StoreError`s and of
`public.go`, and the bodies are kept as far as they are read from the store.

In `TenantStore` an operation takes effect at one instant between call and answer. The refinement
mapping has two subtle parts. A request that copied the state "pending" takes effect at that
instant, with the answer of an empty map, and can be refused after it (429): it is `tentative` until
then. And a request whose copied handle was closed under it is `exposed`: of those alone the answer
is unspecified. `Meaning` is the client's reading of a status: 200, 204 and 404 say that the request
was carried out, 503 that it may have been, and any other (400, 401, 413, 429, 500, 507) that it
changed nothing. So `LinearizableStore` says that the statuses can be relied on, and that the stale
copy hurts nobody but requests that overlap the teardown; `CallsOpenHandle`, which fails, says that
it does hurt those.

### RangeDecoder

One step for each read of `decodeRangeBuf`: the count, a length, the bytes of a key or a value.
`taken` is how much of the buffer is behind the slice the code holds. A word has two bytes of base
`Base` instead of four of base 256, so that `uint32(n)` wraps at `Base * Base`; a slice past the end
is a `panic`. An answer carries what it was to stand for: `pairs`, where each of them `starts`, and
the `rest` that a cut answer lacks, related to the bytes by `Encodes`; any other bytes are of kind
"other". `Encodes` is the engine's side of the format as the decoder reads it, an assumption about
`Answers`; the instance has an encoder that satisfies it.

### RateLimiter

`Snapshot` copies bucket and rates, `Consume` and `Charge` are the sections under `b.mu`. Buckets
are numbered in the order they are made; `made` and `spent` are history. Tokens are integers, for
weights that are multiples of a unit: the rounding of `float64` is not modelled. `Restart` is
`LoadAll` making the `Database` again, with a full bucket and without the override.

### Reaper

Times are held as ages, in days, that stop at `Old`: beyond `InactivityDays + MaxScan` no comparison
of the code can tell two ages apart, and time can go on for ever in a finite graph, which liveness
needs. `MaxIdle` is `Duration(InactivityDays)`, the product of `main.go:132` in an `int64` that holds
`MaxDuration` days (106751 in the code) and wraps to negative numbers beyond. `TouchActivity`, which
reads the clock and stores it, is one step: the code can be held up between the two, and store a time
that is a moment old. `quiet` (age of the last request) and
`flushed` (age at the last flush to the marker) are history. `MaxScan` bounds how many days go by
during a scan.

`ReapedOnlyIdle` fails; `UsedIsSpared` is what holds instead: if the reaper deletes a tenant that was
used within `InactivityDays`, it was used since this scan read the clock, or the process was killed
and the last flush is older than that.

`IdleIsReaped` is about `man.tenants`: a tenant whose engine does not open at a restart is in it no
more, and keeps its directory until a restart that opens it.

### StatusSampler

`record` is a request's last step; the goroutine runs through `sampleHealth`, `TenantCount`,
`publish` and `Tick`. The first sample follows a walk of the data directory and later ones are at
least five seconds apart, so that the rate is brought up to date in each; the model keeps the number
of requests it is of. A request's status decides its `ok` (below 400), as `Measure` does.
A view is a record of numbers, before they are formatted. `Sorted` is some order of the slots by
latency, which is all that `slices.Sort` promises of numbers that can be equal; `percentile` has the index
`(p * (n - 1)) \div 100`, which is what the code's `float64` expression gives for every `n` up to its
window of 4096 and both percentiles shown; this was computed outside TLA+. `ViewOfOneMoment` does not sort: it says what a percentile is of the
latest requests of a kind (`Latest`, `IsPercentile`), by counting those that were faster.

## Runs

| Run | Instance | Result |
|---|---|---|
| `manager_safety` | 2 keys and a fragment, 3 handlers, kills and errors everywhere, an append that fails half way | `KeysSurvive`, `RevokedForever`, `SingleHandle`, `AckedOnDisk`, `NoDirBeforeWrite` hold; implements `ApiKeyService` |
| `manager_liveness` | 1 key and a fragment, 3 handlers, the scan among them, repeated draws | `OneOwner`, `NoCircularWait` and `EveryRequestAnswered` hold |
| `manager_torn_append` | 2 keys and a fragment | `RestartKeepsKeys` violated |
| `manager_late_put` | no append fails half way | `TornDown` violated |
| `database` | 2 handlers, 2 keys, values of length 1, 2 and one too long, sizes below, at and over the limit | `OverrunBound` holds; implements `TenantStore` |
| `database_closed_handle` | the same | `CallsOpenHandle` violated |
| `range_decoder` | lists of up to 2 pairs, texts of up to 5 bytes, every prefix, every buffer of up to 6 bytes | `NoPanic`, `ExactOrError` hold |
| `rate_limiter` | 2 handlers, 2 buckets, overrides, 3 ticks | `NoFreeTokens`, `DebtBound`, `OneConfig` hold |
| `rate_limiter_large_value` | the settings of `main.go` | `LargeValuesFit` violated |
| `reaper` | 1 tenant, 2 handlers, 2 kills | `FlushedActivityKept`, `IdleIsReaped`, `UsedIsSpared` hold |
| `reaper_race` | the same, no kills | `ReapedOnlyIdle` violated |
| `status_sampler` | 3 requests answered 204 or 404, window and feed of 2 | `ViewOfOneMoment`, `ShownInTheEnd` hold |

Why the bounds are enough to be interesting:

- manager: three handlers are a teardown, a first write and a provisioning (or two writes) at once;
  two keys make one key's rewrite of `keys.txt` meet another key. Kills are not bounded at all: the
  state space is finite without it, since keys are drawn once. One append fails half way, and the
  fragment it leaves meets the other key's append, its rewrite and any number of restarts.
- database: two handlers suffice to race each other and `Destroy`; the engine tells a size of 0, 2 or
  3 against a limit of 2, so that it is below the limit, hits it exactly and is over it, and any call
  can take it from one to the other.
- decoder: with `Base = 4` a length wraps at 16, and lists of two pairs of long texts make answers of
  16 bytes and more; the short buffers contain every order of a count, lengths and missing bytes.
- rate limiter: a capacity of 3 at a refill of 1 fills up, runs dry, and goes into debt by reads of
  weight 2; one override or restart is what two buckets allow (a third bucket relates to the second
  as the second to the first).
- reaper: one tenant is enough, for a tenant's times and files depend on no other tenant's, and the
  scan of others is time that passes in the middle of its own. `InactivityDays = 1` and `MaxScan = 1`
  put ages on both sides of every comparison, and `MaxDuration = 1` is the last value that does not
  wrap.
- sampler: windows of 2 wrap around within 3 requests of one kind. In windows of 2 both percentiles
  are the faster of the two; their ranks in longer windows are left to the proof.

Deadlock is checked in every run but `range_decoder`, where the decoder returns in the end.

### Disagreements between the code and what is said of it

Five runs end in a violation; each checks one sentence of the repository.

- `manager_torn_append` (`database-manager.go:105`): an append to `keys.txt` that fails half way
  leaves a fragment without a newline. The next key is appended to that line: its client is given
  a key that the next restart does not know, and that restart serves a tenant by the name of the
  glued line.
- `manager_late_put` (`database.go:173`): a `Put` that looked up a pending tenant before
  `Deprovision` removed it materialises it afterwards. Directory and engine stay behind a 204.
- `database_closed_handle` (`database.go:140`): `db.engine` is copied under the lock and used
  without it; `errGone` guards the copy, not the handle.
- `rate_limiter_large_value` (`rate-limiter.go:57`): with a burst of 10 MB no value of more than
  10 MB less 1 KB is ever admitted, though 50 MB are advertised.
- `reaper_race` (`database-manager.go:241`): the reaper reads `lastActive`, then writes the marker
  and waits for `man.mu`; a request in between does not save the tenant.

Met on the way, where the repository says nothing a run could check:

- The tenant leaves `man.tenants` before `keys.txt` is rewritten (`database-manager.go:221`). When that
  fails, the client gets a 500 and its retry a 404, while a restart serves the key again.
- A `Put` refused with 429 has made the tenant's directory and engine already (`database.go:173`).
- A range of a pending tenant is answered `null`, of an active one without pairs `[]`.
- The status page reports issues after any client's 404 or 429, until the next request
  (`status.go:124`).
- An inactivity of more than 106751 days wraps to a negative duration (`main.go:132`), with which the
  first scan deletes every tenant.

### Fairness

- `DatabaseManager`: strong fairness of each handler's `Step`. A goroutine that can run does run;
  and Go's `Mutex` and `RWMutex` queue waiters and hold back later readers, so that a handler whose
  lock is free again and again gets it. New requests, kills and restarts are not fair.
- `Reaper`: weak fairness of the goroutine's steps and of a restart after a kill; strong fairness of
  the clock (a scan may take only `MaxScan` ticks, which switches `Tick` off and on again), and of
  `Reap`: a disk on which every `RemoveAll` fails for ever refutes `IdleIsReaped`, so that it is
  assumed to work some time. Marker writes get no such promise.
- `StatusSampler`: weak fairness of the goroutine; requests need not come, and samples may fail for
  ever.

## Proofs

| Theorem | For every | Says |
|---|---|---|
| `DatabaseManager_proof`: `TypeCorrect`, `OneHandle`, `AckedDurable`, `LazyDirectory`, `RevocationFinal`, `IssuedSurvive`, `ImplementsApiKeyService` | keys, fragments, handlers, if no key is drawn twice | `TypeOK`, `SingleHandle`, `AckedOnDisk`, `NoDirBeforeWrite`, `RevokedForever`, `KeysSurvive`; the manager implements `ApiKeyService` |
| `OneOwnerEach`, `NoLockCycle` | keys, fragments, handlers, keys drawn twice or not | `OneOwner`, `NoCircularWait` |
| `Database_proof`: `TypeCorrect`, `OverrunBounded`, `Linearizable` | handlers, keys, values, lengths, sizes, limits | `TypeOK`; `OverrunBound`; the data path implements `TenantStore` |
| `RangeDecoder_proof`: `TypeCorrect`, `NeverPanics`, `DecodesExactly` | base, answers of any length, lists of any number of pairs | `TypeOK`, `NoPanic`, `ExactOrError` |
| `RateLimiter_proof`: `TypeCorrect`, `BudgetKept`, `ConfigKept`, `DebtBounded` | handlers, settings, overrides, lengths, bounds of the exploration | `TypeOK`, `NoFreeTokens`, `OneConfig`, `DebtBound` |
| `Reaper_proof`: `TypeCorrect`, `FlushKept` | tenants, handlers, `InactivityDays`, bounds | `TypeOK`, `FlushedActivityKept` |
| `UsedSpared` | the same, if `InactivityDays <= MaxDuration` | `UsedIsSpared` |
| `StatusSampler_proof`: `TypeCorrect`, `ViewsConsistent` | requests, windows, bounds | `TypeOK`, `ViewOfOneMoment` |

The arguments:

- Manager. `EngineInv` joins who holds which lock where (`LockInv`), that a key which is being drawn
  or registered is nobody else's (`KeyInv`; here `RepeatDraws = FALSE` is needed, since otherwise two
  `*Database` objects share a name), how open handles go with `engine` and `dbMu` (`HandleInv`: the
  type of `handles` rests on `Destroy` closing an open handle only), what is on disk for whom
  (`DiskInv`), and where a revoked key can no longer be (`RevokeInv`). `RegistryInv` adds what
  `keys.txt.tmp` holds while the rename is due, and keeps what is `garbled` apart; that
  `KeysSurvive` has to leave those keys out is what the run `manager_torn_append` shows.
- One owner. `OwnerInv` needs no assumption on the draws: a handler between the check under `man.mu` and the
  insertion holds `man.mu`, with a key that is no tenant's; and a key it has drawn that a client may
  use already is in `man.tenants`, since only a teardown takes it out and that ends the client's claim.
- Lock order. `WaitInv` makes `LocksHeld` an equivalence: a lock that is held is held by the handler
  that is inside the section that took it, for that very key. Under a `db.mu` nothing is waited for
  (`UnderDbMuRuns`), and under `man.mu` at most a `db.mu` (`HeldUpByDbMu`).
- Storage. `OverrunBound` is not inductive: a `Put` that passed the check is carried out later.
  `OverrunLeft` counts those too: at the limit `overrun + |Storing| <= |Handlers|`, where nobody joins
  `Storing` any more and each `Put` that is carried out leaves it; below the limit `overrun = 0`.
- Linearizability. `StoreInv` says that an engine is opened once and never reopened
  (`EngineOnce`) and what each handler's copy can be at each step (`HandlersPlaced`); under it every
  step of `Database` is a step of `TenantStore` or leaves its variables alone (`StoreStep`).
- Decoder. The comparison is made with a length that is cut down by wrapping around, never stretched
  (`WrapIsLess`): what passes it is there. The rest is that the position stays in the buffer.
  For `ExactOrError` no induction over the pairs is needed: `Reading` places the position by `starts`
  (after the count it is where the next pair starts, within a pair so many bytes behind that), and
  says that the pairs read are a prefix of those encoded. A word or text that is read ahead of the
  cut is that of the whole answer (`PrefixReads`), so a read gives the next part of the next pair
  (`NextPair`), and a whole answer fails only if it is so long that `uint32` wraps
  (`FailOnlyLong`).
- Rate limiter. `Ledger` states the budget for each bucket ever made, `Requesting` that requests
  use the rates of their bucket. `DebtBound` is strengthened to `Covered`: a bucket has credit
  set aside for the answer of every handler that is reading on it, so that its debt is at most one
  answer of each of the others. A bucket in debt admits nobody, hence no handler starts to read on it.
- Reaper. `MarkersKept`: of every tenant in `man.tenants`, both the time in memory and the one in its
  marker are no older than at the last flush; without a marker `LoadAll` takes the time of the restart.
  `UsedIsSpared` needs more: `ScanTyped`, and `ReadingHolds`, by which what the reaper read of a tenant
  (`seen`) is no larger than the age of its last request would allow, unless it was used during the
  scan, or the process was killed and the flush is that old.
- Sampler. `ViewOfOneMoment` rests on
  `RingShows`: the slot that was written `a` turns ago holds the latency of the request that exactly
  `a` others of its kind came after, so that the slots of a ring stand for the latest requests, one
  for one (`RingRecords` keeps it through the wrap-around). What a percentile is, is then a fact about
  orders: one exists (`OrderExists`, by the least size of which there is none) and the entry at an
  index has that rank (`Ranks`). `ViewStays` is that a published view goes on to be of its moment
  when later requests are recorded.

Assumptions are those named in the modules (`ManagerAssumption`, `DatabaseAssumption`, ...): finite
sets of handlers where they are counted, distinct model values, and numbers that are naturals.

Only model-checked: liveness (`EveryRequestAnswered`, `IdleIsReaped`, `ShownInTheEnd`), which is
beyond the prover. Every invariant and every action property of a run that passes is a theorem, and
so are both refinements. Where the induction theorems of the library would have been used, which
the provers cannot instantiate, the proofs take the least counterexample of a set of naturals
(`LeastNatural`).

## Not modelled

- The engine: its sources are not in the repository. Its calls are atomic operations that may fail,
  and how its files grow is left open.
- Clients that send the name of a fragment as their key.
- The lifetime of C buffers, and `lastError` (`engine_cgo.go`): how the engine keeps its last error is
  not in the repository. The allocation `decodeRangeBuf` makes for the count it was given.
- Parsing of flags and environment, CORS, logging, `X-Admin-Key`, methods that are not allowed (405),
  the admin's storage report, and the limit on request bodies: straight-line code without state.
- The website: its pages are generated templates without state of their own, and its operations are
  the manager's and the sampler's; the formatting of the status page.
- Power loss, and anything `fsync` would change.
- The rounding of `float64` in the rate limiter; the wall clock going backwards between a marker and
  its recovery.

## Plan

Done, in this order: manager and keys; the tenant's data path and its abstract map; the rate
limiter; the reaper; the status sampler; the decoder of ranges; statuses; the reaper's scan as a
handler of the manager, and the width of its durations; the order of its locks; the proofs above.

Next, in the order of what it would add:

1. Two `*Database` objects of one key in `DatabaseManager`, as after a teardown that left a `Put`
   behind: now such a `Put` shares the name with nobody, because keys are drawn once.
2. The formatting of the status page (`humanCount` and its like), should a property be stated of it.
