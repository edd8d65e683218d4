# mini-fleet-tracker: models, checks and proofs

TLA+ specifications of the parts of mini-fleet-tracker whose correctness depends
on order: requests that overlap, key-value and database calls that fail half
way, containers that stop between two calls, sockets that outlive the check that
admitted them. TLC checks them on small instances; TLAPS proves the safety
results for every instance. `PROJECT.json` maps every definition to the lines it
models and lists the runs, the mutants, the hazards, the findings and the
theorems.

## The system

A Go API (Fiber, one container, `max_instances = 1`) behind Cloudflare Workers:

    browser --> gateway Worker --> api Worker --> Go API ---- D1 (SQL over HTTP)
       |              |                             |  \----- KV (sessions, rate limits, quotas)
       |              |  POST /internal/publish <---/   \---- R2 (photos, signed URLs)
       \--- /ws ------+----------> FleetHub Durable Object --- KV (sessions)

| component | its state | its operations | what makes it hard |
|---|---|---|---|
| Process (`main.go`, `bootstrap.go`, `config.go`) | where start-up or shutdown stands | start, listen, drain | killed, replaced or put to sleep at any step |
| Migrator (`migrator.go`) | `schema_migrations` | apply, record | two calls per migration; a D1 that fails after it did the work |
| D1 client (`d1.go`) | none | one HTTP call per statement; rows to variables | a success that only the result denies; columns bound by position |
| Accounts (`auth_usecase.go`, `auth_handler.go`, `driver_repo.go`) | `drivers` rows; a browser's token | register, login, me | UNIQUE addresses typed in any case; lost and garbled answers |
| Sessions (`middleware/auth.go`, `auth_usecase.go`, `pkg/jwt`) | blocklist entries in KV | the auth middleware, logout | logout against requests already past the check; entries that expire before the token; KV failures |
| Vehicles (`vehicle_handler.go`, `vehicle_usecase.go`, `vehicle_repo.go`) | `vehicles` rows | list, get, create, patch, delete | read, probe and write without a transaction; UNIQUE plates |
| Positions (`position_usecase.go`) | `positions` rows; markers on dashboards | write: owner check, INSERT, publish, alert | four calls in a row, any of which fails; writes of one vehicle overlap |
| Geofences (`geofence_usecase.go`, `geofence_repo.go`) | `geofences` rows | set (DELETE, INSERT), lookup | two statements without a transaction; vehicles deleted meanwhile |
| Rate limits (`ratelimit.go`, `ratelimit_global.go`) | a bucket per key; a minute and a day counter, all in KV | admit or refuse | read and write are two calls; entries expire; failures admit |
| Photo quota (`photo_handler.go`, `photo_usecase.go`, `r2.go`) | a daily counter in KV | sign an upload URL; the upload | read, check, write without compare-and-set; fails closed behind a limiter that fails open |
| FleetHub (`fleet-hub.ts`) | sockets with attachments; a cache of verdicts | upgrade, frame, publish, close, hibernate | every await on KV lets other events in; fail-open; eviction |
| Live store (`frontend/app/stores/fleet.ts`) | a socket handle, a heartbeat, a badge | connect, frame, reconnect, leave | timers and callbacks of sockets already replaced |
| Gateway, demo expiry, everything else | listed in `PROJECT.json` under `components` | | stateless, wiring, rendering, or a client of the above |

What makes each component correct:

- *Process and migrator.* A process listens over the whole schema of its image
  or not at all; what is recorded has been applied, in order; a shutdown cuts
  off nobody in time; whoever waits is served in the end.
- *Accounts and sessions.* An address has one account; a session is its
  holder's and has its role; a token whose logout was answered is let in no more.
- *Vehicles.* Only managers make them; plates are unique; a patch changes what
  it names; ids are never reused nor revived; no answer is false, save one,
  the 200 of a PATCH whose row was deleted under it.
- *Positions and geofences.* Every crossing of a fence is reported once;
  what anybody sees was stored; no rows outlive their vehicle; a vehicle has at
  most one fence.
- *Rate limits and quota.* No window admits more than the configuration, nobody
  is refused below it, Retry-After and quota_remaining are true.
- *FleetHub.* A revoked token's socket is met by a re-check soon, and at the
  first frame if the revocation raced the upgrade; nobody else is disconnected;
  a socket that is open has been sent everything.
- *Live store.* After any drop it is connected again, with one heartbeat, and
  says Live only then.

## Modules

| module | models | composed with |
|---|---|---|
| `D1Client` | the client of D1's `/query`: verdicts on answers, rows to variables | extended by `Boot`, `Accounts` |
| `Boot` | the container's life: config, migrations, listening, shutdown | EXTENDS `D1Client`, refines `SchemaHistory` |
| `SchemaHistory` | abstract: what the migrator promises the database | implemented by `Boot` |
| `Accounts` | registration, login, `/me`, sessions, over `drivers` | EXTENDS `D1Client`; extended by `Vehicles` |
| `Vehicles` | `/api/vehicles` for whoever logged in | EXTENDS `Accounts`, refines `VehicleTable` |
| `VehicleTable` | abstract: what the vehicles table promises | implemented by `Vehicles`, environment of `Positions` |
| `Positions` | position writes, alerts and geofence sets over D1 | EXTENDS `VehicleTable`, refines `PositionLog` |
| `PositionLog` | abstract: what a position write promises | EXTENDS `VehicleTable`; implemented by `Positions` |
| `SessionsKV` | the sessions KV namespace and the clock | extended by `Session` and `FleetHub` |
| `Session` | the auth middleware and logout over KV | `Revocation` |
| `FleetHub` | the Durable Object | `Revocation`; refines `Broadcast` |
| `Broadcast` | abstract: who is sent which event | implemented by `FleetHub` |
| `Revocation` | API and hub over the one KV | EXTENDS `Session`, INSTANCE `FleetHub`; extended by `SessionProofs` |
| `RateLimit` | the token bucket of one key | alone |
| `CounterKV` | counters per minute and UTC day in KV | extended by `GlobalLimit` |
| `GlobalLimit` | the limiter in front of every route | EXTENDS `CounterKV` |
| `Photos` | presigning behind that limiter, and the upload | EXTENDS `GlobalLimit` |
| `LiveStore` | the live channel of one browser tab | alone |
| `*Proofs` | theorems | extend their module |
| `MC*` | symmetry and finite values for TLC | extend their module |

Definitions named `X_Something` just before `X` are the plausible mistakes
listed under `mutants`; no specification uses them.

### How state and actions correspond to the code

**One action per stretch of code between two calls that leave the process.** The
API handles requests in goroutines that share nothing but KV and D1, so a
handler is a record (a slot of `req`, `call` or `presign`, a member of `writing`
or `setting`) with a `pc` naming the call it waits for, and the values it
carries across it. A D1 statement is atomic, and so is a KV call; a failing one
either did not happen or happened with its answer lost, and both are modelled.

- `D1Client`: an answer is a record of the HTTP status, whether the body
  decoded, the envelope's success bit and one result per statement. `Ran`,
  `Refused` and `Garbled` are the answers D1 may give; among those `Ran` gives is
  the success without a result set, which `d1.go:227,249-252` reads as no rows.
  `DoQuery`, `QueryRow`, `Query`, `Violates` are what the code makes of them. A row
  is a set of named columns; `ColumnOrder` binds them alphabetically, as `collectColumnOrder`
  does, and `Scans` / `Scanned` are `Scan`'s type checks and assignments.
- `Accounts`: one D1 call per request, so each handler is an action. A password
  is the person who knows it. An address is a pair of the address and how it is
  spelt, because `strings.ToLower` is applied on the way in. `answer` is
  history: what the last response said of the tables.
- `Vehicles`: `List`, `Get` and `Create` are one call; `PatchLoad`,
  `PatchProbe`, `PatchWrite` and `DeleteProbe`, `DeleteWrite` are the calls of
  the other two. `PatchWriteMissing` is the UPDATE that finds no row, which D1,
  `Exec` and the handler all take for a success: 200 with the vehicle. A row keeps
  plate and driver; `model` behaves like driver.
- `Positions`: `WriteLookup`, `WriteInsert`, `PublishPosition`, `ReadFence` /
  `ReadNoFence`, `ReadCrossing` / `ReadNoCrossing`, `PublishAlert` are the steps
  of `PositionUsecase.Write` and `maybeEmitGeofenceAlert`; every one has its
  failure. `SetLookup`, `ClearFence`, `InstallFence` are
  `GeofenceUsecase.Set` and `GeofenceRepo.Upsert`. A circle is the set of
  places it contains; the distance formula is abstracted.
- `Boot`: `pc` is where `main` and `setupApp` stand; `ApplyBody` and `Record`
  are the two calls of a migration and `CallUnseen` a call whose caller saw
  nothing of it. `Sleep`, `Terminate`, `Kill` and `Deploy` are the platform.
  `created[v]` counts the statements of a body that the database has seen: the
  body runs whole, or stops at a table that exists.
- `Session`: `req[r]` is a request; `kv` holds the expiry of each blocklist
  entry; `exp` the tokens. The clock ticks `Second` times a second because `exp`
  lies on a whole second, KV lifetimes last whole seconds, and requests happen
  in between. `signedOut` is history: the tokens whose logout was answered 200.
- `FleetHub`: a Durable Object runs one event at a time, but an `await` lets the
  next in. `pending` holds the upgrades and frames that wait in
  `checkBlocklist`, with the time read before the await (`t0`); `KVAnswer` and
  `KVFails` decide, `UpgradeFinish` and `FrameFinish` go on. `Hibernate` empties
  the verdict cache and keeps sockets and their attachments, as the runtime does.
- `RateLimit`: `Arrive` reads the clock, `ReadBucket` reads KV and refills,
  `Admit` and `Deny` write and answer. A token is `Period` units and a tick adds
  one, so tokens are integers; the code's float and its rounding are abstracted.
- `GlobalLimit` and `Photos`: the four KV calls of the limiter, then the two of
  the quota. The clock is in minutes, the grain of the windows; `disturbed` and
  `raced` are history, the windows in which a count was lost.
- `LiveStore`: `sock[h]` is a `useWebSocket` handle; `Opens`, `Drop`, `Retry`
  and `LateClose` are its events, and each runs the store's callback, which acts
  on the store's present handle and interval, whoever's they are. `wsBase` says
  whether the build has a URL to connect to; without one `connect`'s catch leaves
  "closed" and no handle.

## Runs

| run | question | instance | states |
|---|---|---|---|
| `session` | does an answered logout hold? | 2 tokens, 2 requests, 10 half-seconds | 945 k |
| `fleet_hub` | are revoked sockets re-checked, others left alone, events complete? refinement | 2 sockets, 1 token, N = 2, 3 frames each, 2 waiting checks | 2.9 M |
| `positions` | do answered writes report their crossings exactly, nothing seen unstored, no rows orphaned, fences repaired? refinement | 1 vehicle, 2 places, 3 fixes and 2 Sets, 2 of each at once | 2.3 M |
| `vehicles` | are keys unique, sessions and answers (but `GhostPatch`) true, undisturbed patches exact? refinement | 2 people, 1 address in 2 spellings, 2 drivers, 2 vehicles, 2 plates, 2 requests | 201 k |
| `rate_limit` | is the configured rate an upper and a lower bound? | 2 tokens of 3 ticks, 5 requests, 2 at once, 8 ticks | 5.1 M |
| `photos` | do the windows and the quota hold, and tell the truth? | 2 requests at once, 4 in all, 2 days of 2 minutes, limits 2 and 3, quota 2 | 3.6 M |
| `boot` | is what listens complete, does every start get further, and is everybody served? refinement, liveness | 2 migrations of 2 statements, 5 environments, 2 clients, 3 faults | 6.8 k |
| `live_store` | is the badge true, does every event help, and does the channel return? liveness | 3 handles, with and without a URL | 152 |
| `logout_closes_sockets` | violation, see Findings | 1 token, 1 socket | |
| `overlapping_sets` | violation | 1 vehicle, 2 Sets | |
| `photo_sizes` | violation | 1 request, photos of 1 and 2 bytes | |
| `rerun_migration` | violation, of a liveness property | 1 migration, 1 fault | |

Bounds, and why they are enough to meet the interesting cases:

- `session`: `TokenTTL` is three seconds and `KVMinTTL` two, so an entry may be
  written with the token's remaining life above, at and below the minimum; two
  requests allow a double logout and a logout between another's two steps.
- `fleet_hub`: with `N = 2` the sampled frames are 1 and 3, so a revocation falls
  before, between and after them; the second socket shares the token and its
  close drops the cached verdict; two checks may wait at once. With one token,
  what one token's verdict does to another's sockets is left to the theorem,
  which holds for any number of tokens.
- `positions`: three positions of which two overlap: the one before, the one
  after and the one in between, each slow, failed or killed. `CrossingsReported`
  relates a write to its predecessor, so a fourth adds none. Two Sets overlap,
  or the second repairs what the first left.
- `vehicles`: two of everything that can conflict: an address taken by the other
  person, a plate taken by the other vehicle, a row changed or deleted by the
  other request. Vehicles and drivers are registered, changed and deleted by
  people who hold the wrong role, the right one, or none.
- `rate_limit`: two requests empty the bucket, a third is refused, and two more
  overlap, expire or wait out Retry-After. `TTL = Full + Deadline` is the
  tightest lifetime that the assumption allows. With four requests the term
  `setback` of `NeverLooser` is never needed; with five it is. `Period` and
  `Second` are coprime so that Retry-After has something to round.
- `photos`: the limits are reached by two, three and two requests; the clock
  crosses a minute's and a day's end; one fault falls on any of the six calls.
- `boot`: three faults are a stop between a body and its row, one in the next
  start, and one in the process that listens; two clients let one wait while the
  other is handled; the second migration arrives with a new image.
- `live_store`: no bounds but the handles. Three are two earlier sockets that
  are still closing and one that connects.

The theorems below remove these bounds from the safety properties. The type
invariants of `FleetHub`, `Positions`, `Vehicles`, `Photos` and `Boot`, and
`InOrder`, which `SchemaHistory` implies, are in no run, because they are proved. Deadlock is
checked except in `rate_limit`, `photos` and `photo_sizes`, where the clients
make `MaxCalls` requests and stop, and `vehicles`, where people may stay away
for good once ids are used up. Symmetry is used for requests, tokens, sockets,
people, drivers, vehicles and plates, none of which the specifications order,
and only in runs without liveness.

### Fairness

Two runs check liveness, under weak fairness of what the program and its
runtimes do by themselves, and of nothing people or networks do.

- `Boot`: a process that can take a step takes it, handlers return (the request
  deadline cancels what they wait for), and the platform starts the container
  for whoever waits, which is what its `fetch` does. Clients, kills,
  deployments and sleep are left to chance; `MaxFaults` makes kills and failing
  calls finite, without which nothing could be promised. `Served` then assumes
  the deployment is configured and that no stop ever tears a body from its row;
  `rerun_migration` shows what happens without the last condition.
- `LiveStore`: `SocketStep(h)`, a socket's events and its retry timer, is fair
  for every handle, since VueUse retries without end (`retries: -1, // unlimited` in the
  store's options) and a browser reports the end of a socket. `ChannelReturns`
  promises the channel only if there is a URL and page and network stay.

### What a property says, when it is subtle

- `RevokedStaysOut` and `BlocklistCovers` leave out less than one second before
  `exp`: `KVClient.Put` truncates the lifetime to whole seconds
  (`backend/pkg/cfclient/kv.go`), so in a token's last fraction of a second a
  logged-out token may pass. The exception is exactly that wide.
- `RecheckWithinN` counts frames. The store sends a heartbeat every 25 s, so 10
  frames are some 250 s.
- `CrossingsReported` reads "consecutive" off the rows' AUTOINCREMENT ids, which
  is what the code does, and not off `recorded_at`.
  It is about writes that were answered and met no failure: a crossing whose
  INSERT is stored but whose answer is lost, or whose lookup or publish fails, is
  reported by nobody.
- `LonePatchIsExact` and `LoneSetRepairs` are about requests nobody interfered
  with between read and write.
- `AnswersTrue` compares a response with the tables at the moment its last call
  ran: a 201 or 200 shows a row as stored, the 200 of a PATCH included, a 204 or
  404 names an absent one, a 409 a taken key, a 401 credentials nobody has. A 500
  claims nothing. `GhostPatch` is excepted by name: the 200 of a PATCH whose row
  a DELETE took between its probe and its UPDATE. That answer is false, and the
  run reaches it (`PatchLoad`, `PatchProbe`, `DeleteProbe`, `DeleteWrite`,
  `PatchWriteMissing`); the property and its theorem say that it is the only
  false one.
- `WindowHolds` and `QuotaHolds` leave out windows in which a KV call failed, a
  container stopped or two requests overlapped between read and write. There the
  limiter is open by design; `RefusedAtLimit` and `ExceededAtQuota`, that nobody
  is refused early, have no exception.
- `ImplementsBroadcast` hides the blocklist, KV and the clock. A member that is
  kicked, fails or closes leaves, and what was sent to it is forgotten with its
  attachment; the abstract hub has no step by which it could come back.
- `ImplementsPositionLog`: `waiting` are the rows of writes that have passed the
  owner check and not reached their INSERT; a write that fails, or is killed,
  gives its row up, and an INSERT whose answer is lost has still stored it. The
  vehicles move as `VehicleTable` lets them, and a deleted one takes its rows
  along.
- `ImplementsSchemaHistory`: `owed` is the one version whose row its own process
  is about to write. A version begun, not recorded and owed no more stays in the
  way for good, because `Begin` and `Open` want everything begun to be recorded.
  `open` is listening in production; development listens over no schema.
- `StartAdvances` and `ChannelProgress` are the measures behind the two liveness
  properties. A start may leave its way only for a reason the property names; a
  channel may be set back only by a close event that was already on its way.
- `NeverLooser` compares full moments: a bucket that holds `t` units at `last` is
  full again at `last + Full - t`. `due` is that moment for an ideal bucket
  charged with the undisturbed admissions; each may find it at most `Full` ahead
  of itself. The term `setback` is needed because a request that read its clock
  early and the bucket late stamps the bucket with its own, earlier time
  (`LastRefillMs = nowMs` even when `elapsedMs` is negative), and the time in
  between then flows in twice. The comment at `ratelimit.go:276-278` says that a
  clock running backwards cannot inflate the bucket; the refill of the request
  itself does not, the next one's does.

## Findings

1. **A logout closes no WebSocket** (`logout_closes_sockets`). The API writes
   `bl:<jti>`, the hub reads `<jti>`.
2. **Two fences** (`overlapping_sets`). The "1:1 invariant" that the repository
   says Upsert enforces does not survive two overlapping Upserts.
3. **Photos below the limit do not upload** (`photo_sizes`). The maximum is
   signed as the exact `Content-Length`.
4. **A torn migration is for good** (`rerun_migration`). When the second call of
   a migration fails, re-running never helps, whatever `migrator.go:106-110`
   tells the operator.

### Smaller observations

Met while modelling and not made runs.

*Overlaps the code accepts.* Overlapping PATCHes undo each other's fields: "nil
fields preserve" holds of the value read (`vehicle_usecase.go:264-266,287`).
Positions of one vehicle that overlap are broadcast in either order, and a
dashboard keeps the last frame (`fleet.ts:77,197`). Overlapping limiter calls
under-count, where the comment says last-writer-wins errs on the side of
counting too much (`ratelimit.go:58-60,245`). `photo_usecase.go:207-212` says
that a race "may grant a 4th presign"; any number of overlapping requests may.
`ratelimit_global.go:131-135` says that the counters skew by at most one; a
failed read restarts a window from one.

*Rows that go meanwhile.* The UPDATE of a vehicle deleted since the PATCH's probe
changes nothing and is answered 200 with the whole vehicle
(`vehicle_handler.go:227`), where the comment on the probe
(`vehicle_repo.go:204-205`) says that a missing row "must surface as ErrNotFound,
not silently succeed with zero rows updated". It is `GhostPatch`, the exception
of `AnswersTrue`. A DELETE of a vehicle deleted between its probe and
its write is answered 204, where one that came later gets 404. A history of a vehicle deleted between its
probe and the list is an empty 200, where `vehicle_usecase.go:203-205` wants 404.
A `driver_id` that is not registered is answered 500, on create and on PATCH.
Photo objects stay in R2 after their vehicle is deleted. A geofence Upsert that
stops after its DELETE has lost the old fence, which the comment at
`geofence_repo.go:88` calls a no-op.

*D1.* The comment at `d1.go:346-349` says columns are bound in declared order;
the code binds them alphabetically, and every caller is written for that.
A success without a result set is "degenerate but valid" (`d1.go:249-252`): it is
read as no rows, and for an INSERT or UPDATE as done. `isNoRowsErr` and the two constraint checks match the error's text.
`bootstrap.go:36-38` wants client timeouts strictly below the request deadline;
the D1 and KV clients take 10 s (`d1.go:59`, `kv.go:50`), which is the deadline,
and so is the shutdown's grace.

*Start-up.* A bare development host does not boot, although `config.go:9-10,65`
and `bootstrap.go:132-133` say it does: the D1 and KV clients refuse the empty settings first.
`bootstrap.go:398-404` exempts `/api/healthz` from the demo's expiry; the
middleware knows only `/healthz` (`expiry.go:57`).

*Sessions.* A logout whose Put was applied but not acknowledged answers 500,
keeps the cookies, and its retry gets 401; the frontend's logout swallows that
500. `durable.go:81-83` speaks of a body-only signature that the verifiers do
not accept.

*Frontend.* A close event that arrives after a disconnect leaves the badge on
"reconnecting", and one of an earlier socket stops the present one's heartbeat:
the channel is open, the badge does not say Live, and the edge closes the socket
as idle before it comes back. The dashboard sets its playback timer after two
awaits (`index.vue:150-167`), so a page left in between never clears it, and the
timer then overwrites live positions, where the comment says that they win.
`PhotoUpload.vue:161` lowers `quota_remaining` a second time (its comment at
26-32). `ARCHITECTURE.md:205` has the photo quota per user with 24 h; the code
has it per vehicle with 26 h; the 10 a minute of line 199 is not implemented.

*FleetHub.* A check that answers after its socket closed caches a verdict that
no close will drop (`fleet-hub.ts:312`). It holds a revocation only longer.

## Assumptions on the environment

- KV is read after it was written: the global delay of Workers KV (up to a
  minute) is not modelled; it would weaken `RevokedStaysOut` by its length, and
  let more requests through a window.
- Entries vanish exactly when their lifetime ends.
- One D1 statement is atomic; foreign keys and UNIQUE are enforced. A statement
  whose caller gave up takes effect, if ever, before the next call reaches D1.
- A success of D1 carries its rows: one without a result set answers only a
  statement that ran and has none to tell. Nothing in the client would tell it
  from a listing of an empty table, or from a write that was done.
- Signatures, Origin and envelope checks are the good case of a guard: the
  requests they refuse change nothing.
- `NewID` never repeats.
- Processes share a clock. Within the container this is so by construction; the
  hub's clock matters only for cache ages.

## Proofs

`tlapm` checks eight modules. Assumptions are those the specifications declare
(`KVAssumption`, `BootAssumption`, `VehiclesAssumption` and so on) and are
evaluated by the runs. Each module proves `Spec => []IInv` for an inductive
invariant and draws its theorems from it; together they state every safety
property of the passing runs, the four refinements among them.

- **`SessionProofs`**: `TypeOK`, `BlocklistCovers`, `RevokedStaysOut`.
  `BlocklistCovers` is not inductive: a logout in progress has computed its
  lifetime and not written it yet. `IInv` adds `InFlight` (the lifetime carried
  is no shorter than what the token has left, because time only shortens it),
  `ExpiryBound` (expiries lie on whole seconds within the horizon) and
  `SignedOutMinted`. The heart of it is arithmetic: `now + FloorSecond(rem)` with
  `rem >= exp - now` lies less than a second below `exp`, and a later Put, with
  its own lifetime, lands no lower.
  The module also proves the composition `Revocation`: `HubLeavesApiAlone`, that
  a step of the hub is a stutter of `Session` and every other step one of its
  own (the hub writes nothing), whence `LogoutHoldsBesideHub`, the theorems
  above with the hub present; and `LogoutReachesNoSocket`, which is finding 1 in
  every instance and interleaving. Its invariant says that the keys the hub
  reads are absent from KV, because the API writes other keys, so no check
  under way carries, and no cache holds, a "revoked" verdict.
- **`FleetHubProofs`**: `TypeOK`, `ClosedOnlyIfRevoked`, `OpenMissesNothing`,
  `RecheckWithinN`, `FirstFrameCatchesRace`, for every `N >= 2`, any number of
  sockets and waiting checks. `IInv` says what a waiting check is
  (`PendingOK`), that a "revoked" verdict, cached or carried, has an entry behind
  it (`VerdictsOK`), that a check asked after the entry was written will see it
  (`ChecksSee`), and that the last sampled frame at or above the revocation was
  asked (`Rechecked`), from which one of any `N` consecutive frames follows.
  `HubBroadcasts` is the refinement of `Broadcast`, from the same `IInv`: an upgrade that waits has not
  joined yet, and a frame that waits may find its socket gone. Each action is a
  stutter, a `Join`, a `Leave` or, for `Publish`, an `Announce`.
- **`RateLimitProofs`**: `TypeOK`, `NeverLooser`, `NeverStricter`,
  `RetryAfterHonest`. `Covered` compares the moments at which the stored and the
  ideal bucket are full, with a part for requests that are about to read and one
  for those that have read; `CallsOK` gives an undisturbed request the slots to
  itself; `EntryOK` makes an expired entry harmless, which is where
  `TTL >= Full + Deadline` is needed. `Charged` is the same comparison from the
  other side. `Promised` says that the entry, written or not, keeps the promise
  of the last 429 until somebody else reads it.
- **`PhotosProofs`**: `TypeOK`, `WindowHolds`, `RefusedAtLimit`, `QuotaHolds`,
  `ExceededAtQuota`, `RemainingHonest`, for all limits, lifetimes and numbers of
  requests. For an undisturbed window the stored counter is exactly what was let
  through, less the one request between its read and its write (`Exact`); for
  every window it is at most that, so a refusal has as many admissions behind
  it. An entry outlives the last request that may read it, which is where the
  lifetimes' assumptions are needed.
- **`BootProofs`**: `TypeOK`, `RecordedMeansApplied`, `InOrder`,
  `ServesComplete`, `CutOnlyAtDeadline`. `Migrating` says, at each step of the
  migrator, which versions its loop has behind it and that the body just applied
  is whole; a process that ends keeps what concerns the database alone, whatever
  the step. `Draining` bounds the age of requests by the shutdown's clock, from
  which `Grace >= Deadline` gives `CutOnlyAtDeadline`. Four more theorems are
  about starts. `TornIsForGood`: no step mends a migration whose body ran and
  whose row is missing, since `CREATE TABLE` fails on it and `Record` follows
  only a body that succeeded. `TornIsFatal`: while there is one, nothing is past
  the migrator. Its invariant `OneAhead` says that every version before one that
  the database has anything of is recorded, so a torn migration is the next one
  of every later start. Together they are finding 4 for every list of migrations.
  `BootKeepsHistory`, the refinement of `SchemaHistory`, rests on the same
  invariant: a body that runs on a schema without it finds everything begun
  recorded. `StartMakesProgress`:
  every step of a start comes nearer to Listen, by `Stage` and then by `todo`,
  unless something failed, is torn or is not configured; with fairness, that is
  `Served`.
- **`VehiclesProofs`**: `TypeOK`, `EmailsUnique`, `SessionsTrue`, `PlatesUnique`,
  `ManagersOnly`, `AnswersTrue` (with its one exception), `LonePatchIsExact`, and
  `Spec => ImplementsVehicleTable`, the refinement. It rests on lemmas about the
  client: the alphabetical order of each table's columns (by counting, since no
  induction over data is available), that a stored row survives JSON and `Scan`,
  and what each kind of answer can make the repositories believe. `IInv` adds
  that accounts are stored under their ids in one spelling, which makes
  the bytewise UNIQUE one of addresses; and that a PATCH in flight is about a
  vehicle that has existed and, if nobody raced it, still carries the row merged
  with its patch. That a vehicle never comes back follows from the UPDATE's
  `WHERE id`, and that a DELETE's target has existed.
- **`PositionsProofs`**: `TypeOK`, `NoOrphans`, `StoredBeforeSeen`,
  `CrossingsReported`, `LoneSetRepairs`. `IInv` relates every write in progress
  to its row and to the highest id so far (ids of deleted rows are not reused),
  and every Set in progress to the fences there are. `PositionsKeepLog` is the
  refinement of `PositionLog`. It needs `OneRequestEach` besides: the numbers
  that tell positions apart belong to one request each, so that storing or
  giving up a row takes that row and no other from `waiting`; that rows past
  their INSERT are stored, or went with their vehicle, is `StoredBeforeSeen`'s
  argument again.
- **`LiveStoreProofs`**: `TypeOK`, `LiveIsLive`, `OneChannel`, which are inductive
  together, with `NeverStranded`, which, where there is a URL, makes every state one from which some
  event of the store's own socket leads on. From it `ChannelMakesProgress`: the
  number of sockets still closing, and then `ToGo`, go down with every event
  while page and network stay. That such events keep coming is fairness, and
  stays with TLC.

Only model-checked: `Served` and `ChannelReturns`, since liveness under fairness
is out of the prover's reach, as are ENABLED and what recursive definitions
compute. What is proved of those two is their safety core, the measures
`StartAdvances` and `ChannelProgress`.

## Not modelled, and why

- The gateway keeps no state; a publish it refuses for its age is one of the
  frames `Positions` lets get lost, and nothing retries it. Demo expiry compares
  three clocks with one date.
- Request parsing, field validation and error mapping (pure); CSRF, CORS,
  request ids and logs (no state between requests); health checks, position
  history and photo listing (reads only).
- HMAC, SigV4, JWT and argon2id (pure, assumed correct; a signed URL is what it
  binds); the haversine formula (pure, real arithmetic).
- Replay and the session mirror of the frontend, pages and components
  (sequential within a page, or rendering); seed and simulator (clients of the
  API); the API Worker (forwards; its `sleepAfter` is `Boot`'s `Sleep`).

## Plan

1. The dashboard's playback (`index.vue`, `fleet.ts`) against live frames and
   leaving the page: timers set after an await.
2. `Positions` and `LiveStore` joined: what a dashboard that reconnects shows
   after the frames it missed.
3. KV that is read stale: `Session` and `GlobalLimit` over a store whose readers
   lag, and by how much their promises weaken.
