# Verification of the Home Connect plugin

Specifications in TLA+ of the Indigo plugin for Home Connect appliances
(`Home Connect.indigoPlugin`), the configurations that model-check them with TLC, and proofs
checked by TLAPS. `PROJECT.json` indexes it: components, runs, mutants, the source lines
behind every definition, findings, hazards and theorems. File names below are those of
`Home Connect.indigoPlugin/Contents/Server Plugin/`.

## The system

The plugin keeps one server-sent-event stream to the cloud of Home Connect open for all
appliances, mirrors what it reports into Indigo devices, and sends control actions back. What makes
it hard is the cloud: it counts requests (1000 a day), blocks a client for up to 24 hours
after too many errors, reports late, drops the stream, and revokes authorization.

| Part | State | Operations | Talks to |
|---|---|---|---|
| `hc_api.HomeConnectAPI` | the request gate `_earliest_retry`, the abort event, the daily counter, `_last_used_token` | `request`, `open_stream`, `abort`, `gate_wait_remaining` | every thread below calls it; it calls auth on a 401 |
| `hc_events.EventStream` (reader thread) | current socket, backoff, failure count | `run`, `close` | posts START, wire events and STOP to the scheduler |
| `hc_events.Scheduler` (worker thread) | heap of jobs by deadline | `post`, `run`, `stop` | runs every handler of every appliance |
| `hc_events.HomeConnectCoordinator` | registry of appliances | `start`, `stop`, `_dispatch`, `_route`, `_discover` | owns the three above |
| `hc_appliance.HomeConnectAppliance` | state cache, connection, disconnect generation, re-read queue, observers | stream and connection handlers, `_run_read`, probe, `merge_items` | GETs through `ApiReader`; observers in bridges, waits and watches |
| `hc_control.Controller`, `RateLimiter` | two limiters | start, select, stop, pause, resume, command, power, setting | Indigo action threads; reads the state cache |
| `hc_auth` | token store (memory and file), refresh lock per client, device flow, staleness | `refresh_if_needed`, `handle_unauthorized`, `run_device_flow`, `TokenStore.set` | the supervisor thread, any thread that gets a 401 |
| `device_bridge.ApplianceBridge` | attachment, orphan latch, dynamic states | `attach`, `detach`, `push`, `mark_waiting`, `mark_orphaned`, `mark_auth_required` | observes an appliance, writes to the Indigo server |
| `hc_cache` | 24 h capability cache on disk | `get_or_load` | the controller's loaders |
| `plugin.Plugin` | the current client, auth, coordinator, bridges | `_reconcile_coordinator`, `_rebuild_client`, device and action callbacks | supervisor thread, Indigo callback threads |

**Threads.** The reader, the worker, the supervisor (every 60 s), Indigo's main thread (devices
start and stop), one per Indigo action or dialog, the device-flow poller and one-shot timers. Only the worker runs appliance handlers;
every thread may be in `request()` at once, and they share its gate.

**Hard behaviours.** Jobs superseded while they are queued; a stop racing the opening of a
stream, or giving up on a thread that goes on; a pass of GETs interrupted by a disconnection;
retries of requests that may have been executed; a gate that anybody's 429 closes for
everybody; a condition observed between a check and a subscription; a client replaced while
its flows and its coordinator run on; a device started while its appliance comes or goes.
`PROJECT.json` lists each under "hazards" with the properties that cover it, or why none does.

**What makes each part correct.**

- Appliance: what `connected` says follows the stream and the cloud; a re-read that is wanted
  is never lost, never doubled, and never goes on for an appliance that left; errors park the
  queue, and parking is not for ever.
- Reader: `stop()` ends it and leaves no stream open; it comes back whenever it may, at a
  bounded cost; what it posts comes in brackets.
- Client: a program start is never executed twice; a call costs a bounded number of requests
  and ends, if its 401 handler does; backoffs are kept.
- Controller: limits hold over every window; nothing runs that was not granted; a wait for
  Ready misses nothing; no Indigo thread is blocked.
- Auth: one refresh at a time, no token presented that the service has exchanged already, no
  refresh right after another, a due token replaced as long as there is a refresh token to do it
  with, whatever fails to be saved and whenever the plugin restarts.
- Lifecycle: at most one live stream, of the current client, and one whenever a client is
  authorized; a lost authorization is shown.
- Bridges: a device is attached to the one live appliance object of its haId and shows its
  present state, or says why not; no state of the appliance is pushed to a stopped device.

## The modules

| Module | Models | Proofs |
|---|---|---|
| `Appliance` | `HomeConnectAppliance`, `Scheduler`, `_route`, one appliance | `ApplianceProofs` |
| `StreamFeed` | abstract: what the reader promises the worker | – |
| `EventStream` | the reader thread, `stop()`, `open_stream` and its gate; implements `StreamFeed` | `EventStreamProofs` |
| `RateLimiter` | `RateLimiter.acquire` | `RateLimiterProofs` |
| `Requests` | `HomeConnectAPI.request`, several threads | `RequestsProofs` |
| `TokenRefresh` | the refresh in `hc_auth`: supervisor, 401 handler, lock, backoff; the token store, its file, and restarts | `TokenRefreshProofs` |
| `Control` | the controller's operations, composing `Requests` and two `RateLimiter`s | `ControlProofs` |
| `Lifecycle` | `plugin.Plugin` around its client: reconcile, authorize, save, rebuild, `_stop_coordinator`; device flows of every client | `LifecycleProofs` |
| `Bridges` | `ApplianceBridge`, and the threads of `plugin.Plugin` and the coordinator that meet in it | `BridgesProofs` |

`MCAppliance`, `MCEventStream`, `MCRequests`, `MCTokenRefresh`, `MCControl`, `MCLifecycle` and
`MCBridges` give them finite instances; `RateLimiter` is run as it is.

The modules meet in what one takes as given and another shows. `Appliance` takes its stream
events in the brackets of `StreamFeed`, which `EventStream` implements. `Lifecycle` abstracts a
coordinator to three facts (told to stop, alive, for which client); that a reader told to stop
ends is `StopEnds` of `EventStream`. `Bridges` takes the appliance's events as merges, and the
coordinator as running or not; `Lifecycle` takes a device as what it shows.

### Appliance

`app` is the object: the connection flag, `_read_actions` (as the number of GETs left, or
`None`), `_read_scheduled`, `_read_parked`, failures, delay and the age of the last complete
pass. `jobs` is the heap in the order it pops, which `Posted` keeps: a job goes behind all
jobs due no later (the heap's sequence number). One action per handler, because one thread
runs them all; `_run_read` is the exception, one action per turn of its loop, as a GET takes
time and the other threads post meanwhile. A job holds the ticks left until it is due and its
disconnect generation. The environment is the reader (START, STOP with and without error, in the
brackets of `StreamFeed`), the wire events, other threads closing the gate, and `abort()`.

### EventStream

`pc` is the reader's place in `run()`; `stream` is the socket and `current` the reference
`close()` swaps out, so that the windows between opening, registering, checking the stop flag and
reading are separate steps. `stopper` is the thread inside `stop()`. `idle` and `lived` count
the silence (zombie renewal) and the age of the stream; `backoff` and `failures` are the
locals of `run()`. History: `sinceSent` and `burst`, the opens sent since the last rest of
`ReconnectExtended`. `FeedSpec` is the refinement: `StreamFeed` with `over <- pc = "done"`.

### RateLimiter, Requests, Control

`RateLimiter` keeps all grants as history and the deque as a suffix of it: pruning moves
`dropped`. `Requests` is a program counter and the local variables of `request()` for each
thread, over one `gate`; the cloud executes a request or not before it answers (`executed`),
and an answer may be lost. `Control` instantiates both; `phase` says where an action thread is
in its operation. A power-on is a request, a look at the cache, a subscription, a second
look, and a wait: five steps, among which the worker merges a report (`MergeOp`) and then
calls the observers registered by then (`Notify`).

### TokenRefresh

A `Token` is an access token with its refresh token. `stored` is the entry of the store; `accepted`
are the tokens the service has neither exchanged nor revoked: presenting any other is `invalid_grant`.
A token that nobody can present any more is forgotten, and may be issued again.
Each thread has its place in `refresh_if_needed` and `_do_refresh` (`pc`) and their locals:
`used` (what its 401 is about), `seen` (`seen_access`, read before the lock) and `token`
(`use_token`, read under it). `lastUsed` is the client's one `_last_used_token`, which every
request of every thread overwrites, the POST of the exchange included. The exchange ends granted, without
an answer (`Lost`: the service may have rotated the token; `Failed`: it has not), rate-limited,
refused, or with a 401 (`Denied`), which runs the handler on the thread that holds the lock. A
device flow is `NewGrant`. Either may bring an access token without a refresh token: `bare` are
the entries, in memory and on disk, that have none, for which `Check` stamps the attempt and gives up. `disk` is the entry in the token file, replaced atomically: `Save` leaves
the old one if that fails (`unsaved`), and `Restart`, which may fall between any two steps, an
exchange included, starts again from it with every counter and clock reset.

### Lifecycle

Client i is the i-th pair of api and auth; `cur` is the plugin's. `superseded` and `cancelled` are
`mark_stale` and the stop events of device flows, which only ever reach all clients up to some
one. `lock` is `_coord_lock` where it is held over a wait: `stop()` is `Signal`, which begins to wait,
and `Joined`, `Replaced` or `Rebuilt`, which find the coordinator ended or not. `Die` is the end of
its threads, at any time after the signal: a `stop()` that returned False is one that came before it.
`Ask` is the request for a device code, without the lock. Each client's flow goes its own way
(`Works`), also when nobody waits for it any more; `Judge` is two steps because the worker looks
before it marks. `Push` is any write of a live worker to a device.

### Bridges

Each of the three threads has its place (`pc`), where the operation it is in returns to (`back`), and
the bridge and the object in hand. `holder` is a bridge's lock where it is held over more than one
step, from the snapshot of a push to its write. `registry` is the coordinator's entry for the haId,
whose objects last from a discovery to a removal or the coordinator's end. `calls` are the bridges that
`_notify` copied and has yet to call. Two states of the history excuse what the code cannot know:
`late` says that the main thread acted on a look that was outdated when it acted, and `kept` is
the object a bridge may still be attached to from the coordinator before.

## What is checked

Passing runs:

- `safety`, `reads` (Appliance): parking, probing, routing and supersession with
  every answer a GET may have, exceptions included; one job for reads that are wanted, and passes
  only of connected appliances, with the answers the API documents; re-reads end and parked
  queues heal under fairness.
- `stream` (EventStream): `stop()` reaches every stream in whatever window it
  falls, none leaks, an outage costs a bounded burst of opens, a renewal is immediate, and the
  refinement of `StreamFeed`; a stopped reader ends, and the stream returns once the cloud lets it,
  both provided the 401 handler of an open returns.
- `limiter` (RateLimiter): no window holds more than the limit, no refusal without cause.
- `requests` (Requests): starts are executed at most once, sends are bounded, backoffs
  kept; every call ends, unless its 401 handler never returns.
- `tokens` (TokenRefresh): the plugin never loses its authorization by its own doing, failed saves
  and restarts included, refreshes keep their distance, and under fairness a due token is replaced.
  The first excuses a lost answer to an exchange, after which the service may refuse the old token;
  the last excuses a thread caught in its own lock and an entry without a refresh token.
- `actions` (Control): every start executed was granted; no Ready is missed.
- `lifecycle` (Lifecycle): never two coordinators alive; none that was not told to stop serves a
  client that was replaced; under fairness a lost authorization comes to be shown with nothing left to
  overwrite it, and an authorized client without a stream, or with another's, gets one.
- `bridges` (Bridges): once everybody is done, a started device is attached to the registered object
  and shows its present state, or the loss of authorization, or that it was not found; no push of the
  appliance's state after the bridge was detached (a mark may still come, see below).

`TypeOK` of `RateLimiter` and `Requests` is checked as a part of `Control`'s. The types of `TokenRefresh`
and `Bridges` are listed in no run; they are proved.

Every property has a mutant in its module (`PROJECT.json`, "mutants"): a variant of one
definition with a plausible bug, which the same run refutes.

### Disagreements with the documentation

Three runs refute a sentence of the documentation or a comment. Each is described, with the
quotation, under "findings":

- `stuck_offline`: a reachable appliance can stay shown as disconnected, because the START
  after a STOP skips a fresh re-read.
- `own_lock`: a 401 to the exchange itself can make the thread wait for the refresh lock it holds,
  and every later 401 handler behind it. The liveness the other runs show is that of threads whose
  handler returns.
- `zombie`: a coordinator that outlived `stop()` and whose client is authorized again before the
  next reconcile is taken for a running one.

Others follow from reading the code beside the models and have no run.

- Reads: the probe of a parked queue is a one-shot that gives up while the appliance is away
  (`hc_appliance.py:393`), so that it can be the last one (67 says it self-heals). An exception other
  than `HomeConnectError` in a pass (343) leaves the flags of a pass under way (304), and no re-read is
  posted until a disconnection. Unparking does not cancel the pending probe, so a queue that parks
  again has two (391 says one per interval). `_run_read` looks at the gate once per pass (319), so a 429
  between two of its GETs blocks the worker (316 says never).
- Control: the stop limiter counts calls; retries of a granted stop are sent beside it
  (`hc_control.py:14-16` speaks of attempts). An action looks at the gate once (323), so a 429
  drawn by another thread afterwards blocks its Indigo thread (19 says none ever blocks).
- Refresh: a thread that waited for the refresh lock posts although the one before it failed and set
  the backoff, which is looked at before the lock only (`hc_auth.py:440`). `handle_unauthorized`
  returns False when another thread has changed the token already (505), so that request is not
  resent, where its docstring says True (502). A superseded auth's refresh in flight stores its
  token: only a device flow asks whether it is stale (203 says a late result won't be persisted),
  and asks before it stores, not while. An answer to an exchange that carries no refresh token
  overwrites the one that works with None (249): from then on `refresh_if_needed` stamps an attempt
  and returns False (446-448), the token is never replaced, and `STATE_AUTH_REQUIRED`, which would
  ask the user, is never set. An answer lost after the service rotated the token leaves the old one,
  which is refused at the next attempt as if the user had revoked access.
- Device flow: a poll that ends in an "error" leaves the state pending with nobody polling (319). A
  flow that cannot be started, or a restart of it that fails and ends its worker, marks no device.
  A worker looks whether its failure matters and then marks, so it can mark over a success. A denied
  flow marks devices to which a coordinator, running on the token before, still pushes.
- Devices: `mark_auth_required` says that the push after a re-authorization clears the error
  (`device_bridge.py:198-199`); a device whose appliance left meanwhile gets no push, and one flagged as
  orphaned already is not flagged again, so it shows "Authorization required" for good. So does a bridge
  still attached to an object of the coordinator before when the appliance left (`hc_events.py:710-712`
  speaks of the objects of this one). `deviceStartComm` may attach an object removed since it looked;
  `mark_waiting` takes no lock, so it may write over a push or a mark; and the main thread's push may
  land over `mark_auth_required`, whose docstring considers the worker's only (201-202). A mark from a
  list read before the device stopped still writes to it.

### Bounds, and why they suffice

Times are ticks that keep the order of the real delays, which is all the code compares.

| Run | Instance |
|---|---|
| `safety`, `reads` | 2 GETs a pass (the first establishes reachability, the second stands for the others), grace 1, backoff 1 to 3, freshness 3, parked after 2 failures, probe after 4, gate waits 1 and 2, 4 and 3 environment events: enough for a stop, a start, a disconnection and a 429 in one pass, twice around the parking |
| `stuck_offline` | smaller delays, 2 events |
| `stream` | backoff 1, 2, escalated 4 after 2 failures, stable and zombie after 3, 2 events; its safety is proved for any number |
| `limiter` | limit 2, window 3, clock to 9: three windows, every alignment |
| `requests` | 2 threads, 2 retries, 429 waits 0, 1 (waited out) and 3 (raised), 4 failures |
| `tokens`, `own_lock` | the supervisor and one requester, which already interleave in every step of the exchange; 10 tokens, more than can be referred to at once; interval 1, lifetime 2, backoff 1 to 2, gate wait 1, 3 and 2 mishaps, among which failed saves, restarts and new grants count |
| `actions` | 2 threads, 2 actions, 1 retry, limit 1, window 1, wait for Ready 1, 1 failure |
| `lifecycle`, `zombie` | one client of the service and one of the simulator, 2 coordinators (the one that will not end and its successor), 3 and 2 clients: a replaced client, its successor, and that one replaced again |
| `bridges` | 2 bridges (one of a device that stopped while a thread is still in it), 3 objects (the registered one, one a bridge kept, one in hand), interchangeable; nothing else is bounded |

`MaxEvents` and `MaxClients` bound what the environment and the user do, never what the program does; `MaxTime` and
`MaxActions` end the clock and the arrival of actions. Deadlock is checked in every run: the plugin never stops by
itself, and where nothing else can happen time passes.

### Fairness

`Appliance`: weak fairness of the worker (a thread whose requests all have a timeout of 30 s) and
of time. `EventStream`: of the reader, of the thread inside `stop()` once it began, and of time.
`Requests`: of each thread in `request()`, except inside its 401 handler, and of time.
`TokenRefresh`: of the supervisor's wake-up, of each thread and of time, and strong fairness of
taking the lock: `threading.Lock` promises no order, but the holders are few and leave the lock for long.
`Lifecycle`: strong fairness of the supervisor's reconcile, for the same reason (a user could hold
`_coord_lock` at each of its rounds, every 60 s, only by pressing the button for ever); weak fairness of the
return of `stop()`, which has a timeout, and of the end of a thread told to stop, whose requests have one.
In `Appliance`, `EventStream` and `Lifecycle` a request is part of a step, and so is its 401 handler: their
liveness is that of threads whose handler returns, which `own_lock` shows it need not.
Device flows and the user are not fair. `Bridges` has no liveness. The cloud is never assumed fair: a request
is answered or times out, which is one step of the thread that sent it. What the environment does
at will (failures, disconnections, aborts, loss of authorization) is not fair, and bounded.

## What is proved

For every value of the constants that satisfies the named assumption of its module
(`ConstantsOK`, `LimiterOK`, `RequestsOK`, `ControlOK`, `TokensOK`, `LifecycleOK`, `BridgesOK`: delays
and limits are naturals, the ones the code divides or counts by are not zero, threads and objects
are told apart). `BackoffsOK`, in `Requests` and `TokenRefresh`, says besides that a base times a
power of two is a natural: it is true of every natural base, but no backend knows powers and
induction is out of reach, so it is assumed, for the exponents that occur, and TLC evaluates it. Only
`TypeCorrect` of these two modules and of `Control` rests on it. No theorem bounds the instance:
`MaxEvents`, `MaxTime` and `MaxActions` are any naturals.

- `ApplianceProofs`: types, `ParkedMeansGaveUp`, `ParkedOnlineIsProbed` and `RemovedStaysQuiet` of
  every behaviour, from the inductive invariant `IInv`. It adds to them the shape of the queue (`QueueOK`) and
  the half of `ReadJobExact` that survives any exception (`ReadJobs`), because whether a handler
  may park depends on no other pass being under way. `ReadJobExact`, `LaterReadsOnline` and
  `FreshOnlyOnline` follow under hypotheses on `Answers` (no exception; no answer without
  `connected`), as in run `reads`; `StartSupersedesStop` from a further invariant on the
  generations of the queued jobs. `RoutedInOrder` speaks of an empty queue only; `OrderOK` says
  it of every queue: stream events are due at once, so that `Posted` puts each behind those before
  it, and the last of them in the heap is what the stream is now.
- `EventStreamProofs`: the safety of run `stream`, refinement included. `IInv` says who can reach the
  socket at each step (`SocketOK`), how the opens sent relate to the failures counted
  (`BudgetOK`), that brackets follow the program counter (`BracketOK`) and that a stream starts
  with a fresh backoff (`FreshOK`). `StopReachesStream` alone is not inductive: it needs that
  between opening and registering the reader is the only owner.
- `RateLimiterProofs`: the three properties of `limiter`. The invariant adds that the grants are
  sorted and that what was dropped has expired, which is what makes a look at the suffix
  enough.
- `RequestsProofs`: types, `AtMostOnce`, `SendsBounded` and `RetriesSpaced` for any set of threads. Each
  send is accounted to the first attempt, a retry or the resend (`CostOK`), which also bounds
  `attempt`; a request without retry is executed only as it ends (`OnceOK`); a backoff is owed only
  where it is waited out (`PauseOK`). A step of one thread leaves the others' part alone (`OthersKeep`).
- `ControlProofs`: first that the composition is one. A step of `Control` is a step or a stutter of
  `Requests` and of each limiter (`ImplementsRequests`, `ImplementsLimiters`), so the theorems
  above hold of its instances and are cited, not proved again (`LimitsHold`). On top of their
  invariants, `IInv` says which request belongs to which phase of an action (`RequestOK`).
  `StartsArePaidFor` compares two totals and is not inductive: `PaidOK` adds to the starts executed the
  threads that hold a grant they have not used (`Unspent`), and needs `AtMostOnce`, because a start
  executed twice would spend one grant for two. `NoLostReady` needs that what the worker has yet to
  notify is what the cache says, also for threads that have not subscribed (`WaitOK`).
- `TokenRefreshProofs`: types, `AuthorizationKept` and `RefreshesSpaced` for any threads and tokens.
  `AuthorizationKept` needs that what is stored, and what a thread is about to present, is accepted
  (`AliveOK`), which holds because only the holder of the lock exchanges (`LockOK`);
  `RefreshesSpaced` because nobody else can refresh after the holder looked (`SpacedOK`). That the file
  differs from the store only after a failed save (`SavedOK`) is what a restart needs. The types
  add that who exchanges presents a token (`PresentsOK`) and that failures are counted no more often
  than things go wrong (`CountersOK`).
- `LifecycleProofs`: types, `OneStream` and `StreamIsCurrent`. `OneStream` is inductive only with: what
  is alive is referred to (`AliveOK`), and who waits for a coordinator holds the lock and has told it
  (`JoinOK`); `StreamIsCurrent` with: a coordinator of another client has been told (`ServesOK`).
- `BridgesProofs`: types and every property of run `bridges`, for any number of bridges and appliance
  objects. The three about settled states say nothing of the states before, so their
  invariants say of every thread what it is about to do. They are layered, each proved with the
  ones before it at hand:
  - `IInv`: a thread that writes holds the bridge's lock (`LockOK`) and writes of the appliance
    attached (`WritersOK`), which nobody changes without that lock. `StoppedIsSilent` follows.
  - `PlacesOK`: where each thread can be, with what in hand. The worker orphans only while the
    registry is empty; the supervisor marks only after it has stopped the coordinator.
  - `AttachmentOK`: a registered bridge is attached to the registry's object or somebody is
    on the way to attach it (`WillAttach`), nobody attaches another in between
    (`SubscribesAttached`, `PushesCurrent`), an orphan is detached (`OrphansOK`), and a bridge
    attached without a registry is about to be detached or kept its object when the coordinator stopped
    (`LeftAttached`).
  - `AttachedShown`, from: an attached bridge is an observer or will be (`WillSubscribe`), so every
    change calls it; a device that does not show the present state has a push to come (`WillShow`), and
    so has a write whose snapshot is outdated already (`WillShowAgain`).
  - `LostAuthShown`, from: the device is marked, or the supervisor has it still to list, or its own start
    has still to look (`AuthOK`).
  - `OrphanShown`, from: after a pass that did not find it, the device is flagged or on the way to be
    (`WillFlag`), and nothing takes the mark away again (`StaysFlagged`).

  What promises something to come does so only while a start's look at the registry is not
  outdated (`Fresh`), which is what `late` excuses in the properties too. TLC checked these
  invariants on the instance of run `bridges`, where most of their exceptions showed.

Only model-checked: liveness (`ReadsSettle`, `ParkedHeals`, `StopEnds`, `StreamReturns`, `CallsEnd`,
`DueIsRefreshed`, `Lifecycle`'s `LostAuthShown`, `ClientGetsStream`) and ENABLED, which are out of the
prover's reach, and what the three violation runs refute. Every invariant and every action
property of the passing runs, and the refinement of `StreamFeed`, is proved.

## What is not modelled, and why

- In the modelled parts: log messages, statistics, the daily counter (it only warns), the
  wording of errors. `Appliance` is one appliance: appliances share the worker and the gate, and
  what another one does to this one is a delay or a closed gate, which the model has. `Bridges` is one
  device of one haId, for the same reason. `Control` takes the capability cache as warm, and
  connection and remote flags as free choices of each pre-flight.
- `device_bridge`: which Indigo state a key becomes (one value at a time), the registration of
  dynamic states and its rollback (one handler under the lock of `push`, without a second actor), and
  failures of the Indigo server, after which the next push writes everything again.
- `StartWatch`, `ValueWatch` and the de-duplication of EVENT items: they only log or fire a trigger
  again, and nothing reads back what they did.
- `hc_cache`, `parse_sse_lines`, `coerce_value`, `parse_options`: sequential conversions or, for the cache, a
  map whose entries do not depend on each other; no property of several steps to state, and the
  unit tests enumerate their cases.
- Shutdown of the plugin, after which the process ends.
- XML declarations, tables of constants, formatting, the developer tools, tests and packaging.

## Plan

What remains worth doing, in this order:

1. The response-time side of what is proved: that a parked queue's probe stays within
   its delay, and that a start waits no longer than `ReadyTimeout` after its power-on.
2. A refinement of `Bridges` by an abstract device that follows a registry, which would state
   `AttachmentOK` as a promise to the modules that use it.
3. A coordinator with several appliances, should they come to share more than the worker and
   the gate.
