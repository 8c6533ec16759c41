# Models and proofs of the API gateway

This directory is the verification development of the gateway in `src/src` (C++, 6,160 lines)
and of its dashboard in `src/ui` (TypeScript, about 7,000 lines with the mock gateway and the mock
services): TLA+ modules of their components, TLC configurations that check them on small instances, and
proofs that TLAPS checks for every value of the constants. `PROJECT.json` maps every definition
to the lines it models, and lists the runs, the faulty variants, the hazards of the code and the
theorems. Paths and lines below are those of the repository, relative to its root.

## 1. The system

The gateway is one process. An HTTP server (cpp-httplib) runs a pool of threads, and each
request is served from beginning to end by one thread in `HttpServer::handleRequest`:

    address filter -> global connection count -> connections per address -> validation
      -> rate limit (in memory, or in Redis) -> route -> authentication
      -> response cache (Redis) -> backend, behind a circuit breaker -> cache, reply

The administrator's requests are served by threads of the same pool and change the same
components. Beside the pool there are the thread that checks the health of backends, the
cleanup thread of the rate limiter, and the WebSocket proxy with a listener thread and one
thread for each connection. All components are shared objects; some have a mutex, some none.

The dashboard is a Next.js program. A page in an administrator's browser keeps a copy of one
gateway document in a query (React Query), shows it, fills a form with it, and posts what the form
says; API routes on the dashboard's server stand between page and gateway:

    page: form <- copy (query) <- GET <- API route <- GET /admin/config or /admin/routes
    page: form -> mutation -> POST -> API route -> GET, merge, POST -> gateway -> query fetched again

Nothing on that way knows versions: whoever posts last decides, and what each step replaces is a
whole object. While it is developed the dashboard talks to `src/ui/mock-gateway.js`.

### Inventory

| Component | State | Operations | What is hard | What makes it correct |
|---|---|---|---|---|
| `ProxyManager` (circuit breaker) | per backend: state, failure count, time of opening, under one mutex | admit or refuse, record success, record failure, health check | the mutex is released during the request: outcomes are recorded in any order, long after the admission | opens only on enough failures, sheds load while open, refuses only after a recent failure, serves a backend again once it has recovered |
| connection admission (`HttpServer`, `SecurityValidator`) | atomic counter; counts and times per address under a mutex | count, refuse, release, cleanup, new limit, stop | a dozen exits release through guards; refused requests count for a moment; limits change in flight | both counts are exact, both limits hold, a stopped server drains |
| `RateLimiter` | token buckets in two maps and one global, limits | allowRequest over three levels, set a limit, reset, cleanup | find, refill and consume are separate critical sections; buckets are replaced and dropped in use; integer rates | no bucket hands out more than its rate allows; Retry-After is true; the cleanup forgets nothing |
| `RedisRateLimiter` and its callback | sorted sets with a lifetime, shared by instances | a pipeline of four commands per level, reset | commands of instances interleave, calls fail after any command, keys expire | refusals are due, a window admits its quota but for overlapping pipelines |
| request pipeline, `Router`, `RedisCache` | the vector of routes (no lock); entries in Redis | stages of a request, replace the routes, clear the cache | pointers into the vector; part-loaded tables; SCAN and DEL beside stores | content only to the authorised, clears are complete, cache directives hold |
| `WebSocketProxy` | descriptors, threads, `running_`, counter | accept, upgrade, relay, stop | descriptor numbers are reused; stop at any moment; short writes, errors | own descriptors only, nothing survives a stop, frames arrive in order |
| live configuration (`AdminAPI`, callback in `main.cpp`) | `current_config_`, the settings of all components | post a document, show it | setting after setting, an exception between any two, updates side by side | replies are true, a failure is a clean prefix, what is shown is in force |
| `SecurityValidator` (filters, validation, API keys) | sets of addresses, methods, keys | test, replace | replaced without a lock under readers | the screening order; see pipeline |
| `JWTManager` | none after construction | verify a token | in the library | its verdict is an input of the pipeline |
| `SimpleMetrics`, `Logger`, `ConfigManager`, TLS | counters; log queue; none | count, format, read files | little, see section 9 | - |
| dashboard: settings pages (rate limits, cache, JSON editor, security with its tabs) | per browser: copy, form or draft, save under way | edit, reset, save, delete with confirmation, fetch again by timer | the copy changes under the form; the API route reads and posts in two requests; replies are late or lost; pages save different sections of one document | what was saved is seen; a save changes what its user changed; a draft is not written over; copies converge |
| dashboard: routes page | per browser: copy of the list, sorting, dialog, three mutations | sort, add, edit, delete, submit | rows are known by index; the list changes between opening a dialog and submitting it; a form goes through three kinds of backend | a route leads to one place; a save changes one row; the row edited is the row shown |
| dashboard: metrics, logs, clear and reset panels | what a fetch returned; a message with a timer | show, send one request | little, see section 9 | - |
| mock gateway (`src/ui/mock-gateway.js`) | one document | keep what is posted, show it | a bare document beside wrapped ones | part of the settings pages |
| mock services | users, tokens, payments in memory | stand-ins for backends | a refund checked before it is booked | - |

They interact by calls on the request's thread, by shared objects that administrators' threads
change, by callbacks wired in `main.cpp` (cache, distributed limiter, configuration, reset,
clear) and, between instances, through Redis. Hard behaviour is of five kinds: state read before
a lock is released or a call is made and used afterwards; steps of administrators between steps of
requests; failure half way (exceptions, Redis, sockets); cleanup and expiry racing use; shutdown.
In the dashboard it is of one kind, in many forms: a copy that is stale when it is used.
The hazards in `PROJECT.json` name the lines.

## 2. The modules

| Module | Models | Used by |
|---|---|---|
| `CircuitPolicy` | abstract: what the breaker promises, without threads | `CircuitBreaker` implements it |
| `CircuitBreaker` | `ProxyManager` | `ProxyProofs` |
| `ConnectionLimits` | both connection limits | `MCConnectionLimits`, `ConnectionLimitsProofs` |
| `RateLimiter` | the token buckets | `MCRateLimiter`, `RateLimiterProofs` |
| `RedisRateLimiter` | the sliding windows in Redis | `MCRedisRateLimiter`, `RedisRateLimiterProofs` |
| `RequestPipeline` | the stages of a request, routes and cache; composes the others' verdicts | `MCRequestPipeline`, `RequestPipelineProofs` |
| `FrameRelay` | abstract: what the WebSocket proxy promises, without threads, sockets or descriptors | `WebSocketProxy` implements it |
| `WebSocketProxy` | the WebSocket listener and relays | `MCWebSocketProxy`, `ProxyProofs` |
| `LiveConfig` | updates of the configuration | `MCLiveConfig`, `LiveConfigProofs` |
| `DashboardQuery` | a query of a page; what JavaScript does with objects | all modules below |
| `RateLimitForm`, `CacheForm`, `ConfigDraft`, `SecurityForms` | the forms of the four settings pages, as operators | `SettingsPages` |
| `SettingsPages` | browsers at settings pages, API routes, mock gateway; composes the five modules above | `MCSettingsPages`, `SettingsPagesProofs` |
| `RouteForm` | the form and table for routes; what `Router` loads and lists | `RoutesPage` |
| `RoutesPage` | browsers at the routes page, and the gateway's router | `MCRoutesPage`, `RoutesPageProofs` |

An `MC` module holds the values a `.cfg` cannot write; a `Proofs` module holds the theorems.
Conventions: a thread's place in the code is `pc`; a step is what happens between two points at
which another thread can act (the release of a lock, a call to Redis, a backend or the kernel);
variables marked *history* only serve to state properties. A definition nothing uses, just before
the one it varies, is a *faulty variant*, see section 5.

**CircuitBreaker.** `Admit` and `RefuseOpen` are the first critical section of `forwardRequest`
(ProxyManager.cpp:19-41), `Answer` and `NotSendable` the return of `makeRequest` without a lock,
`RecordSuccess`, `CountFailure` and `OpenCircuit` the second critical section. Times are seconds since an
event, saturating at `RecoveryTimeout`; the count saturates at `FailureCap`. Neither changes
what the code can distinguish, since it only compares with thresholds: it exists to make the run finite, and no property is about it. Its names (`BreakerInit`, `place`
for `pc`) differ from all those of `WebSocketProxy`, since `ProxyProofs` extends both.

**ConnectionLimits.** `Arrive` is `fetch_add` and its test (HttpServer.cpp:271-272), `TurnAway`
the way out above the maximum, `Allow` and `Deny` are `allowConnection` with its cleanup of stale
entries, `Release` and `Leave` the two guards in their order of destruction. `SetLimit` is the
administrator, `Stop` the end of accepting. Ages saturate one past `StaleAfter`. History: `forgotten`, the
addresses whose entry the cleanup has dropped while requests of theirs were being served.

**RateLimiter.** A thread walks the levels global, address, endpoint; at each it finds or makes
the bucket, refills, consumes, or is denied, each a critical section of its own. Objects are
explicit: a map entry is a reference to one, a thread keeps the one it found, and an object is
used again once nobody has it. The global bucket is passed by reference, so it may become another
bucket under a thread. Time and tokens are exact fractions (`Scale` ticks to a second).

**RedisRateLimiter.** ZREMRANGEBYSCORE, ZCOUNT, ZADD and EXPIRE are four steps (the pipeline is
no MULTI); `FailsOpen` ends the pipeline after any of them with an admission, `AnswersLost` after the
last one, when Redis has done everything and the reply is late or lost; `Tick` lets Redis drop keys. A
pipeline ends at most `Timeout` after its clock was read, which is `socket_timeout` (100 ms), and a key outlives
its window by `Buffer` (the second added in line 65). Instances share one clock: skew is not modelled,
nor is a command that Redis carries out after its client has given up.

**RequestPipeline.** One action per stage, in the order of `handleRequest`; the limits and the
breaker may refuse any request, as modelled by their own modules. `ClearRoutes`, `AddRoute`, `LoadFails`,
`LoadEnds` are `handleUpdateRoutes`, entry by entry, with the memory of the vector (`capacity`,
`dangling`: the workers whose route has been destroyed). They happen beside running requests, as no lock keeps them
apart: `MatchUndefined` is a match that reads the vector while it is replaced, from which on the worker is dangling, too.
History: `verdict` says what the table last submitted makes of a worker's path at its match, and `mixed` that one table was
loaded over another. `BeginClear` to `Reply` are `handleClearCache` with SCAN in batches. A backend forbids caching in one of four
`Places`: the two spellings of the header the code looks up, one it does not, or nowhere; `elsewhere` stands for
`CACHE-CONTROL` and for `No-Store`, and for a header line that another of the same name hides (ProxyManager.cpp:246-248).

**WebSocketProxy.** The kernel's descriptor table is state, and a new descriptor takes the lowest
free number, so a number closed by one thread is at once another's. Buffers of sockets are short
sequences of numbered frames. Every error path of `handleConnection` closes what it has opened.
`FrameRelay` keeps of all this the phase of each connection and, for each end, how many frames were written, how
many the gateway has handed over and which were received; `Phases`, `Written`, `Passed` and `Received` are the mapping.

**LiveConfig.** A posted document gives each setting a value or none; `Apply` is one setter,
`PassOver` a value of another shape than the callback looks for, `Throw` one whose conversion
throws, `Save` the assignment of `current_config_`. A wrapped document is what the dashboard posts.

**DashboardQuery.** A query is a record: the copy, the version it shows (*history*: the program
knows none), the error of the last fetch, and the fetch under way, which the gateway answers in one
step and the page receives in another, so that it may be overtaken by a save. How React Query treats
a fetch in flight when a save invalidates it, and that an answer equal to the copy runs no effect, is
external and written down in the module's head. Objects are functions from names to values; `Over`,
`Put`, `Without` and `Get` are spread, assignment, rest and `??`.

**The forms.** Each card of a panel is the set of forms that one click or input in it can make; a
panel's state is one of them with `hasChanges`. `ConfigDraft` has the text of the editor with its four
variables and the effect that runs both on news and when `hasChanges` flips. `SecurityForms` has the three
tabs, which are mounted one at a time, and the dialogs that confirm a deletion, which keep their target
while the copy changes. `RouteForm` has the form with its three kinds of backend and what is left of
them on submission, the stable sort of the table, and both directions of `Router`: `Loaded` for `loadRoutes` and
`Exported` for `getRoutesJSON`. A hole, which JavaScript leaves when an index beyond the end is assigned, is
`null` on the way and ends `Loaded`, and so does a path of which `patternToRegex` makes no regular expression
(`BreaksOff`): it escapes the backslash last, the backslashes of its own escapes included, so that `/users/{id}` or `/x(` reaches `std::regex` with
a bare brace or parenthesis. `NoRegex` is the set of such paths.

**SettingsPages.** `Visits` says which page each browser is at; a browser stays there. A save goes
through `RouteReads`, `RoutePosts` and `Saved`, or fails at any point, also after the gateway has kept
it; `RouteThrows` is the security route reading a document that has no `config`. `FetchArrives` runs the
effects of the page that is open. History: `touched` (fields the user changed since the form was
filled), `shown` and `base` (versions of the copies a save was made of), `confirmed`, `revoked`.

**RoutesPage.** The three mutations of `useRoutes` are independent; each computes the whole list when it
is submitted, from the copy of that moment and the index of the dialog. `GatewayLoads` replaces the
routes in one step; that requests read them meanwhile is about `RequestPipeline`.

## 3. The runs

| Run | Instance | Shows |
|---|---|---|
| `Breaker` | 4 threads, 1 backend, threshold 3, rest 3, GET and HEAD | the invariants of the circuit, `CircuitPolicy` is implemented, recovery and cut-off under fairness |
| `Connections` | 4 threads, 2 addresses, maximum 3, limits 1 and 2, cleanup above 1 entry, stale after 1 | counts exact but for clients the cleanup has forgotten, limits kept, stop drains |
| `Limiter` | 2 threads, 1 client, 1 endpoint, 2 objects, limits 1/s globally, 0 or 2/s for the address, 1 in 2 s for the endpoint, half-second ticks, clock up to 4 | rate bound, Retry-After, cleanup (7.5 million states) |
| `RedisLimiter` | 2 workers, 1 client, 1 request in 4 ticks, keys outlive a window by 2, pipelines take up to 2, clock up to 7, failures, resets by the limiter's key and by the bare address | refusals are due, window bound (5.2 million states) |
| `Pipeline` | 2 workers, 1 administrator, 2 paths, 6 requests, a first table and 2 that replace it under running requests, 5 answers, Redis failing | authorisation, clears, directives (5.7 million states) |
| `WebSocket` | 2 connections, 3 descriptors, buffers of 2 and 1, 2 and 1 frames | descriptors, stop, order, `FrameRelay` is implemented, liveness |
| `LiveConfig` | 2 administrators, 4 documents bare or wrapped, 10 settings | replies, prefixes, what is shown |
| `Dashboard` (violation) | the same | a wrapped document succeeds without effect |
| `SettingsPages` | 2 browsers at three pairs of pages, 2 edits or failures, 2 saves | saves are seen, change what was asked, leave drafts alone; copies converge under fairness |
| `SettingsRevoked` (violation) | 2 browsers at the security page | another page's save brings a deleted API key back |
| `RoutesPage` | 2 browsers (symmetric), 3 routes, 3 typed paths (a blank one and one that is no regular expression among them), 3 events, 2 saves | one target, one row per save |
| `RoutesSorted` (violation) | 1 browser, the table sorted | Edit replaces another row than the one shown |

**Why the bounds are enough.** *Breaker:* the deepest interaction is a late success between two
failures that reach the threshold while a third request probes; that takes three threads and a threshold above 1, and
the fourth allows one more outcome in flight. Backends are independent. *Connections:* four
threads overshoot a maximum of three; two addresses are more than the table's cleanup size of one, so that the
cleanup drops the entry of an address with requests in flight, which are then released, beside new ones, at an entry that is
gone or new; the limit moves below the number in flight. *Limiter:* the races are between one thread inside a
level and another anywhere; two objects are the least for an object to be replaced and used again;
the endpoint's limit has a rate of 0, like 5 in 60 seconds, and the others refill;
four ticks refill, promise and pass a promise. *RedisLimiter:* two pipelines overlap, for long enough
that one is late in a window another has left behind and trimmed, and time passes a whole window and the lifetime of a key;
three of the four stamps of a window can pass, so the bound of three is reached and could be exceeded. *Pipeline:* a fetch, a hit and a clear overlap;
the tables make a path private, or are malformed with a laxer route behind, and replace one another, or
the first, at any stage of a request. The clear's pattern takes one of the two paths.
*WebSocket:* with fewer descriptors than two connections need, numbers run out and are reused
at once; a buffer of one makes writes short. *LiveConfig:* documents overlap in some settings,
with a bad value between good ones. *SettingsPages* (1.19 million states): the hazards are between two
copies of one document, so two browsers with a save each suffice; the pairs of pages are two panels that save
different sections, the editor beside a page that reads what it posted, and the security page twice. Two events
are an edit and a deletion, or an edit and a failure. *RoutesPage* (2 million): the three
routes have a handler, one and two backends, and are ordered differently by each column; three events change the kind of backend and
the boxes, or open dialogs in both browsers; the second save changes the list under a dialog. An index
two beyond the end, which leaves a hole, takes a third save: with `MaxSaves = 3` the run passes
as well (3.7 million states), and the theorems cover holes. Where a theorem states the property, the bound does not matter.

Deadlock is checked except for `Limiter` (the clock ends at its bound with no
thread inside) and `WebSocket` (a stopped proxy with all connections over has nothing to do).
`MaxNow` and `MaxTime` are the bounds on clocks, `FailureCap` that on the failure count, `MaxEvents` that on
what users do in forms and on failures, `MaxSaves` that on saves; fetches and replies are not bounded.

## 4. Fairness

- `CircuitBreaker`: threads inside `forwardRequest` finish (connect, read and write timeouts), time passes
  (weak fairness); clients go on asking for each backend (strong fairness of an admission, an
  assumption about clients: a breaker nobody calls stays open). Backends owe nothing: that one
  recovers or dies for good is a hypothesis of the property.
- `ConnectionLimits`: weak fairness of each thread in the handler, where every blocking call has a
  timeout. Arrivals, the administrator and the stop are not fair.
- `WebSocketProxy`: weak fairness of the listener, of each connection thread and of `stopListener`;
  clients read what they are sent (`ClientsKeepReading`), since the code sets no timeout for a
    blocking write to them. Backends owe nothing: they have a receive timeout during the upgrade.
- `SettingsPages`: weak fairness of a save under way (a request is answered, or the browser's or the server's `fetch` gives up
  and it fails; the code adds no timeout of its own), of the timer (`refetchInterval`), and of the answer and the arrival of a fetch. Users owe
  nothing, and failures are not fair; they are bounded by `MaxEvents`, so that `CopiesConverge` speaks of what
  happens once requests no longer get lost. `RoutesPage` has no liveness property and no fairness.

## 5. Faulty variants

Each property is tied to a variant of a mapped definition under which the run finds it violated.

| Property | Definition | Variant | The bug |
|---|---|---|---|
| `ClosedBelowThreshold` | `RecordSuccess` | `RecordSuccessClosesOnly` | closing does not reset the count |
| `RefusalNeedsRecentFailure` | `RefuseOpen` | `RefuseAndRestartRest` | a refusal restarts the rest |
| `ImplementsPolicy` | `ClosesFrom` | `ClosesFromOpenToo` | a late success closes an open circuit |
| `RecoveredBackendIsServed` | `ClosesFrom` | `ClosesFromNone` | a probe's success does not close |
| `DeadBackendIsCutOff` | `Trips` | `TripsOnceOnly` | `==` for `>=` |
| Connections `TypeOK` | `Release` | `ReleaseUnchecked` | a release does not look whether there is an entry |
| `StoppedServerDrains` | `Leave` | `LeaveAfterServing` | a refused request keeps its count |
| `AdmittedWithinMaximum` | `AtCapacity` | `AtCapacityOffByOne` | `>` for `>=` |
| `PerIPCountExact` | `Deny` | `DenyCounted` | a refused request is counted |
| `AdmitsBelowPerIPLimit` | `HasRoom` | `HasRoomOffByOne` | `<=` for `<` |
| Limiter `TypeOK` | `Enough` | `EnoughWithAnyLeft` | part of a token is enough |
| `BucketRateBound` | `Refilled` | `RefilledForgettingTime` | `last_refill` is not updated |
| `RetryAfterIsHonoured` | `RetryAfter` | `RetryAfterRoundedDown` | rounded down |
| `CleanupForgetsNothing` | `Idle` | `IdleInTicks` | milliseconds for seconds |
| Redis `TypeOK` | `Advance` | `AdvanceWithoutClock` | the clock is read for the first key only |
| `RefusedOnlyWhenFull` | `HasRoom` | `HasRoomOffByOne` | one too early |
| `WindowBound` | `Lifetime` | `LifetimeInMilliseconds` | seconds taken for milliseconds: the key dies after a tick |
| `AuthorisedOnly` | `AfterBad` | `AfterBadSkipsIt` | a malformed entry is skipped |
| `ClearTakesAll` | `ScanLast` | `ScanOnce` | SCAN is called once |
| `HonoursDirectives` | `Forbids` | `ForbidsInOneSpelling` | one spelling of the header |
| WebSocket `TypeOK` | `Counted` | `CountedNever` | only the decrement is left |
| `DescriptorsAreOwn` | `WriteError` | `WriteErrorCloses` | closed twice |
| `NothingOutlivesStop` | `JoinListener` | `JoinListenerAtOnce` | the listener is not joined |
| `RelaysInOrder` | `Unsent` | `UnsentFromTheStart` | a short write is retried from its start |
| `ImplementsRelay` | `JoinConnections` | `DetachConnections` | the connections' threads are not joined |
| `StopReturns` | `StillRunning` | `KeepsRelaying` | the relay does not look at `running_` |
| `FramesGoThrough` | `ReadableEnds` | `ReadableEndsWithoutBackend` | one socket is missing from the set |
| LiveConfig `TypeOK` | `Present` | `PresentOrNot` | absent settings are applied |
| `UpdatedMeansInForce` | `AfterOdd` | `AfterOddNothing` | the callback returns at an odd value |
| `ShownIsInForce` | `ShownAfterFailure` | `ShownAfterFailureAsPosted` | saved before applied |
| `FailedUpdateIsAPrefix` | `IsNext` | `IsNextInAnyOrder` | no fixed order |
| SettingsPages `TypeOK` | `HandleJWTUpdate` | `HandleJWTUpdateBare` | the fields are sent without their section |
| `ReadYourWrites` | `AfterSave` | `AfterSaveNothing` | a save does not invalidate the copy |
| `SavesChangeOnlyWhatWasAsked` | `Merge` | `MergeReplacing` | the API route replaces the section |
| `EditorKeepsDraft` | `DraftSynced` | `DraftSyncedAlways` | the effect does not look at `hasChanges` |
| `CopiesConverge` | `RefetchDue` | `RefetchDueNever` | no `refetchInterval` |
| RoutesPage `TypeOK` | `BackendURLs` | `BackendURLsToNone` | the last box can be removed |
| `OneTarget` | `WithTarget` | `WithTargetKeeping` | `backends` is not deleted in single mode |
| `SaveChangesOneRow` | `Exported` | `ExportedFirst` | only the first backend is listed |

## 6. What is proved

TLAPS checks every theorem for all values of the constants, under the named assumptions on constants and what the
theorem itself assumes.

- **ProxyProofs**, of `WebSocketProxy`. Five invariants carry everything; the other four rest on the first.
  *Typed* (`TypedInvariant`): beside the types, that a thread sends only what it holds and keeps nothing it
  is not about to send, that streams are empty until both sides are upgraded, and that `active_connections_` is the number of threads inside
  `handleConnection`; without the last the counter might fall below 0 (`TypeCorrect`).
  *Owned*: the descriptor table and the numbers the threads keep say the same, in both directions, and a thread
  keeps none before it opens one nor after it leaves. That is what a stale number would break: closing
  frees exactly what is recorded, so a number is handed out again only once no record of it is left
  (`ThreadsOwnTheirDescriptors`, `DescriptorsAreOwn`).
  *Joined*: every thread is in `connection_threads_` from its creation on, and the listener has ended before the vector is
  joined, so that no thread is added behind the joins. With *Owned* and the count, a returned
  `stopListener` leaves nothing (`NothingIsLeft`, `NothingOutlivesStop`).
  *Order*: from the far end's hands back to the sender's, the frames of a stream are numbered without a
  gap, across what was read, the far end's socket, `buf` and the gateway's socket, as long as neither the far end has closed nor
  the connection ended; after that only what was handed over counts.
  `BackendsReceiveInOrder` is the direction from the client and assumes nothing. `RelayKeepsOrder` (`RelaysInOrder`) is both directions and
  assumes `BackendSpeaksFirst = FALSE`, as `upgradeBackend` drops frames that come with the 101: with it TRUE the statement is false, see section 8.
  *Lost*: what was sent to an end that has closed is gone. `ProxyImplementsRelay` is the refinement, under the same
  assumption: `Accept`, `Leave`, `JoinConnections`, `Writes`, `Send`, `Reads` and `Closes` are `Open`, `End`, `Stop`, `Write`,
  `Pass` (nothing, if the far end has closed), `Receive` and `Lose`; all others stutter. It needs all five: that `Stop` finds no
  connection open is *Joined*, that an end writes only while its connection is open is *Owned*, that `Pass` hands over something written and
  `Receive` takes the next number is *Order*, and that a send to a closed end changes nothing is *Lost*.
- **ProxyProofs**, of `CircuitBreaker`. `BreakerTypeCorrect`; `ClosedIsBelowThreshold` and `RestCoversQuietPeriod`, whose
  conjunction with the types is inductive: a circuit becomes CLOSED only with the count at 0 and a
  failure that leaves it CLOSED leaves the count below the threshold; opening resets both clocks.
  `RefusalFollowsFailure` and `OpenAdmitsNothing` are action properties from it.
  `BreakerImplementsPolicy` is the refinement: steps of `RecordSuccess`, `CountFailure`, `OpenCircuit`, `Admit`
  and the clock are `Succeed`, `Endure`, `Trip`, `Probe` (or nothing) and `Second`; all others stutter.
- **ConnectionLimitsProofs.** `TypeCorrect`, `GlobalCountIsExact`, `MaximumIsKept`: each step moves the
  counter and the set of requests in the server by the same one, and admission needs the counter, which
  is at least the number admitted, below the maximum. `PerIPCountIsExact` and `PerIPLimitIsKept` hold
  for any limits and cleanup size: the cleanup only takes counts away, and notes whose (`forgotten`); a release takes one away
  if there is one; so no count is above the number of requests being served, and it meets that number again
  when the last of them is released.
- **RateLimiterProofs.** `TypeCorrect` (with: who works has a bucket; no refill lies in the future).
  `EveryBucketMoves` reduces all actions to six ways in which one bucket changes. `RateBoundHolds`
  strengthens the bound by what the next refill will bring. `RetryAfterHolds` and `CleanupIsHarmless` are
  about every limit; what they say is said of the buckets that refill at all, and of those that fill within the idle time, as the
  properties state: for limits of fewer requests than seconds the code has no such promise to keep, see section 8.
- **RedisRateLimiterProofs.** `TypeCorrect`; `RefusalsAreDue`: what Redis holds was asked, so no count exceeds
  the requests of the window since the key was reset, whatever other names the administrator resets. `WindowsAreBounded` proves `WindowBound`, provided a pipeline
  ends within the second by which keys outlive their window (`Timeout <= Buffer`). Its invariant accounts for the places of a window:
  while Redis remembers every request that passed in it, those and the ones a worker may still get are at most
  the quota and one per other worker (`Remembered`: whoever reads the clock finds room only below the quota);
  forgetting one takes a worker, or the expiry of the key, whose time is past the window, and then those still undecided
  in the window are at most the other workers (`Over`). `OutlivesItsUsers` says that no key is dropped under a
  pipeline that has trimmed it. The comment "accurate sliding window counting" (RedisRateLimiter.h:13) is true
  up to those two per worker.
- **RequestPipelineProofs.** `TypeCorrect`, `ClearsTakeAll` (before DEL, what is left of the old keys is
  among those found), `DirectivesAreHonoured` (the cache only holds what forbids nothing where the code looks).
  `OnlyTheAuthorised` holds with updates at any stage of any request: while a table is loaded, and no other has been loaded over it, for each path
  either a route already loaded decides as the submitted table does, or the table's remaining entries do;
  and a worker past authentication is known, or the path was open when it matched, or its match or its route was undone by an update
  (`mixed`, `dangling`), of which nothing can be said.
- **LiveConfigProofs.** `TypeCorrect`; `UpdatesTakeEffect` and `FailuresArePrefixes` from one invariant: what an
  update has written is in force unless others wrote it, all of it lies before what is left, and
  after a success nothing is left. `ShownHolds` adds that settings in force differ from the
  document shown only where an update is under way, failed, or overlapped.
- **SettingsPagesProofs.** `TypeCorrect`, for any browsers, documents and inputs. `NoStaleCopySettles` needs
  that every version in a query or a save is at most `posts`, and that a page waiting for what it saved has a
  fetch under way that was not answered before the save. `DraftsAreKept` goes through the actions: each that reaches
  the text of an editor with changes is one of the three named. `SavesAreHonest` proves `SavesChangeOnlyWhatWasAsked`
  with `Honest`: a copy of the present version is what the API route makes of the document (`CopyKept`), a form agrees with the
  copy outside of what its user has touched (`FormKept`), and a body made of such a form changes the document there and nowhere
  else as long as the version stands (`SaveKept`). It assumes that JavaScript's `undefined` is no object
  (`UndefinedIsNoObject`, which TLC cannot evaluate) and that the first document's jwt section has no field that the
  form does not know (`JWTAssumption`): a save of the JWT settings replaces the section, and would drop it.
- **RoutesPageProofs.** The invariant says of every list what it is made of: routes in the router have
  a path and one target (`IsRouter`), routes shown are complete (`Shown`), routes posted are complete or holes (`Posting`), and a form in a dialog
  is one that `RouteEdits` can have made (`Editing`). `TypeCorrect` and `EveryRouteHasOneTarget` follow; the lemmas on
  `WithTarget`, `Loaded` and `Exported` say what each of them leaves of a route. `SavesChangeOneRow` adds the history: a copy of
  the present version is the router's list, a list under way made of the present version is that list with one row added, replaced or left
  out (`Faithful`), a route exported and loaded again is itself (`RouteOfExported`), and a list with a row whose path is no regular
  expression is loaded up to that row (`LoadedUpTo`). It assumes that no route of the
  configuration file has an empty `load_balancing`: the router keeps such a text, does not list it, and takes
  `round_robin` when the list comes back, so that a save would change that row, too.
  (SMT cannot read the empty text, hence its name `NoText` in that module.)

`RestCoversQuietPeriod`, `OpenAdmitsNothing`, `GlobalCountIsExact` and the types of the breaker and the pipeline are facts that stronger
properties of the runs rest on; they are proved and not checked by a run of their own.

## 7. What is only model-checked

Liveness (`RecoveredBackendIsServed`, `DeadBackendIsCutOff`, `StoppedServerDrains`, `StopReturns`,
`FramesGoThrough`, `CopiesConverge`) is out of the prover's reach. Every safety property
of a passing run is a theorem. `KeptAssumption` (what `filter` leaves, written without
recursion) is compared by TLC with `SelectSeq`. No recursive operator occurs.

## 8. What the runs and the modelling found

Three violation runs, each quoted in `PROJECT.json` against the line it contradicts:

1. `Dashboard`: the panels and the security page post documents under a key nobody reads, and are told of success.
2. `SettingsRevoked`: a deleted API key is back after another page has saved an IP filter.
3. `RoutesSorted`: in a sorted table, Edit and Delete act on another row.

Three more are stated in the modules and reproduced by a changed instance:

- HEAD passes validation, cannot be sent by `makeRequest`, and counts as a failure of the backend
  (`OpensOnlyForFailingBackend` as an invariant with `CircuitBreaker.cfg`).
- A route is destroyed while a worker reads it, as `Router` has no lock (`RouteOutlivesItsReaders` as an invariant with `RequestPipeline.cfg`).
- Frames a backend sends together with its 101 are dropped (`RelaysInOrder` with `BackendSpeaksFirst = TRUE`).

And these contradict what a reader would expect; the properties are stated so as to leave them out, and say so:

- *Limits below one request a second.* `requests / window` in integers is 0 for the shipped limits of 5 or 10 in 60 seconds, 5 in 300 and 3 in 3600
  (RateLimiter.cpp:117). An empty bucket of such a limit never gets a token back, so a client that waits out the Retry-After it was told
  (the window) is refused again, and as each try moves `last_refill`, the cleanup never drops the bucket: it is locked out as long as it keeps trying
  (`resetBucket` drops the address's bucket, not the endpoints'). One that stays away for 600 s gets a new, full bucket, also under a limit of 3 in an hour. The run has such a limit at the endpoint;
  `RetryAfterIsHonoured` is about buckets that refill, `CleanupForgetsNothing` about those that fill while idle.
- *Connections of forgotten clients.* Above 1000 entries the cleanup drops those of five minutes, also of clients with requests in flight, which the
  10000 connections of `config/gateway.production.json` allow: such a client may then have more requests in flight than its limit, until its
  last one is over. `PerIPCountExact` says that the count is too low and never too high, and right again from then on.
- *Cache directives.* Headers of the backend are kept in a map with case, and looked up as `Cache-Control` and `cache-control`; values are searched for
  words in lower case (HttpServer.cpp:499-509). `CACHE-CONTROL: no-store`, `Cache-Control: No-Store`, and a line that a later line of the
  same name replaces (ProxyManager.cpp:246-248) are missed, and the response is cached and served: the run has them as `elsewhere`.
- *Resets by address.* The dashboard resets a bare address, while the limiter's key is `ip:` + address (main.cpp:549, 572), so that the reset has
  no effect, although `RateLimitResetPanel.tsx:65` says that it restores the "full request allowance immediately". The run resets by both names.
- *Paths that are no regular expressions.* `patternToRegex` (Router.cpp:130-140) means to escape special characters but escapes its own backslashes,
  too. A path with a brace or an unpaired parenthesis or bracket makes `std::regex` throw, which `loadRoutes` catches (line 77): that row and all below it are
  gone under "Routes updated successfully". A path with a dot loads but does not match itself. `SaveChangesOneRow` and its theorem name the first case.

Observed on the way, not stated as properties:

- *Breaker.* `half_open_requests` of the configuration is not read: HALF_OPEN admits everything. The count is
  not reset there, so one failure reopens the circuit, unless a late success has reset it; a late success
  closes a half-open circuit.
- *Connections.* Refused requests in the counter may cause a refusal although fewer than the maximum
  are served. A limit of 0 per address would leave entries behind.
- *Rate limiter.* `setGlobalLimit` frees a bucket others may be using (RateLimiter.cpp:29 and 46-49), and
  fills the new one on every update. Existing buckets keep the limit they were made for. A request refused
  by a lower level has used a token of the upper ones. `resetBucket` resets the address, not its
  endpoints. `endpoint_configs_` is read without the lock.
- *Redis.* "Start a pipeline for atomic operations" (RedisRateLimiter.cpp:50): a pipeline is not atomic, so that
  threads and instances that overlap may each admit a request over the limit, and a second one when
  one of them is late and the window it counts in has been trimmed by a later clock. A failure between ZADD and EXPIRE
  leaves a key with the lifetime of an earlier request, so that it may be dropped with newer requests in it
  (`spoiled` excludes such keys from `WindowBound`), or without any. Refused requests are recorded too, so a client that keeps asking stays refused. Limits are captured at startup (main.cpp:532).
- *WebSocket.* "101" anywhere in the response counts as an upgrade. The client's path is not sent on. A failed
  write drops what the other direction still had. `connection_threads_` grows for ever. Without
  descriptors the accept loop spins. A client that does not read holds `stopListener`.
  `HttpServer::handleWebSocketUpgrade` is not registered.
- *Pipeline.* Cache keys lack the query string. `no-store` of a request skips the lookup but not the store. A
  response fetched before a clear is stored after it. A failed clear replies "Cache cleared", and
  `keys_cleared` is a difference of two counts. A table loaded in part replies success.
- *Configuration.* Endpoint limits are added, never removed. The whitelist is replaced before the blacklist.
    An endpoint without `requests` is read through a const `operator[]`, undefined for a missing key.
- *Settings pages.* A fetch that brings other content fills a panel anew and the typed changes are gone. Changes made
  while a save is under way are marked as saved when it succeeds, and lost at the next fetch; in the JSON editor, too, where the callback of the
  save clears `hasChanges` and the effect then writes the copy over the text (`EditorKeepsDraft` leaves this step of the own save out). API routes of two pages that
  read the same document and post one after the other lose one section's save. A save may be reported as
  failed although the gateway has kept it. `JWTSettings.tsx` clears its mark on submission whatever becomes of it, and
  loses its draft with the tab. After a failed fetch the security page still offers its forms: what is added then
  replaces the whole section. With the mock gateway, a text saved by the editor (posted bare) hides the document from the
  other pages, and the next save of a panel keeps that panel's section only; `mock-gateway.js:5` says that it simulates the gateway.
- *Routes page.* A route added before the first fetch has arrived, or after it failed, replaces all routes by itself.
  A deletion confirmed after the list has changed takes whatever is at the index now. Edits of a row beyond the end of a list that
  has become shorter leave a hole, at which the router stops loading and replies success: the rest is lost.
  `rewrite` is dropped by the router and gone from the form after a save. See section 6 for empty strategies.
- *Other panels.* The timers that remove a message after a clear or a reset (`RateLimitResetPanel.tsx:20-23`,
  `CacheClearPanel.tsx`) are not cancelled, so that an old one removes a newer message. The chart of status codes is always 0
  (`lib/prometheus.ts:131-133`). The logs route expects labels that the gateway does not export.
- *Mock services.* A second refund within 100 ms of the first passes the check (`payment-service.js:105-113`).

## 9. Not modelled, and why

`JWTManager` and TLS are wrappers of libraries. `ConfigManager` runs once, before any thread. `Logger`
formats and decides nothing. Metrics of the gateway are counters no decision depends on. Header sets, CORS, wording of errors
and JSON are data no property is about. Of the router, the translation of a pattern to a regular expression is left out, a
string algorithm that `tests/test_router.cpp` exercises for slashes and stars: of a pattern the models have the paths it matches, and whether
it can be translated at all. So are rewriting and the choice between backends.

Of the dashboard, the pages for metrics and logs show what a fetch returns and keep nothing a later step could find stale; the
panels that clear the cache and reset a limit send one request each. Leaving a page throws its form away, which is
why a browser stays at its page. Layout, icons and generated interface components hold no logic.
The mock gateway's metrics are random numbers. Mock services, deployment and monitoring hold no logic of the gateway.
Memory corruption itself (data races on containers) has no model but "anything": the models
show where it can start.

## 10. Plan

Done, in this order: breaker, connections, in-memory limiter, WebSocket, pipeline, Redis limiter and configuration, since
refusal, admission and limits are what the gateway is for; then the settings pages and the routes page,
where administrators change all of these.

What would come next:

1. Screening refined: address filter and API keys as sets replaced by `LiveConfig`'s setters in their order, with the
   window in which an address both configurations refuse is admitted.
2. `patternToRegex` against a reference definition of matching over short patterns and paths.
3. An abstract specification of the limiter (at most a burst and a rate) that both limiters implement.
