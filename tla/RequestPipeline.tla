--------------------------- MODULE RequestPipeline ---------------------------
(***************************************************************************)
(* The stages a request of HttpServer::handleRequest goes through on its   *)
(* worker thread: screening, the route, authentication, the response       *)
(* cache in Redis, the backend. Beside them threads of the same server     *)
(* serve the administrator, who clears the cache and replaces the routes.  *)
(* The router keeps its routes in a vector without a lock, and a worker    *)
(* keeps a pointer into that vector from its match until it forwards.      *)
(*                                                                         *)
(* Screening, rate limits, connection counts and the circuit breaker have  *)
(* modules of their own: here each may refuse any request. External:       *)
(* Redis, in which a key may expire at any time and a call may fail, and   *)
(* the backends.                                                           *)
(*                                                                         *)
(* A definition that nothing uses, just before the one it varies, is a     *)
(* faulty variant: README.md says which property rejects it.               *)
(***************************************************************************)
EXTENDS Integers, Sequences

CONSTANTS
  Workers,          \* threads that serve clients
  Admins,           \* threads that serve the administrator
  Paths,            \* the paths clients ask for
  Requests,         \* what a client may ask
  Tables,           \* the route tables the administrator submits
  FirstTable,       \* the route table of the configuration file
  FirstCapacity,    \* of the vector, once FirstTable is loaded
  Patterns,         \* what the administrator asks to clear: sets of paths
  Answers,          \* what a backend may answer
  RedisFails        \* a call to Redis may fail

(***************************************************************************)
(* get: the method is GET; fresh: its Cache-Control says no-cache or       *)
(* no-store, in lower case; key, token: its X-API-Key, its bearer token is *)
(* valid; flaws: what the address filter and the validator object to.      *)
(***************************************************************************)
Request == [path: Paths, get: BOOLEAN, fresh: BOOLEAN, key: BOOLEAN, token: BOOLEAN,
            flaws: SUBSET {"address", "method", "path", "headers", "body"}]

\* isIPAllowed
IsAllowed(r) == "address" \notin r.flaws

\* validateMethod, validatePath, validateHeaders and validateBody.
IsValid(r) == r.flaws \cap {"method", "path", "headers", "body"} = {}

\* validateAuth: without a valid API key, the bearer token decides.
Known(r) == r.key \/ r.token

\* paths: those the pattern matches, none when the entry has no pattern;
\* handler: the route names an internal handler; bad: a field of the wrong
\* type or a pattern that is no regular expression, on which loading throws.
Route == [paths: SUBSET Paths, require_auth: BOOLEAN, handler: BOOLEAN, bad: BOOLEAN]

(***************************************************************************)
(* ok: status 200; forbids: where the backend says no-store, no-cache or   *)
(* private. "Cache-Control" and "cache-control": in lower case, under the  *)
(* header so spelled; "elsewhere": where it is not looked for, as under    *)
(* CACHE-CONTROL, as No-Store, or on a line another one of that name hides *)
(* (ProxyManager.cpp:246-248).                                             *)
(***************************************************************************)
Places == {"nowhere", "Cache-Control", "cache-control", "elsewhere"}
Answer == [ok: BOOLEAN, forbids: Places]
Of(answer, p) == [path |-> p, ok |-> answer.ok, forbids |-> answer.forbids]

ASSUME PipelineAssumption ==
  /\ Requests \subseteq Request
  /\ Tables \subseteq Seq(Route)
  /\ FirstTable \in Seq(Route)
  /\ FirstCapacity \in Nat /\ Len(FirstTable) <= FirstCapacity
  /\ \A i \in DOMAIN FirstTable : ~FirstTable[i].bad /\ FirstTable[i].paths # {}
  /\ Patterns \subseteq SUBSET Paths
  /\ Answers \subseteq Answer
  /\ RedisFails \in BOOLEAN

None == [none |-> TRUE]

VARIABLES
  routes,     \* routes_
  capacity,   \* of the vector routes_
  cache,      \* cache[p]: what Redis holds under GET:p
  pc,         \* pc[w]: where w is in handleRequest
  request,    \* request[w]: what its client asks
  route,      \* route[w]: what RouteMatch.route pointed to
  answer,     \* answer[w]: the backend's answer or the cached one
  status,     \* status[w]: what the client gets, "hit" for X-Cache: HIT
  duty,       \* duty[a]: what a does for the administrator
  todo,       \* todo[a]: entries of the submitted table not yet loaded
  pattern,    \* pattern[a]: the keys to be cleared
  found,      \* found[a]: keys SCAN has returned
  old,        \* history: keys of the pattern that hold what they held when the clear began
  submitted,  \* history: the table last submitted
  mixed,      \* history: tables have been loaded over one another, none alone since
  verdict,    \* history: verdict[w], what that table said of the path when w matched it
  dangling    \* workers whose RouteMatch.route points to no route, or to a destroyed one

router == <<routes, capacity, submitted, mixed>>
locals == <<request, route, answer, status, verdict>>
clearing == <<pattern, found, old>>
vars == <<router, cache, pc, locals, duty, todo, clearing, dangling>>

Init ==
  /\ routes = FirstTable
  /\ capacity = FirstCapacity
  /\ submitted = FirstTable
  /\ mixed = FALSE
  /\ cache = [p \in Paths |-> None]
  /\ pc = [w \in Workers |-> "idle"]
  /\ request = [w \in Workers |-> None]
  /\ route = [w \in Workers |-> None]
  /\ answer = [w \in Workers |-> None]
  /\ status = [w \in Workers |-> "none"]
  /\ verdict = [w \in Workers |-> "none"]
  /\ duty = [a \in Admins |-> "none"]
  /\ todo = [a \in Admins |-> <<>>]
  /\ pattern = [a \in Admins |-> {}]
  /\ found = [a \in Admins |-> {}]
  /\ old = [a \in Admins |-> {}]
  /\ dangling = {}

-----------------------------------------------------------------------------
(***************************************************************************)
(* Router                                                                  *)
(***************************************************************************)
Matches(table, p, i) == i \in DOMAIN table /\ p \in table[i].paths

\* matchRoute: the first route whose pattern matches.
IsFirst(table, p, i) ==
  Matches(table, p, i) /\ \A j \in DOMAIN table : Matches(table, p, j) => i <= j

\* The table asks no credentials for the path.
Public(table, p) == \A i \in DOMAIN table : IsFirst(table, p, i) => ~table[i].require_auth

\* Workers that will still read through RouteMatch.route.
Holders == {w \in Workers : pc[w] \in {"authenticate", "lookup", "forward"}}

Replacing == {a \in Admins : duty[a] = "loading"}

\* push_back into a full vector moves the routes to one of twice the size.
Grown(size) == IF size = 0 THEN 1 ELSE 2 * size

(***************************************************************************)
(* clearRoutes destroys every route; the vector keeps its memory. Nothing  *)
(* keeps it apart from requests, or from a table that is still loading.    *)
(***************************************************************************)
ClearRoutes(a) ==
  /\ duty[a] = "none"
  /\ duty' = [duty EXCEPT ![a] = "loading"]
  /\ \E table \in Tables :
       /\ todo' = [todo EXCEPT ![a] = table]
       /\ submitted' = table
  /\ routes' = <<>>
  /\ mixed' = (Replacing # {})
  /\ dangling' = dangling \cup Holders
  /\ UNCHANGED <<capacity, cache, pc, locals, clearing>>

\* loadRoutes, one well-formed entry: an entry without a pattern is passed over.
AddRoute(a) ==
  /\ duty[a] = "loading"
  /\ todo[a] # <<>>
  /\ LET r == Head(todo[a])
         full == Len(routes) = capacity
     IN /\ ~r.bad
        /\ IF r.paths = {}
             THEN UNCHANGED <<routes, capacity, dangling>>
             ELSE /\ routes' = Append(routes, r)
                  /\ capacity' = IF full THEN Grown(capacity) ELSE capacity
                  /\ dangling' = IF full THEN dangling \cup Holders ELSE dangling
  /\ todo' = [todo EXCEPT ![a] = Tail(todo[a])]
  /\ UNCHANGED <<submitted, mixed, cache, pc, locals, duty, clearing>>

AfterBadSkipsIt(rest) == Tail(rest)

\* A malformed entry throws out of the loop: what is behind it is not loaded.
AfterBad(rest) == <<>>

LoadFails(a) ==
  /\ duty[a] = "loading"
  /\ todo[a] # <<>>
  /\ Head(todo[a]).bad
  /\ todo' = [todo EXCEPT ![a] = AfterBad(todo[a])]
  /\ UNCHANGED <<router, cache, pc, locals, duty, clearing, dangling>>

\* handleUpdateRoutes replies "Routes updated successfully" either way.
LoadEnds(a) ==
  /\ duty[a] = "loading"
  /\ todo[a] = <<>>
  /\ duty' = [duty EXCEPT ![a] = "none"]
  /\ UNCHANGED <<router, cache, pc, locals, todo, clearing, dangling>>

-----------------------------------------------------------------------------
(***************************************************************************)
(* handleRequest                                                           *)
(***************************************************************************)
shared == <<router, cache, duty, todo, clearing, dangling>>

Goto(w, stage) == pc' = [pc EXCEPT ![w] = stage]

\* The response is written: the cached answer held, or none.
Respond(w, s, held) ==
  /\ Goto(w, "respond")
  /\ status' = [status EXCEPT ![w] = s]
  /\ answer' = [answer EXCEPT ![w] = held]
  /\ route' = [route EXCEPT ![w] = None]
  /\ UNCHANGED <<request, verdict>>

Arrive(w) ==
  /\ pc[w] = "idle"
  /\ Goto(w, "screen")
  /\ \E r \in Requests : request' = [request EXCEPT ![w] = r]
  /\ UNCHANGED <<shared, route, answer, status, verdict>>

(***************************************************************************)
(* Screening: the address filter, the two connection limits, the validator *)
(* and the rate limits, in this order. The first that objects answers 403, *)
(* 503, 429, 405 or 400; the limits may object to any request.             *)
(***************************************************************************)
Screen(w) ==
  /\ pc[w] = "screen"
  /\ \/ IsAllowed(request[w]) /\ IsValid(request[w]) /\ Goto(w, "match") /\ UNCHANGED locals
     \/ Respond(w, "refused", None)
  /\ UNCHANGED shared

NoRoute(w) ==
  /\ pc[w] = "match"
  /\ \A i \in DOMAIN routes : ~Matches(routes, request[w].path, i)
  /\ Respond(w, "notFound", None)
  /\ UNCHANGED shared

MatchRoute(w) ==
  /\ pc[w] = "match"
  /\ \E i \in DOMAIN routes :
       /\ IsFirst(routes, request[w].path, i)
       /\ route' = [route EXCEPT ![w] = routes[i]]
  /\ verdict' = [verdict EXCEPT ![w] =
                   IF mixed THEN "mixed"
                   ELSE IF Public(submitted, request[w].path) THEN "open" ELSE "closed"]
  /\ Goto(w, "authenticate")
  /\ UNCHANGED <<shared, request, answer, status>>

\* The vector changes under the loop of matchRoute: what it then finds is undefined.
MatchUndefined(w) ==
  /\ pc[w] = "match"
  /\ Replacing # {}
  /\ dangling' = dangling \cup {w}
  /\ Goto(w, "authenticate")
  /\ UNCHANGED <<router, cache, duty, todo, clearing, locals>>

\* What a read of a flag of the route gives: anything if there is no such route.
Flag(w, value) == IF w \in dangling THEN BOOLEAN ELSE {value}

\* validateAuth, when the route requires it.
Authenticate(w) ==
  /\ pc[w] = "authenticate"
  /\ \E required \in Flag(w, route[w].require_auth) :
       IF required /\ ~Known(request[w])
         THEN Respond(w, "unauthorized", None)
         ELSE Goto(w, "lookup") /\ UNCHANGED locals
  /\ UNCHANGED shared

\* A GET without a Cache-Control directive that sets skip_cache.
UsesCache(w) == request[w].get /\ ~request[w].fresh

\* On to the backend: of the route only timeout_ms is still to be read.
Miss(w) ==
  /\ Goto(w, "forward")
  /\ route' = [route EXCEPT ![w] = None]
  /\ UNCHANGED <<request, answer, status, verdict>>

\* A route with an internal handler is not served here.
Internal(w) ==
  /\ pc[w] = "lookup"
  /\ TRUE \in Flag(w, route[w].handler)
  /\ Respond(w, "notFound", None)
  /\ UNCHANGED shared

\* cache_get_, unless the method or a directive keeps the cache out of it.
Lookup(w) ==
  /\ pc[w] = "lookup"
  /\ FALSE \in Flag(w, route[w].handler)
  /\ LET held == cache[request[w].path]
     IN IF UsesCache(w) /\ held # None THEN Respond(w, "hit", held) ELSE Miss(w)
  /\ UNCHANGED shared

\* RedisCache::get swallows an exception and reports a miss.
LookupFails(w) ==
  /\ RedisFails
  /\ pc[w] = "lookup"
  /\ FALSE \in Flag(w, route[w].handler)
  /\ UsesCache(w)
  /\ Miss(w)
  /\ UNCHANGED shared

\* forwardRequest succeeds: the backend has answered, whatever its status.
Forward(w) ==
  /\ pc[w] = "forward"
  /\ Goto(w, "store")
  /\ \E reply \in Answers :
       answer' = [answer EXCEPT ![w] = Of(reply, request[w].path)]
  /\ UNCHANGED <<shared, request, route, status, verdict>>

\* The circuit is open, or the backend does not answer in time: 502.
ForwardFails(w) ==
  /\ pc[w] = "forward"
  /\ Respond(w, "badGateway", None)
  /\ UNCHANGED shared

ForbidsInOneSpelling(reply) == reply.forbids = "Cache-Control"

\* The response's own directives, where they are looked for.
Forbids(reply) == reply.forbids \in {"Cache-Control", "cache-control"}

Cacheable(w) == request[w].get /\ answer[w].ok /\ ~Forbids(answer[w])

\* Keys changed: no clear finds there what it found at its beginning.
Overwritten(keys) == [a \in Admins |-> old[a] \ keys]

\* cache_set_ of a cacheable response, and the response to the client.
Store(w) ==
  /\ pc[w] = "store"
  /\ IF Cacheable(w)
       THEN /\ cache' = [cache EXCEPT ![request[w].path] = answer[w]]
            /\ old' = Overwritten({request[w].path})
       ELSE UNCHANGED <<cache, old>>
  /\ Respond(w, "miss", None)
  /\ UNCHANGED <<router, duty, todo, pattern, found, dangling>>

\* RedisCache::set swallows an exception: the key keeps what it held.
StoreFails(w) ==
  /\ RedisFails
  /\ pc[w] = "store"
  /\ Cacheable(w)
  /\ Respond(w, "miss", None)
  /\ UNCHANGED shared

Finish(w) ==
  /\ pc[w] = "respond"
  /\ Goto(w, "idle")
  /\ request' = [request EXCEPT ![w] = None]
  /\ answer' = [answer EXCEPT ![w] = None]
  /\ status' = [status EXCEPT ![w] = "none"]
  /\ verdict' = [verdict EXCEPT ![w] = "none"]
  /\ dangling' = dangling \ {w}
  /\ UNCHANGED <<router, cache, duty, todo, clearing, route>>

-----------------------------------------------------------------------------
(***************************************************************************)
(* RedisCache::invalidatePattern, for handleClearCache. SCAN returns keys  *)
(* in batches; once its cursor is back at 0 it has returned every key that *)
(* was there all along, and possibly others.                               *)
(***************************************************************************)
served == <<router, pc, locals, todo, dangling>>

Held == {p \in Paths : cache[p] # None}

BeginClear(a) ==
  /\ duty[a] = "none"
  /\ duty' = [duty EXCEPT ![a] = "scanning"]
  /\ \E keys \in Patterns :
       /\ pattern' = [pattern EXCEPT ![a] = keys]
       /\ old' = [old EXCEPT ![a] = keys \cap Held]
  /\ found' = [found EXCEPT ![a] = {}]
  /\ UNCHANGED <<served, cache>>

ScanMore(a) ==
  /\ duty[a] = "scanning"
  /\ \E batch \in SUBSET (pattern[a] \cap Held) :
       found' = [found EXCEPT ![a] = found[a] \cup batch]
  /\ UNCHANGED <<served, cache, duty, pattern, old>>

ScanOnce(a) ==
  /\ duty[a] = "scanning"
  /\ \E batch \in SUBSET (pattern[a] \cap Held) :
       found' = [found EXCEPT ![a] = found[a] \cup batch]
  /\ duty' = [duty EXCEPT ![a] = "deleting"]
  /\ UNCHANGED <<served, cache, pattern, old>>

\* The last batch: the cursor is 0.
ScanLast(a) ==
  /\ duty[a] = "scanning"
  /\ \E batch \in SUBSET (pattern[a] \cap Held) :
       /\ old[a] \subseteq found[a] \cup batch
       /\ found' = [found EXCEPT ![a] = found[a] \cup batch]
  /\ duty' = [duty EXCEPT ![a] = "deleting"]
  /\ UNCHANGED <<served, cache, pattern, old>>

\* DEL of all keys found, if there are any.
Delete(a) ==
  /\ duty[a] = "deleting"
  /\ cache' = [p \in Paths |-> IF p \in found[a] THEN None ELSE cache[p]]
  /\ old' = Overwritten(found[a])
  /\ duty' = [duty EXCEPT ![a] = "cleared"]
  /\ UNCHANGED <<served, pattern, found>>

\* A call of the clear fails: the exception is swallowed.
ClearFails(a) ==
  /\ RedisFails
  /\ duty[a] \in {"scanning", "deleting"}
  /\ duty' = [duty EXCEPT ![a] = "unchanged"]
  /\ UNCHANGED <<served, cache, clearing>>

\* handleClearCache replies "Cache cleared" either way.
Reply(a) ==
  /\ duty[a] \in {"cleared", "unchanged"}
  /\ duty' = [duty EXCEPT ![a] = "none"]
  /\ pattern' = [pattern EXCEPT ![a] = {}]
  /\ found' = [found EXCEPT ![a] = {}]
  /\ old' = [old EXCEPT ![a] = {}]
  /\ UNCHANGED <<served, cache>>

\* The key's time to live is over, or Redis evicts it.
Expire(p) ==
  /\ cache[p] # None
  /\ cache' = [cache EXCEPT ![p] = None]
  /\ old' = Overwritten({p})
  /\ UNCHANGED <<served, duty, pattern, found>>

-----------------------------------------------------------------------------
HandleRequest(w) ==
  \/ Screen(w) \/ NoRoute(w) \/ MatchRoute(w) \/ MatchUndefined(w) \/ Authenticate(w)
  \/ Internal(w) \/ Lookup(w) \/ LookupFails(w) \/ Forward(w) \/ ForwardFails(w)
  \/ Store(w) \/ StoreFails(w) \/ Finish(w)

UpdateRoutes(a) == ClearRoutes(a) \/ AddRoute(a) \/ LoadFails(a) \/ LoadEnds(a)

ClearCache(a) ==
  \/ BeginClear(a) \/ ScanMore(a) \/ ScanLast(a) \/ Delete(a) \/ ClearFails(a) \/ Reply(a)

Next ==
  \/ \E w \in Workers : Arrive(w) \/ HandleRequest(w)
  \/ \E a \in Admins : UpdateRoutes(a) \/ ClearCache(a)
  \/ \E p \in Paths : Expire(p)

Spec == Init /\ [][Next]_vars

-----------------------------------------------------------------------------
Stage == {"idle", "screen", "match", "authenticate", "lookup", "forward", "store", "respond"}
Status == {"none", "refused", "notFound", "unauthorized", "badGateway", "miss", "hit"}
Duty == {"none", "loading", "scanning", "deleting", "cleared", "unchanged"}
Verdict == {"none", "open", "closed", "mixed"}

\* What an entry of the cache, or a worker, holds of an answer. The path it is for
\* and the directive it came with are not in the entry: they are its history.
Content == [path: Paths, ok: BOOLEAN, forbids: Places]

\* Every variable keeps its type, and the vector of routes fits its memory.
TypeOK ==
  /\ routes \in Seq(Route)
  /\ capacity \in Nat
  /\ Len(routes) <= capacity
  /\ cache \in [Paths -> Content \cup {None}]
  /\ pc \in [Workers -> Stage]
  /\ request \in [Workers -> Requests \cup {None}]
  /\ route \in [Workers -> Route \cup {None}]
  /\ answer \in [Workers -> Content \cup {None}]
  /\ status \in [Workers -> Status]
  /\ duty \in [Admins -> Duty]
  /\ todo \in [Admins -> Seq(Route)]
  /\ pattern \in [Admins -> SUBSET Paths]
  /\ found \in [Admins -> SUBSET Paths]
  /\ old \in [Admins -> SUBSET Paths]
  /\ submitted \in Seq(Route)
  /\ mixed \in BOOLEAN
  /\ verdict \in [Workers -> Verdict]
  /\ dangling \subseteq Workers

(***************************************************************************)
(* Content, be it from the backend or from the cache, goes to requests     *)
(* that have passed the screening, and to clients without a valid key or   *)
(* token only if the table last submitted lets anyone have the path: also  *)
(* when that table was loaded in part, was loading at the match, or is not *)
(* the one under which the entry was cached. It rests on the order of the  *)
(* stages (HttpServer.cpp:249-483) and on loadRoutes stopping at a         *)
(* malformed entry (Router.cpp:50-80): without that a laxer route behind   *)
(* it could get the path. Nothing is said of a worker whose route was      *)
(* destroyed under it, or that matched when one table had been loaded over *)
(* another: Router has no lock against either.                             *)
(***************************************************************************)
AuthorisedOnly ==
  \A w \in Workers : status[w] \in {"hit", "miss"} =>
    /\ IsAllowed(request[w]) /\ IsValid(request[w])
    /\ Known(request[w]) \/ verdict[w] \in {"open", "mixed"} \/ w \in dangling

(***************************************************************************)
(* A clear Redis has carried through (RedisCache.cpp:77-100) leaves no     *)
(* entry that was there when it began, whatever is looked up, stored or    *)
(* expires meanwhile. One that fails leaves entries and replies the same.  *)
(***************************************************************************)
ClearTakesAll == \A a \in Admins : duty[a] = "cleared" => old[a] = {}

(***************************************************************************)
(* A response from the cache answers a GET of the same path that asked for *)
(* no fresh one, and its backend had answered 200 and forbidden nothing in *)
(* either spelling that is looked up (HttpServer.cpp:452-483, 497-517).    *)
(* What it forbids elsewhere is missed, and served.                        *)
(***************************************************************************)
HonoursDirectives ==
  \A w \in Workers : status[w] = "hit" =>
    /\ request[w].get /\ ~request[w].fresh
    /\ answer[w].ok /\ answer[w].path = request[w].path
    /\ answer[w].forbids \notin {"Cache-Control", "cache-control"}

(***************************************************************************)
(* A worker reads its route (HttpServer.cpp:424, 444, 486) only while the  *)
(* route exists, so the administrator may replace the routes at run time   *)
(* (AdminAPI.h:12). Violated, as no lock keeps an update from a request.   *)
(***************************************************************************)
RouteOutlivesItsReaders == dangling \cap Holders = {}
=============================================================================
