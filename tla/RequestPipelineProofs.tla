----------------------- MODULE RequestPipelineProofs ------------------------
(***************************************************************************)
(* The request pipeline for every number of threads, paths, tables and     *)
(* clients, while the routes are replaced and the cache is cleared.        *)
(***************************************************************************)
EXTENDS RequestPipeline, TLAPS

\* What a worker has of its client's request and of the backend's answer at each stage.
Remembers(w) ==
  /\ pc[w] \in {"screen", "match", "authenticate", "lookup", "forward", "store"} =>
       request[w] \in Requests
  /\ pc[w] \in {"authenticate", "lookup"} /\ w \notin dangling => route[w] \in Route
  /\ pc[w] = "store" => answer[w] \in Content /\ answer[w].path = request[w].path
  /\ pc[w] # "respond" => status[w] = "none"

Typed == TypeOK /\ \A w \in Workers : Remembers(w)

\* What a client asks is a request for one of the paths.
LEMMA RequestType == \A r \in Requests : r \in Request /\ r.path \in Paths
BY PipelineAssumption DEF Request

\* The types of the variables, and what each stage of a worker rests on.
LEMMA TypeInductive == Spec => []Typed
<1>1. Init => Typed
  <2> SUFFICES ASSUME Init PROVE Typed
    OBVIOUS
  <2>1. TypeOK
    <3>1. mixed \in BOOLEAN /\ verdict \in [Workers -> Verdict]
      BY DEF Init, Verdict
    <3>2. /\ routes \in Seq(Route) /\ submitted \in Seq(Route)
          /\ capacity \in Nat /\ Len(routes) <= capacity
      BY PipelineAssumption DEF Init
    <3> QED
      BY <3>1, <3>2 DEF Init, TypeOK, Stage, Status, Duty
  <2>2. \A w \in Workers : Remembers(w)
    BY DEF Init, Remembers
  <2> QED
    BY <2>1, <2>2 DEF Typed
<1>2. Typed /\ [Next]_vars => Typed'
  <2> SUFFICES ASSUME Typed, [Next]_vars PROVE Typed'
    OBVIOUS
  <2> USE PipelineAssumption, RequestType DEF Typed, TypeOK, Remembers, Goto, Stage, Status, Verdict
  <2>1. ASSUME NEW w \in Workers, Arrive(w) PROVE Typed'
    BY <2>1 DEF Arrive, shared, router, clearing
  <2>2. ASSUME NEW w \in Workers, NEW s \in Status, Respond(w, s, None), pc[w] # "idle",
               UNCHANGED <<router, duty, todo, pattern, found, dangling, cache, old>>
        PROVE  Typed'
    BY <2>2 DEF Respond, router
  <2>3. ASSUME NEW w \in Workers, Screen(w) PROVE Typed'
    <3>1. CASE Respond(w, "refused", None)
      BY <2>2, <2>3, <3>1 DEF Screen, shared, clearing
    <3>2. CASE Goto(w, "match") /\ UNCHANGED locals
      BY <2>3, <3>2 DEF Screen, shared, locals, router, clearing
    <3> QED
      BY <2>3, <3>1, <3>2 DEF Screen
  <2>4. ASSUME NEW w \in Workers, NoRoute(w) PROVE Typed'
    BY <2>2, <2>4 DEF NoRoute, shared, clearing
  <2>5. ASSUME NEW w \in Workers, MatchRoute(w) PROVE Typed'
    <3> HIDE DEF Remembers
    <3>1. PICK said \in Verdict : verdict' = [verdict EXCEPT ![w] = said]
      BY <2>5 DEF MatchRoute
    <3>2. PICK r \in Route : route' = [route EXCEPT ![w] = r]
      <4>1. PICK i \in DOMAIN routes : route' = [route EXCEPT ![w] = routes[i]]
        BY <2>5, Zenon DEF MatchRoute
      <4>2. routes[i] \in Route
        OBVIOUS
      <4> QED
        BY <4>1, <4>2
    <3>3. /\ pc' = [pc EXCEPT ![w] = "authenticate"] /\ request[w] \in Requests
          /\ UNCHANGED <<router, cache, request, answer, status, duty, todo, clearing, dangling>>
      <4>1. pc[w] = "match" /\ Remembers(w)
        BY <2>5 DEF MatchRoute
      <4>2. request[w] \in Requests
        BY <4>1 DEF Remembers
      <4> QED
        BY <2>5, <4>2 DEF MatchRoute, shared
    <3>4. TypeOK'
      BY <3>1, <3>2, <3>3 DEF router, clearing
    <3>5. ASSUME NEW v \in Workers PROVE Remembers(v)'
      <4>1. v # w => Remembers(v)'
        BY <3>2, <3>3 DEF Remembers
      <4>2. Remembers(w)'
        BY <2>5, <3>2, <3>3 DEF Remembers, MatchRoute
      <4> QED
        BY <4>1, <4>2
    <3> QED
      BY <3>4, <3>5
  <2>27. ASSUME NEW w \in Workers, MatchUndefined(w) PROVE Typed'
    BY <2>27 DEF MatchUndefined, locals, router, clearing
  <2>6. ASSUME NEW w \in Workers, Authenticate(w) PROVE Typed'
    <3>1. CASE Respond(w, "unauthorized", None)
      BY <2>2, <2>6, <3>1 DEF Authenticate, shared, clearing
    <3>2. CASE Goto(w, "lookup") /\ UNCHANGED locals
      BY <2>6, <3>2 DEF Authenticate, shared, locals, router, clearing
    <3> QED
      BY <2>6, <3>1, <3>2 DEF Authenticate
  <2>7. ASSUME NEW w \in Workers, Internal(w) PROVE Typed'
    BY <2>2, <2>7 DEF Internal, shared, clearing
  <2>8. ASSUME NEW w \in Workers, pc[w] = "lookup", Miss(w), UNCHANGED shared PROVE Typed'
    BY <2>8 DEF Miss, shared, router, clearing
  <2>9. ASSUME NEW w \in Workers, Lookup(w) PROVE Typed'
    <3> DEFINE held == cache[request[w].path]
    <3>1. CASE held # None /\ Respond(w, "hit", held)
      <4>1. held \in Content
        BY <2>9, <3>1 DEF Lookup
      <4> QED
        BY <2>9, <3>1, <4>1 DEF Lookup, Respond, shared, router, clearing
    <3>2. CASE Miss(w)
      BY <2>8, <2>9, <3>2 DEF Lookup
    <3> QED
      BY <2>9, <3>1, <3>2 DEF Lookup
  <2>10. ASSUME NEW w \in Workers, LookupFails(w) PROVE Typed'
    BY <2>8, <2>10 DEF LookupFails
  <2>11. ASSUME NEW w \in Workers, Forward(w) PROVE Typed'
    <3>1. \A reply \in Answers : LET c == Of(reply, request[w].path)
                                 IN c \in Content /\ c.path = request[w].path
      BY <2>11 DEF Forward, Of, Content, Answer
    <3> QED
      BY <2>11, <3>1 DEF Forward, shared, router, clearing
  <2>12. ASSUME NEW w \in Workers, ForwardFails(w) PROVE Typed'
    BY <2>2, <2>12 DEF ForwardFails, shared, clearing
  <2>13. ASSUME NEW w \in Workers, Store(w) PROVE Typed'
    BY <2>13 DEF Store, Respond, Overwritten, router
  <2>14. ASSUME NEW w \in Workers, StoreFails(w) PROVE Typed'
    BY <2>2, <2>14 DEF StoreFails, shared, clearing
  <2>15. ASSUME NEW w \in Workers, Finish(w) PROVE Typed'
    BY <2>15 DEF Finish, router, clearing
  <2> USE DEF Duty
  <2>16. ASSUME NEW a \in Admins, ClearRoutes(a) PROVE Typed'
    BY <2>16 DEF ClearRoutes, Holders, locals, clearing
  <2>17. ASSUME NEW a \in Admins, AddRoute(a) PROVE Typed'
    <3>1. Head(todo[a]) \in Route /\ Tail(todo[a]) \in Seq(Route)
      BY <2>17 DEF AddRoute
    <3>2. todo' \in [Admins -> Seq(Route)]
      BY <2>17, <3>1 DEF AddRoute
    <3>3. CASE UNCHANGED <<routes, capacity, dangling>>
      BY <2>17, <3>2, <3>3 DEF AddRoute, locals, clearing
    <3>4. CASE /\ routes' = Append(routes, Head(todo[a]))
               /\ capacity' = IF Len(routes) = capacity THEN Grown(capacity) ELSE capacity
               /\ dangling' = IF Len(routes) = capacity THEN dangling \cup Holders ELSE dangling
      <4>1. routes' \in Seq(Route) /\ Len(routes') = Len(routes) + 1
        BY <3>1, <3>4
      <4>2. capacity' \in Nat /\ Len(routes') <= capacity'
        BY <3>4, <4>1 DEF Grown
      <4>3. dangling' \subseteq Workers
        BY <3>4 DEF Holders
      <4> QED
        BY <2>17, <3>2, <4>1, <4>2, <4>3 DEF AddRoute, locals, clearing
    <3> QED
      BY <2>17, <3>3, <3>4 DEF AddRoute
  <2>18. ASSUME NEW a \in Admins, LoadFails(a) PROVE Typed'
    BY <2>18 DEF LoadFails, AfterBad, locals, clearing, router
  <2>19. ASSUME NEW a \in Admins, LoadEnds(a) PROVE Typed'
    BY <2>19 DEF LoadEnds, locals, clearing, router
  <2>20. ASSUME NEW a \in Admins, BeginClear(a) PROVE Typed'
    <3>1. PICK keys \in Patterns : /\ pattern' = [pattern EXCEPT ![a] = keys]
                                   /\ old' = [old EXCEPT ![a] = keys \cap Held]
      BY <2>20 DEF BeginClear
    <3>2. keys \in SUBSET Paths /\ keys \cap Held \in SUBSET Paths
      BY DEF Held
    <3> QED
      BY <2>20, <3>1, <3>2 DEF BeginClear, served, locals, router
  <2>21. ASSUME NEW a \in Admins, ScanMore(a) \/ ScanLast(a) PROVE Typed'
    <3>1. PICK batch \in SUBSET (pattern[a] \cap Held) :
            found' = [found EXCEPT ![a] = found[a] \cup batch]
      BY <2>21 DEF ScanMore, ScanLast
    <3>2. found[a] \cup batch \in SUBSET Paths
      BY DEF Held
    <3> QED
      BY <2>21, <3>1, <3>2 DEF ScanMore, ScanLast, served, locals, router
  <2>22. ASSUME NEW a \in Admins, Delete(a) PROVE Typed'
    BY <2>22 DEF Delete, Overwritten, served, locals, router
  <2>23. ASSUME NEW a \in Admins, ClearFails(a) PROVE Typed'
    BY <2>23 DEF ClearFails, served, locals, router, clearing
  <2>24. ASSUME NEW a \in Admins, Reply(a) PROVE Typed'
    BY <2>24 DEF Reply, served, locals, router
  <2>25. ASSUME NEW p \in Paths, Expire(p) PROVE Typed'
    BY <2>25 DEF Expire, Overwritten, served, locals, router
  <2>26. CASE UNCHANGED vars
    BY <2>26 DEF vars, locals, router, clearing
  <2> QED
    BY <2>1, <2>3, <2>4, <2>5, <2>27, <2>6, <2>7, <2>9, <2>10, <2>11, <2>12, <2>13, <2>14, <2>15,
       <2>16, <2>17, <2>18, <2>19, <2>20, <2>21, <2>22, <2>23, <2>24, <2>25, <2>26
    DEF Next, HandleRequest, UpdateRoutes, ClearCache
<1> QED
  BY <1>1, <1>2, PTL DEF Spec

\* The types of the variables, for any number of threads and whatever overlaps.
THEOREM TypeCorrect == Spec => []TypeOK
<1>1. Typed => TypeOK
  BY DEF Typed
<1> QED
  BY <1>1, TypeInductive, PTL

-----------------------------------------------------------------------------
(***************************************************************************)
(* The clear. Keys that still hold what they held when it began are among  *)
(* those SCAN has returned once it is over, so DEL leaves none of them.    *)
(***************************************************************************)
ScanIsComplete == \A a \in Admins : duty[a] = "deleting" => old[a] \subseteq found[a]

\* No step of a worker gives a clear back a key: old only loses members.
LEMMA StoresOverwrite ==
  ASSUME NEW w \in Workers, Arrive(w) \/ HandleRequest(w), TypeOK
  PROVE  /\ UNCHANGED <<duty, found>>
         /\ \A a \in Admins : old'[a] \subseteq old[a]
<1>1. CASE Store(w)
  BY <1>1 DEF Store, Overwritten, TypeOK
<1>2. CASE ~Store(w)
  BY <1>2 DEF HandleRequest, Arrive, Screen, NoRoute, MatchRoute, MatchUndefined, Authenticate, Internal, Lookup,
              LookupFails, Forward, ForwardFails, StoreFails, Finish, shared, clearing
<1> QED
  BY <1>1, <1>2

\* invalidatePattern, carried through, leaves nothing that was there when it
\* began, for any workers and administrators.
THEOREM ClearsTakeAll == Spec => []ClearTakesAll
<1> DEFINE IInv == ScanIsComplete /\ ClearTakesAll
<1>1. Init => IInv
  BY DEF Init, ScanIsComplete, ClearTakesAll
<1>2. TypeOK /\ IInv /\ [Next]_vars => IInv'
  <2> SUFFICES ASSUME TypeOK, IInv, [Next]_vars PROVE IInv'
    OBVIOUS
  <2> USE DEF ScanIsComplete, ClearTakesAll
  <2>1. ASSUME NEW w \in Workers, Arrive(w) \/ HandleRequest(w) PROVE IInv'
    BY <2>1, StoresOverwrite
  <2>2. ASSUME NEW a \in Admins, UpdateRoutes(a) PROVE IInv'
    BY <2>2 DEF UpdateRoutes, ClearRoutes, AddRoute, LoadFails, LoadEnds, clearing, TypeOK
  <2>3. ASSUME NEW a \in Admins, BeginClear(a) PROVE IInv'
    BY <2>3 DEF BeginClear, TypeOK
  <2>4. ASSUME NEW a \in Admins, ScanMore(a) PROVE IInv'
    BY <2>4 DEF ScanMore, TypeOK
  <2>5. ASSUME NEW a \in Admins, ScanLast(a) PROVE IInv'
    BY <2>5 DEF ScanLast, TypeOK
  <2>6. ASSUME NEW a \in Admins, Delete(a) PROVE IInv'
    BY <2>6 DEF Delete, Overwritten, TypeOK
  <2>7. ASSUME NEW a \in Admins, ClearFails(a) PROVE IInv'
    BY <2>7 DEF ClearFails, clearing, TypeOK
  <2>8. ASSUME NEW a \in Admins, Reply(a) PROVE IInv'
    BY <2>8 DEF Reply, TypeOK
  <2>9. ASSUME NEW p \in Paths, Expire(p) PROVE IInv'
    BY <2>9 DEF Expire, Overwritten, TypeOK
  <2>10. CASE UNCHANGED vars
    BY <2>10 DEF vars, clearing
  <2> QED
    BY <2>1, <2>2, <2>3, <2>4, <2>5, <2>6, <2>7, <2>8, <2>9, <2>10 DEF Next, ClearCache
<1> QED
  BY <1>1, <1>2, TypeCorrect, PTL DEF Spec

-----------------------------------------------------------------------------
(***************************************************************************)
(* The cache. What is in it may be there: that holds of what Store puts in *)
(* and nothing else writes.                                                *)
(***************************************************************************)
MayBeServed(held, p) ==
  held.ok /\ held.path = p /\ held.forbids \notin {"Cache-Control", "cache-control"}

CacheIsClean == \A p \in Paths : cache[p] # None => MayBeServed(cache[p], p)

\* What a worker stores may be served to anyone who asks for the path.
LEMMA StoresOnlyCacheable ==
  ASSUME NEW w \in Workers, Typed, CacheIsClean, Store(w)
  PROVE  CacheIsClean'
<1>1. answer[w] \in Content /\ answer[w].path = request[w].path /\ request[w].path \in Paths
  BY RequestType DEF Store, Typed, Remembers
<1>2. CASE Cacheable(w)
  <2>1. MayBeServed(answer[w], request[w].path)
    BY <1>1, <1>2 DEF Cacheable, Forbids, MayBeServed, Content
  <2> QED
    BY <1>1, <1>2, <2>1 DEF Store, CacheIsClean, Typed, TypeOK
<1>3. CASE ~Cacheable(w)
  BY <1>3 DEF Store, CacheIsClean
<1> QED
  BY <1>2, <1>3

\* What handleRequest serves from the cache may be, for any clients and backends.
THEOREM DirectivesAreHonoured == Spec => []HonoursDirectives
<1> DEFINE IInv == CacheIsClean /\ HonoursDirectives
<1>1. Init => IInv
  BY DEF Init, CacheIsClean, HonoursDirectives
<1>2. Typed /\ Typed' /\ IInv /\ [Next]_vars => IInv'
  <2> SUFFICES ASSUME Typed, Typed', IInv, [Next]_vars PROVE IInv'
    OBVIOUS
  <2> USE DEF HonoursDirectives
  <2>1. ASSUME NEW w \in Workers, NEW s \in Status \ {"hit"}, Respond(w, s, None) PROVE HonoursDirectives'
    BY <2>1 DEF Respond, Typed, TypeOK
  <2>2. ASSUME NEW w \in Workers, UNCHANGED <<request, status, answer>> PROVE HonoursDirectives'
    BY <2>2
  <2>3. ASSUME NEW w \in Workers, Store(w) PROVE IInv'
    BY <2>3, <2>1, StoresOnlyCacheable DEF Store, Status
  <2>4. ASSUME UNCHANGED cache PROVE CacheIsClean'
    BY <2>4 DEF CacheIsClean
  <2>5. ASSUME NEW w \in Workers, Arrive(w) PROVE IInv'
    BY <2>4, <2>5 DEF Arrive, shared, Typed, TypeOK, Remembers
  <2>6. ASSUME NEW w \in Workers, Lookup(w) PROVE IInv'
    <3> DEFINE held == cache[request[w].path]
    <3>1. request[w].path \in Paths
      BY <2>6, RequestType DEF Lookup, Typed, Remembers
    <3>2. CASE UsesCache(w) /\ held # None /\ Respond(w, "hit", held)
      BY <2>4, <2>6, <3>1, <3>2 DEF Lookup, Respond, UsesCache, CacheIsClean, MayBeServed, shared,
                                Typed, TypeOK
    <3>3. CASE Miss(w)
      BY <2>2, <2>4, <2>6, <3>3 DEF Lookup, Miss, shared
    <3> QED
      BY <2>6, <3>2, <3>3 DEF Lookup
  <2>7. ASSUME NEW w \in Workers, Forward(w) PROVE IInv'
    BY <2>4, <2>7 DEF Forward, shared, Typed, TypeOK, Remembers
  <2>8. ASSUME NEW w \in Workers, Finish(w) PROVE IInv'
    BY <2>4, <2>8 DEF Finish, Typed, TypeOK
  <2>9. ASSUME NEW w \in Workers, HandleRequest(w), ~Store(w), ~Lookup(w), ~Forward(w), ~Finish(w)
        PROVE  IInv'
    BY <2>1, <2>2, <2>4, <2>9
    DEF HandleRequest, Screen, NoRoute, MatchRoute, MatchUndefined, Authenticate, Internal,
        LookupFails, ForwardFails, StoreFails, Miss, shared, locals, Status
  <2>10. ASSUME NEW a \in Admins, UpdateRoutes(a) \/ ClearCache(a), ~Delete(a) PROVE IInv'
    BY <2>4, <2>10 DEF UpdateRoutes, ClearRoutes, AddRoute, LoadFails, LoadEnds, ClearCache,
       BeginClear, ScanMore, ScanLast, ClearFails, Reply, served, locals
  <2>11. ASSUME NEW a \in Admins, Delete(a) PROVE IInv'
    BY <2>11 DEF Delete, served, locals, CacheIsClean
  <2>12. ASSUME NEW p \in Paths, Expire(p) PROVE IInv'
    BY <2>12 DEF Expire, served, locals, CacheIsClean, Typed, TypeOK
  <2>13. CASE UNCHANGED vars
    BY <2>4, <2>13 DEF vars, locals
  <2> QED
    BY <2>3, <2>5, <2>6, <2>7, <2>8, <2>9, <2>10, <2>11, <2>12, <2>13 DEF Next
<1> QED
  BY <1>1, <1>2, TypeInductive, PTL DEF Spec

-----------------------------------------------------------------------------
(***************************************************************************)
(* Tables. What decides about a path is its first match, and loading finds *)
(* it at the head of what is still to be loaded.                           *)
(***************************************************************************)
NoMatch(table, p) == \A i \in DOMAIN table : ~Matches(table, p, i)

\* The first match is the only one, so it decides.
LEMMA FirstDecides ==
  ASSUME NEW t \in Seq(Route), NEW p, NEW i \in DOMAIN t, IsFirst(t, p, i)
  PROVE  Public(t, p) <=> ~t[i].require_auth
<1>1. DOMAIN t = 1..Len(t) /\ Len(t) \in Nat
  OBVIOUS
<1>2. \A j \in DOMAIN t : IsFirst(t, p, j) => j = i
  BY <1>1 DEF IsFirst, Matches
<1> QED
  BY <1>2 DEF Public

\* A first match in a longer table is the first match before, or the new route.
LEMMA FirstOfAppend ==
  ASSUME NEW t \in Seq(Route), NEW r \in Route, NEW p, NEW i \in DOMAIN Append(t, r),
         IsFirst(Append(t, r), p, i)
  PROVE  \/ i \in DOMAIN t /\ IsFirst(t, p, i) /\ Append(t, r)[i] = t[i]
         \/ NoMatch(t, p) /\ p \in r.paths /\ Append(t, r)[i] = r
<1>1. /\ DOMAIN Append(t, r) = 1..Len(t) + 1 /\ DOMAIN t = 1..Len(t) /\ Len(t) \in Nat
      /\ Append(t, r)[Len(t) + 1] = r
      /\ \A j \in 1..Len(t) : Append(t, r)[j] = t[j]
  OBVIOUS
<1>2. CASE i \in 1..Len(t)
  BY <1>1, <1>2 DEF IsFirst, Matches
<1>3. CASE i = Len(t) + 1
  BY <1>1, <1>3 DEF IsFirst, Matches, NoMatch
<1> QED
  BY <1>1, <1>2, <1>3

\* A path the head matches is decided by the head.
LEMMA PublicByHead ==
  ASSUME NEW t \in Seq(Route), t # <<>>, NEW p, p \in Head(t).paths
  PROVE  Public(t, p) <=> ~Head(t).require_auth
<1>1. DOMAIN t = 1..Len(t) /\ Len(t) \in Nat /\ 1 \in DOMAIN t /\ Head(t) = t[1]
  OBVIOUS
<1>2. IsFirst(t, p, 1) /\ \A i \in DOMAIN t : IsFirst(t, p, i) => i = 1
  BY <1>1 DEF IsFirst, Matches
<1> QED
  BY <1>1, <1>2 DEF Public

\* Any other path is decided by the rest.
LEMMA PublicByTail ==
  ASSUME NEW t \in Seq(Route), t # <<>>, NEW p, p \notin Head(t).paths
  PROVE  Public(t, p) <=> Public(Tail(t), p)
<1>1. /\ DOMAIN t = 1..Len(t) /\ Len(t) \in Nat /\ Len(t) >= 1 /\ Head(t) = t[1]
      /\ DOMAIN Tail(t) = 1..Len(t) - 1
      /\ \A i \in 1..Len(t) - 1 : Tail(t)[i] = t[i + 1]
  OBVIOUS
<1>2. \A i \in DOMAIN Tail(t) : IsFirst(Tail(t), p, i) <=> IsFirst(t, p, i + 1)
  <2> SUFFICES ASSUME NEW i \in DOMAIN Tail(t)
               PROVE  IsFirst(Tail(t), p, i) <=> IsFirst(t, p, i + 1)
    OBVIOUS
  <2>1. \A j \in DOMAIN Tail(t) : Matches(Tail(t), p, j) <=> Matches(t, p, j + 1)
    BY <1>1 DEF Matches
  <2>2. \A j \in DOMAIN t : Matches(t, p, j) => j - 1 \in DOMAIN Tail(t)
    BY <1>1 DEF Matches
  <2>3. \A j \in DOMAIN t : Matches(t, p, j) => Matches(Tail(t), p, j - 1)
    BY <1>1, <2>2 DEF Matches
  <2>4. ASSUME IsFirst(Tail(t), p, i) PROVE IsFirst(t, p, i + 1)
    BY <1>1, <2>1, <2>2, <2>3, <2>4 DEF IsFirst
  <2>5. ASSUME IsFirst(t, p, i + 1) PROVE IsFirst(Tail(t), p, i)
    <3>1. \A j \in DOMAIN Tail(t) : j + 1 \in DOMAIN t
      BY <1>1
    <3> QED
      BY <1>1, <2>1, <2>5, <3>1 DEF IsFirst
  <2> QED
    BY <2>4, <2>5
<1>3. \A i \in DOMAIN t : IsFirst(t, p, i) => i - 1 \in DOMAIN Tail(t) /\ (i - 1) + 1 = i
  BY <1>1 DEF IsFirst, Matches
<1>4. ASSUME Public(t, p) PROVE Public(Tail(t), p)
  <2>1. \A i \in DOMAIN Tail(t) : i + 1 \in DOMAIN t
    BY <1>1
  <2> QED
    BY <1>1, <1>2, <1>4, <2>1 DEF Public
<1>5. ASSUME Public(Tail(t), p) PROVE Public(t, p)
  <2> SUFFICES ASSUME NEW i \in DOMAIN t, IsFirst(t, p, i) PROVE ~t[i].require_auth
    BY DEF Public
  <2>1. i - 1 \in DOMAIN Tail(t) /\ (i - 1) + 1 = i
    BY <1>3
  <2>2. IsFirst(Tail(t), p, i - 1)
    BY <1>2, <2>1
  <2>3. Tail(t)[i - 1] = t[i]
    BY <1>1, <2>1
  <2> QED
    BY <1>5, <2>1, <2>2, <2>3 DEF Public
<1> QED
  BY <1>4, <1>5

-----------------------------------------------------------------------------
(***************************************************************************)
(* Authentication. Unless tables are loaded over one another, one          *)
(* administrator replaces the routes, and the routes loaded so far decide  *)
(* about a path as the submitted table does, or leave it to what is still  *)
(* to be loaded.                                                           *)
(***************************************************************************)
LoadFollows ==
  /\ \A a, b \in Replacing : a = b
  /\ \A p \in Paths, i \in DOMAIN routes :
       IsFirst(routes, p, i) => (Public(submitted, p) <=> ~routes[i].require_auth)
  /\ \A a \in Replacing : todo[a] # <<>> =>
       \A p \in Paths : NoMatch(routes, p) => (Public(submitted, p) <=> Public(todo[a], p))

Passes(r) == IsAllowed(r) /\ IsValid(r)

\* The client is known, or may have the path, or nothing is said of it.
Entitled(w) == Known(request[w]) \/ verdict[w] \in {"open", "mixed"} \/ w \in dangling

\* What a worker has read of its request and its route vouches for its client.
Vouched(w) ==
  /\ pc[w] \in {"match", "authenticate", "lookup", "forward", "store"} => Passes(request[w])
  /\ pc[w] = "authenticate" => Entitled(w) \/ route[w].require_auth
  /\ pc[w] \in {"lookup", "forward", "store"} => Entitled(w)
  /\ status[w] \in {"hit", "miss"} => Passes(request[w]) /\ Entitled(w)

AuthInv == (~mixed => LoadFollows) /\ \A w \in Workers : Vouched(w)

\* What a worker has read of its route still vouches for its client.
LEMMA WorkersKeepVouched ==
  ASSUME Typed, AuthInv, NEW w \in Workers, Arrive(w) \/ HandleRequest(w),
         NEW v \in Workers
  PROVE  Vouched(v)'
<1> USE DEF AuthInv, Vouched, Entitled, Typed, TypeOK, Remembers, Goto
<1>1. CASE Arrive(w)
  BY <1>1 DEF Arrive, shared
<1>2. CASE MatchRoute(w)
  <2>1. PICK i \in DOMAIN routes : /\ IsFirst(routes, request[w].path, i)
                                  /\ route' = [route EXCEPT ![w] = routes[i]]
    BY <1>2 DEF MatchRoute
  <2>2. ~mixed => (Public(submitted, request[w].path) <=> ~routes[i].require_auth)
    BY <1>2, <2>1, RequestType DEF MatchRoute, LoadFollows
  <2>3. verdict'[w] \in {"open", "mixed"} \/ routes[i].require_auth
    BY <1>2, <2>2 DEF MatchRoute
  <2> QED
    BY <1>2, <2>1, <2>3 DEF MatchRoute, Stage, shared
<1>3. CASE Authenticate(w)
  <2>1. w \notin dangling => Flag(w, route[w].require_auth) = {route[w].require_auth}
    BY DEF Flag
  <2>2. CASE Respond(w, "unauthorized", None)
    BY <1>3, <2>2 DEF Authenticate, Respond, Stage, shared
  <2>3. CASE Goto(w, "lookup") /\ UNCHANGED locals /\ Entitled(w)
    BY <1>3, <2>3 DEF Authenticate, locals, shared
  <2> QED
    BY <1>3, <2>1, <2>2, <2>3 DEF Authenticate
<1>4. CASE MatchUndefined(w)
  BY <1>4 DEF MatchUndefined, locals
<1>5. CASE Finish(w)
  BY <1>5 DEF Finish
<1>6. ASSUME NEW s, NEW held, Respond(w, s, held), dangling' = dangling,
             s \in {"hit", "miss"} => Passes(request[w]) /\ Entitled(w)
      PROVE  Vouched(v)'
  BY <1>6 DEF Respond, Stage
<1>7. CASE Store(w) \/ StoreFails(w)
  BY <1>6, <1>7 DEF Store, StoreFails, shared
<1>8. ASSUME pc[w] = "lookup", Miss(w), dangling' = dangling PROVE Vouched(v)'
  BY <1>8 DEF Miss
<1>9. CASE Lookup(w) \/ LookupFails(w)
  BY <1>6, <1>8, <1>9 DEF Lookup, LookupFails, shared
<1>10. CASE Forward(w)
  BY <1>10 DEF Forward, shared
<1>11. CASE Screen(w)
  <2>1. CASE Goto(w, "match") /\ UNCHANGED locals /\ Passes(request[w])
    BY <1>11, <2>1 DEF Screen, locals, shared
  <2> QED
    BY <1>6, <1>11, <2>1 DEF Screen, Passes, shared
<1>12. CASE NoRoute(w) \/ Internal(w) \/ ForwardFails(w)
  BY <1>6, <1>12 DEF NoRoute, Internal, ForwardFails, shared
<1> QED
  BY <1>1, <1>2, <1>3, <1>4, <1>5, <1>7, <1>9, <1>10, <1>11, <1>12 DEF HandleRequest

\* Loading one entry: what it matches first is decided by it, the rest by the tail.
LEMMA LoadKeepsFollowing ==
  ASSUME Typed, LoadFollows, NEW a \in Admins, AddRoute(a)
  PROVE  LoadFollows'
<1> DEFINE r == Head(todo[a])
           rest == Tail(todo[a])
<1>1. /\ a \in Replacing /\ Replacing' = Replacing /\ submitted' = submitted
      /\ todo[a] \in Seq(Route) /\ todo[a] # <<>> /\ r \in Route /\ rest \in Seq(Route)
      /\ todo'[a] = rest
      /\ routes \in Seq(Route)
  BY DEF AddRoute, Replacing, Typed, TypeOK
<1>2. \A b \in Replacing : b = a
  BY <1>1 DEF LoadFollows
<1>3. \A p \in Paths : NoMatch(routes, p) => (Public(submitted, p) <=> Public(todo[a], p))
  BY <1>1 DEF LoadFollows
<1>4. \A p \in Paths : NoMatch(routes, p) /\ p \notin r.paths => (Public(submitted, p) <=> Public(rest, p))
  BY <1>1, <1>3, PublicByTail
<1>5. \A p \in Paths : NoMatch(routes, p) /\ p \in r.paths => (Public(submitted, p) <=> ~r.require_auth)
  BY <1>1, <1>3, PublicByHead
<1>6. CASE r.paths = {} /\ routes' = routes
  BY <1>1, <1>2, <1>4, <1>6 DEF LoadFollows
<1>7. CASE routes' = Append(routes, r)
  <2>1. ASSUME NEW p \in Paths, NEW i \in DOMAIN Append(routes, r), IsFirst(Append(routes, r), p, i)
        PROVE  Public(submitted, p) <=> ~Append(routes, r)[i].require_auth
    <3>1. CASE i \in DOMAIN routes /\ IsFirst(routes, p, i) /\ Append(routes, r)[i] = routes[i]
      BY <3>1 DEF LoadFollows
    <3>2. CASE NoMatch(routes, p) /\ p \in r.paths /\ Append(routes, r)[i] = r
      BY <1>5, <3>2
    <3> QED
      BY <1>1, <2>1, <3>1, <3>2, FirstOfAppend
  <2>2. ASSUME NEW p \in Paths, NoMatch(Append(routes, r), p)
        PROVE  NoMatch(routes, p) /\ p \notin r.paths
    <3>1. /\ Len(routes) \in Nat /\ DOMAIN routes = 1..Len(routes)
          /\ DOMAIN Append(routes, r) = 1..Len(routes) + 1
          /\ Append(routes, r)[Len(routes) + 1] = r
          /\ \A j \in 1..Len(routes) : Append(routes, r)[j] = routes[j]
      BY <1>1
    <3> QED
      BY <2>2, <3>1 DEF NoMatch, Matches
  <2>3. \A p \in Paths : NoMatch(Append(routes, r), p) => (Public(submitted, p) <=> Public(rest, p))
    BY <1>4, <2>2
  <2>4. \A p \in Paths, i \in DOMAIN routes' :
          IsFirst(routes', p, i) => (Public(submitted', p) <=> ~routes'[i].require_auth)
    BY <1>1, <1>7, <2>1
  <2>5. \A b \in Replacing' : todo'[b] # <<>> =>
          \A p \in Paths : NoMatch(routes', p) => (Public(submitted', p) <=> Public(todo'[b], p))
    BY <1>1, <1>2, <1>7, <2>3
  <2> QED
    BY <1>1, <1>2, <2>4, <2>5 DEF LoadFollows
<1> QED
  BY <1>6, <1>7 DEF AddRoute

(***************************************************************************)
(* Whoever gets content that the table last submitted does not give to     *)
(* anyone is known, for every sequence of tables, whole or malformed,      *)
(* submitted while requests are served.                                    *)
(***************************************************************************)
THEOREM OnlyTheAuthorised == Spec => []AuthorisedOnly
<1>1. Init => AuthInv
  <2> SUFFICES ASSUME Init PROVE AuthInv
    OBVIOUS
  <2>1. Replacing = {}
    BY DEF Init, Replacing
  <2>2. LoadFollows
    BY <2>1, FirstDecides, PipelineAssumption DEF Init, LoadFollows
  <2>3. \A w \in Workers : Vouched(w)
    BY DEF Init, Vouched
  <2> QED
    BY <2>2, <2>3 DEF AuthInv
<1>2. Typed /\ AuthInv /\ [Next]_vars => AuthInv'
  <2> SUFFICES ASSUME Typed, AuthInv, [Next]_vars PROVE AuthInv'
    OBVIOUS
  <2>1. ASSUME NEW w \in Workers, Arrive(w) \/ HandleRequest(w) PROVE AuthInv'
    <3>1. UNCHANGED <<router, duty, todo>>
      BY <2>1 DEF HandleRequest, Arrive, Screen, NoRoute, MatchRoute, MatchUndefined, Authenticate,
         Internal, Lookup, LookupFails, Forward, ForwardFails, Store, StoreFails, Finish, shared
    <3>2. ~mixed' => LoadFollows'
      BY <3>1 DEF AuthInv, LoadFollows, Replacing, router
    <3>3. \A v \in Workers : Vouched(v)'
      BY <2>1, WorkersKeepVouched
    <3> QED
      BY <3>2, <3>3 DEF AuthInv
  <2>2. ASSUME UNCHANGED <<pc, request, route, status, verdict>>, dangling \subseteq dangling'
        PROVE  \A w \in Workers : Vouched(w)'
    BY <2>2 DEF AuthInv, Vouched, Entitled
  <2>3. ASSUME NEW a \in Admins, ClearRoutes(a) PROVE AuthInv'
    <3>1. ~mixed' => Replacing' = {a}
      BY <2>3 DEF ClearRoutes, Replacing, Typed, TypeOK
    <3>2. routes' = <<>> /\ todo'[a] = submitted'
      BY <2>3 DEF ClearRoutes, Typed, TypeOK
    <3>3. ~mixed' => LoadFollows'
      BY <3>1, <3>2 DEF LoadFollows, IsFirst, Matches
    <3> QED
      BY <2>2, <2>3, <3>3 DEF ClearRoutes, AuthInv, locals
  <2>4. ASSUME NEW a \in Admins, AddRoute(a) PROVE AuthInv'
    <3>1. /\ mixed' = mixed /\ dangling \subseteq dangling'
          /\ UNCHANGED <<pc, request, route, status, verdict>>
      BY <2>4 DEF AddRoute, locals
    <3>2. ~mixed => LoadFollows'
      BY <2>4, LoadKeepsFollowing DEF AuthInv
    <3> QED
      BY <2>2, <3>1, <3>2 DEF AuthInv
  <2>5. ASSUME NEW a \in Admins, LoadFails(a) PROVE AuthInv'
    <3>1. todo'[a] = <<>> /\ \A b \in Admins \ {a} : todo'[b] = todo[b]
      BY <2>5 DEF LoadFails, AfterBad, Typed, TypeOK
    <3>2. UNCHANGED <<routes, submitted, mixed, duty>>
      BY <2>5 DEF LoadFails, router
    <3>3. ~mixed' => LoadFollows'
      BY <3>1, <3>2 DEF AuthInv, LoadFollows, Replacing
    <3> QED
      BY <2>2, <2>5, <3>3 DEF LoadFails, AuthInv, locals
  <2>6. ASSUME NEW a \in Admins, LoadEnds(a) \/ ClearCache(a) PROVE AuthInv'
    <3>1. UNCHANGED <<router, todo, pc, locals, dangling>> /\ Replacing' \subseteq Replacing
      BY <2>6 DEF LoadEnds, ClearCache, BeginClear, ScanMore, ScanLast, Delete, ClearFails, Reply,
         served, Replacing, Typed, TypeOK
    <3> QED
      BY <2>2, <3>1 DEF AuthInv, LoadFollows, router, locals
  <2>7. ASSUME NEW p \in Paths, Expire(p) PROVE AuthInv'
    BY <2>2, <2>7 DEF Expire, served, AuthInv, LoadFollows, Replacing, router, locals
  <2>8. CASE UNCHANGED vars
    BY <2>2, <2>8 DEF vars, AuthInv, LoadFollows, Replacing, router, locals
  <2> QED
    BY <2>1, <2>3, <2>4, <2>5, <2>6, <2>7, <2>8 DEF Next, UpdateRoutes
<1>3. AuthInv => AuthorisedOnly
  BY DEF AuthInv, Vouched, Entitled, AuthorisedOnly, Passes
<1> QED
  BY <1>1, <1>2, <1>3, TypeInductive, PTL DEF Spec
=============================================================================
