----------------------------- MODULE RouteForm ------------------------------
(***************************************************************************)
(* Routes as the dashboard edits them: the form for one route (src/ui/src/ *)
(* components/routes/RouteForm.tsx), the table that lists them             *)
(* (RouteTable.tsx), and what the gateway's router makes of the list       *)
(* (src/src/router/Router.cpp). A route of the dashboard is an object with *)
(* some of the fields of a RouteConfig; where it leads is handler, backend *)
(* or backends. Indices count from 1.                                      *)
(*                                                                         *)
(* A definition that nothing uses, just before the one it varies, is a     *)
(* faulty variant: README.md says which property rejects it.               *)
(***************************************************************************)
EXTENDS DashboardQuery, Sequences, FiniteSets

CONSTANTS
  Paths,     \* typed as paths; " " for a blank one
  URLs,      \* typed as URLs; "" and " " among them
  Timeouts,  \* numbers typed that the form lets through; 0 for none
  Prefixes,  \* typed as a prefix or a rewritten path; "" for none
  Rank,      \* Rank[p]: the place of path p in the alphabet
  NoRegex    \* paths of which patternToRegex makes no regular expression

\* It makes one of the empty text.
ASSUME NoRegexAssumption == "" \notin NoRegex

\* What filter leaves of a list, given the places to keep: the n-th element
\* is at the place up to which n are kept.
Place(places, n) == CHOOSE p \in places : Cardinality(places \cap 1..p) = n

Kept(list, places) == [n \in 1..Cardinality(places) |-> list[Place(places, n)]]

Trim(text) == IF text = " " THEN "" ELSE text

\* delete r.k for every k in K
Delete(r, K) == [k \in DOMAIN r \ K |-> r[k]]

Targets == {"handler", "backend", "backends"}
Modes == {"single", "multiple", "handler"}
Handlers == {"health_check", "status"}
Strategies == {"round_robin", "least_connections", "random"}

---------------------------------------------------------------------------
(* The form: formData, backends and backendMode.                           *)

NewRoute == [path |-> "", timeout |-> 3000, require_auth |-> FALSE]

\* The form for a new route.
NewForm == [formData |-> NewRoute, backends |-> <<"">>, mode |-> "single"]

\* The form for a route there is, with the effect that fills it in.
FormOf(route) ==
  [formData |-> route,
   backends |-> IF "backends" \in DOMAIN route THEN route["backends"]
                ELSE IF "backend" \in DOMAIN route THEN <<route["backend"]>>
                ELSE <<"">>,
   mode |-> IF "handler" \in DOMAIN route THEN "handler"
            ELSE IF "backends" \in DOMAIN route THEN "multiple" ELSE "single"]

Change(f, field, value) == [f EXCEPT !.formData = Put(@, field, value)]

PathInput(f) == {Change(f, "path", p) : p \in Paths}

ChooseMode(f, mode) ==
  [f EXCEPT !.mode = mode,
            !.formData = IF mode = "handler" THEN Put(@, "handler", "health_check")
                         ELSE Delete(@, {"handler"})]

BackendType(f) == {ChooseMode(f, mode) : mode \in Modes \ {f.mode}}

HandlerFunction(f) ==
  IF f.mode = "handler" THEN {Change(f, "handler", h) : h \in Handlers} ELSE {}

AddBackend(f) == [f EXCEPT !.backends = Append(@, "")]

RemoveBackend(f, i) ==
  [f EXCEPT !.backends = Kept(@, DOMAIN @ \ {i})]

UpdateBackend(f, i, url) == [f EXCEPT !.backends[i] = url]

\* Faulty: the last box has a button to remove it, too.
BackendURLsToNone(f) ==
  IF f.mode = "handler" THEN {}
  ELSE {UpdateBackend(f, i, url) : i \in DOMAIN f.backends, url \in URLs}
         \cup (IF f.mode = "multiple" THEN {AddBackend(f)} ELSE {})
         \cup (IF f.mode = "multiple" THEN {RemoveBackend(f, i) : i \in DOMAIN f.backends}
               ELSE {})

BackendURLs(f) ==
  IF f.mode = "handler" THEN {}
  ELSE {UpdateBackend(f, i, url) : i \in DOMAIN f.backends, url \in URLs}
         \cup (IF f.mode = "multiple" THEN {AddBackend(f)} ELSE {})
         \cup (IF f.mode = "multiple" /\ Len(f.backends) > 1
               THEN {RemoveBackend(f, i) : i \in DOMAIN f.backends} ELSE {})

LoadBalancing(f) ==
  IF f.mode = "multiple" THEN {Change(f, "load_balancing", s) : s \in Strategies} ELSE {}

TimeoutAndAuth(f) ==
  {Change(f, "timeout", Number(n, 3000)) : n \in Timeouts}
    \cup {Change(f, "require_auth", on) : on \in BOOLEAN}

RewritePath(f) == {Change(f, "rewrite", p) : p \in Prefixes}

StripPrefix(f) == {Change(f, "strip_prefix", p) : p \in Prefixes}

\* An input or a choice tells of a change only.
RouteEdits(f) ==
  (PathInput(f) \cup BackendType(f) \cup HandlerFunction(f) \cup BackendURLs(f)
    \cup LoadBalancing(f) \cup TimeoutAndAuth(f) \cup RewritePath(f) \cup StripPrefix(f))
    \ {f}

\* The browser lets the form through: required inputs are not empty.
CanSubmit(f) ==
  /\ f.formData.path # ""
  /\ f.mode = "single" \/ (f.mode = "multiple" /\ Len(f.backends) = 1)
       => \A i \in DOMAIN f.backends : f.backends[i] # ""

IsText(url) == Trim(url) # ""

\* validBackends.
ValidBackends(f) == Kept(f.backends, {i \in DOMAIN f.backends : IsText(f.backends[i])})

\* Faulty: in single mode the list of backends stays.
WithTargetKeeping(f, route) ==
  LET valid == ValidBackends(f) IN
  CASE f.mode = "handler" -> Delete(route, {"backend", "backends", "load_balancing"})
    [] f.mode = "multiple" ->
         IF valid = <<>> THEN route
         ELSE Put(Delete(route, {"backend", "handler"}), "backends", valid)
    [] f.mode = "single" ->
         IF ~IsText(f.backends[1]) THEN route
         ELSE Put(Delete(route, {"handler", "load_balancing"}), "backend", Trim(f.backends[1]))

\* handleSubmit, the part that leaves one target.
WithTarget(f, route) ==
  LET valid == ValidBackends(f) IN
  CASE f.mode = "handler" -> Delete(route, {"backend", "backends", "load_balancing"})
    [] f.mode = "multiple" ->
         IF valid = <<>> THEN route
         ELSE Put(Delete(route, {"backend", "handler"}), "backends", valid)
    [] f.mode = "single" ->
         IF ~IsText(f.backends[1]) THEN route
         ELSE Put(Delete(route, {"backends", "handler", "load_balancing"}),
                  "backend", Trim(f.backends[1]))

Submitted(f) ==
  LET route == WithTarget(f, Put(f.formData, "path", Trim(f.formData.path)))
  IN  Delete(route, {k \in {"rewrite", "strip_prefix"} : Get(route, k, "") = ""})

---------------------------------------------------------------------------
(* The table.                                                              *)

Columns == {"path", "timeout", "require_auth"}

\* sortBy and sortOrder.
Unsorted == [by |-> Undefined, asc |-> TRUE]

HandleSort(t, column) ==
  IF t.by = column THEN [t EXCEPT !.asc = ~@] ELSE [by |-> column, asc |-> TRUE]

SortKey(route, column) ==
  CASE column = "path" -> Rank[route.path]
    [] column = "timeout" -> route.timeout
    [] column = "require_auth" -> IF route.require_auth THEN 1 ELSE 0

ComesBefore(t, routes, i, j) ==
  LET a == SortKey(routes[i], t.by)
      b == SortKey(routes[j], t.by)
  IN  IF a = b THEN i < j ELSE (a < b) = t.asc

\* sortedRoutes: the places the rows have in routes. The sort is stable, so
\* that there is one such order.
SortedOrders(t, routes) ==
  LET rows == DOMAIN routes IN
  IF t.by = Undefined THEN {[n \in rows |-> n]}
  ELSE {order \in [rows -> rows] :
          \A m, n \in rows : m < n => ComesBefore(t, routes, order[m], order[n])}

---------------------------------------------------------------------------
(* The router.                                                             *)

\* One element of the array "routes".
RouteOf(json) ==
  [path_pattern |-> Get(json, "path", ""),
   timeout_ms |-> Get(json, "timeout", 5000),
   require_auth |-> Get(json, "require_auth", FALSE),
   strip_prefix |-> Get(json, "strip_prefix", ""),
   handler |-> Get(json, "handler", ""),
   load_balancing |-> Get(json, "load_balancing", "round_robin"),
   backends |-> IF "backend" \in DOMAIN json THEN <<json["backend"]>>
                ELSE Get(json, "backends", <<>>)]

\* What assigning beyond the end of an array leaves: it is sent as null, of
\* which no field can be read.
Hole == Empty

\* loadRoutes throws at a hole, and at a path such as "/{id}": patternToRegex
\* escapes the backslash last, those of its own escapes included, so that
\* std::regex is left with a bare bracket or brace.
BreaksOff(json) == json = Hole \/ Get(json, "path", "") \in NoRegex

\* Router::loadRoutes after clearRoutes: a route without a path is passed
\* over, and when one makes it throw the routes before that stay.
Loaded(list) ==
  LET read == {n \in DOMAIN list : \A m \in 1..n : ~BreaksOff(list[m])}
      kept == Kept(list, {n \in read : Get(list[n], "path", "") # ""})
  IN  [n \in DOMAIN kept |-> RouteOf(kept[n])]

\* Faulty: only the first of several backends is told.
ExportedFirst(route) ==
  LET fields == [path |-> route.path_pattern, timeout |-> route.timeout_ms,
                 require_auth |-> route.require_auth, handler |-> route.handler,
                 strip_prefix |-> route.strip_prefix,
                 load_balancing |-> route.load_balancing]
      given == Delete(fields, {k \in {"handler", "strip_prefix", "load_balancing"} :
                                 fields[k] = ""})
  IN  IF Len(route.backends) = 0 THEN given ELSE Put(given, "backend", route.backends[1])

\* One element of what Router::getRoutesJSON returns: rewrite is not kept.
Exported(route) ==
  LET fields == [path |-> route.path_pattern, timeout |-> route.timeout_ms,
                 require_auth |-> route.require_auth, handler |-> route.handler,
                 strip_prefix |-> route.strip_prefix,
                 load_balancing |-> route.load_balancing]
      given == Delete(fields, {k \in {"handler", "strip_prefix", "load_balancing"} :
                                 fields[k] = ""})
  IN  CASE Len(route.backends) = 0 -> given
        [] Len(route.backends) = 1 -> Put(given, "backend", route.backends[1])
        [] Len(route.backends) > 1 -> Put(given, "backends", route.backends)

RoutesJSON(router) == [n \in DOMAIN router |-> Exported(router[n])]
=============================================================================
