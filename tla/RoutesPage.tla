----------------------------- MODULE RoutesPage -----------------------------
(***************************************************************************)
(* Administrators at the routes page of the dashboard (src/ui/src/app/     *)
(* routes/page.tsx, lib/hooks/useRoutes.ts), each in a browser of its own, *)
(* and the gateway, which replaces its routes by what is posted to         *)
(* /admin/routes (src/src/admin/AdminAPI.cpp; the API route app/api/routes *)
(* passes requests on). A page sends its whole list, made of its copy at   *)
(* the moment of the click, with one row added, replaced or left out; the  *)
(* row is known by its index.                                              *)
(*                                                                         *)
(* The three mutations are independent: a deletion may be under way while  *)
(* a row is added. The router takes a list in one step here; that requests *)
(* may use it meanwhile is about RequestPipeline.                          *)
(***************************************************************************)
EXTENDS RouteForm

CONSTANTS
  Browsers,     \* administrators' browsers
  FirstRoutes,  \* the list in the configuration file
  MaxEvents,    \* bound on dialogs opened, changes of a form, sorts and failures
  MaxSaves      \* bound on saves

IsList(list) == list \in Seq({list[n] : n \in DOMAIN list})

\* A route as a page edits it.
IsRoute(r) ==
  /\ {"path", "timeout", "require_auth"} \subseteq DOMAIN r
  /\ "backends" \in DOMAIN r => IsList(r["backends"]) /\ Len(r["backends"]) > 0

IsRoutes(list) == IsList(list) /\ \A n \in DOMAIN list : IsRoute(list[n])

\* A route leads to one place at most.
HasOneTarget(r) == \A s, t \in Targets \cap DOMAIN r : s = t

ASSUME FirstRoutesAssumption ==
  /\ IsRoutes(FirstRoutes)
  /\ \A n \in DOMAIN FirstRoutes : HasOneTarget(FirstRoutes[n])

VARIABLES
  router,  \* routes_: the gateway's routes
  posts,   \* history: how many times they were replaced, their version
  query,   \* query[b]: the query "routes" of b
  table,   \* table[b]: how b's table is sorted
  dialog,  \* dialog[b]: the open dialog, or Undefined
  saving,  \* saving[b][m]: b's mutation m
  events, saves  \* what the bounds count

bounds == <<events, saves>>
vars == <<router, posts, query, table, dialog, saving, bounds>>

Mutations == {"add", "update", "delete"}
SavePhases == {"idle", "posting", "answered"}

NoSave == [phase |-> "idle", list |-> <<>>, shown |-> {}]

\* currentRoutes, or the routes the page lists.
Current(b) == IF query[b].loaded THEN query[b].data ELSE <<>>

\* The version of the copy the page has, if it has one.
ShownVersion(b) == IF query[b].loaded THEN {query[b].at} ELSE {}

IsPending(b, m) == saving[b][m].phase # "idle"

\* History: the version that both the copy of now and the row in the dialog
\* are of.
RowVersion(b) == IF dialog[b].versions = ShownVersion(b) THEN ShownVersion(b) ELSE {}

\* mutate: history says what the list was made of.
Mutate(b, m, list, shown) ==
  /\ saves < MaxSaves
  /\ saves' = saves + 1
  /\ saving' = [saving EXCEPT ![b][m] =
       [phase |-> "posting", list |-> list, shown |-> shown]]

Event == events < MaxEvents /\ events' = events + 1

Init ==
  /\ router = Loaded(FirstRoutes)
  /\ posts = 0
  /\ query = [b \in Browsers |-> FirstFetch]
  /\ table = [b \in Browsers |-> Unsorted]
  /\ dialog = [b \in Browsers |-> Undefined]
  /\ saving = [b \in Browsers |-> [m \in Mutations |-> NoSave]]
  /\ events = 0 /\ saves = 0

---------------------------------------------------------------------------
(* The user.                                                               *)

\* The header of a column is clicked; an empty table has none.
Sort(b) ==
  /\ dialog[b] = Undefined /\ Current(b) # <<>>
  /\ Event
  /\ \E column \in Columns : table' = [table EXCEPT ![b] = HandleSort(@, column)]
  /\ UNCHANGED <<router, posts, query, dialog, saving, saves>>

\* handleAddRoute: the button is there even while the list is loading.
OpenNew(b) ==
  /\ dialog[b] = Undefined
  /\ Event
  /\ dialog' = [dialog EXCEPT ![b] =
       [kind |-> "add", index |-> 0, shown |-> Undefined, versions |-> {},
        form |-> NewForm]]
  /\ UNCHANGED <<router, posts, query, table, saving, saves>>

\* handleEditRoute: the form takes the route as it is now. Table and page know
\* the row by its place in the table.
OpenEdit(b) ==
  /\ dialog[b] = Undefined
  /\ Event
  /\ \E n \in DOMAIN Current(b), order \in SortedOrders(table[b], Current(b)) :
       LET route == Current(b)[order[n]] IN
       dialog' = [dialog EXCEPT ![b] =
         [kind |-> "update", index |-> n, shown |-> route,
          versions |-> ShownVersion(b), form |-> FormOf(route)]]
  /\ UNCHANGED <<router, posts, query, table, saving, saves>>

\* handleDeleteClick. The dialog tells the path at the index, so that nothing
\* is kept of the row clicked.
OpenDelete(b) ==
  /\ dialog[b] = Undefined
  /\ Event
  /\ \E n \in DOMAIN Current(b) :
       dialog' = [dialog EXCEPT ![b] =
         [kind |-> "delete", index |-> n, shown |-> Undefined,
          versions |-> ShownVersion(b), form |-> Undefined]]
  /\ UNCHANGED <<router, posts, query, table, saving, saves>>

IsFormOpen(b) == dialog[b] # Undefined /\ dialog[b].kind \in {"add", "update"}

EditRoute(b) ==
  /\ IsFormOpen(b)
  /\ Event
  /\ \E f \in RouteEdits(dialog[b].form) : dialog' = [dialog EXCEPT ![b].form = f]
  /\ UNCHANGED <<router, posts, query, table, saving, saves>>

\* handleFormCancel, or the dialog is closed.
Cancel(b) ==
  /\ dialog[b] # Undefined
  /\ dialog' = [dialog EXCEPT ![b] = Undefined]
  /\ UNCHANGED <<router, posts, query, table, saving, bounds>>

IsFormBusy(b) == IsPending(b, "add") \/ IsPending(b, "update")

\* updatedRoutes[index] = route, where an index beyond the end leaves holes.
Replaced(list, index, route) ==
  [n \in 1..(IF index > Len(list) THEN index ELSE Len(list)) |->
     IF n = index THEN route
     ELSE IF n \in DOMAIN list THEN list[n] ELSE Hole]

\* currentRoutes.filter((_, i) => i !== index)
LeftOut(list, index) == Kept(list, DOMAIN list \ {index})

SubmitNew(b) ==
  /\ IsFormOpen(b) /\ dialog[b].kind = "add"
  /\ CanSubmit(dialog[b].form) /\ ~IsFormBusy(b)
  /\ Mutate(b, "add", Append(Current(b), Submitted(dialog[b].form)), ShownVersion(b))
  /\ dialog' = [dialog EXCEPT ![b] = Undefined]
  /\ UNCHANGED <<router, posts, query, table, events>>

SubmitEdit(b) ==
  /\ IsFormOpen(b) /\ dialog[b].kind = "update"
  /\ CanSubmit(dialog[b].form) /\ ~IsFormBusy(b)
  /\ Mutate(b, "update",
            Replaced(Current(b), dialog[b].index, Submitted(dialog[b].form)),
            RowVersion(b))
  /\ dialog' = [dialog EXCEPT ![b] = Undefined]
  /\ UNCHANGED <<router, posts, query, table, events>>

ConfirmDelete(b) ==
  /\ dialog[b] # Undefined /\ dialog[b].kind = "delete"
  /\ ~IsPending(b, "delete")
  /\ Mutate(b, "delete", LeftOut(Current(b), dialog[b].index), RowVersion(b))
  /\ dialog' = [dialog EXCEPT ![b] = Undefined]
  /\ UNCHANGED <<router, posts, query, table, events>>

---------------------------------------------------------------------------
(* The gateway and the queries.                                            *)

\* AdminAPI::handleUpdateRoutes replies success even when loading broke off.
GatewayLoads(b, m) ==
  /\ saving[b][m].phase = "posting"
  /\ router' = Loaded(saving[b][m].list)
  /\ posts' = posts + 1
  /\ saving' = [saving EXCEPT ![b][m].phase = "answered"]
  /\ UNCHANGED <<query, table, dialog, bounds>>

\* The mutation fails, before or after the gateway has done it.
SaveFails(b, m) ==
  /\ IsPending(b, m)
  /\ Event
  /\ saving' = [saving EXCEPT ![b][m] = NoSave]
  /\ UNCHANGED <<router, posts, query, table, dialog, saves>>

\* onSuccess.
Saved(b, m) ==
  /\ saving[b][m].phase = "answered"
  /\ saving' = [saving EXCEPT ![b][m] = NoSave]
  /\ query' = [query EXCEPT ![b] = Invalidated(@)]
  /\ UNCHANGED <<router, posts, table, dialog, bounds>>

Refetch(b) ==
  /\ query[b].phase = "idle"
  /\ query' = [query EXCEPT ![b] = StartFetch(@)]
  /\ UNCHANGED <<router, posts, table, dialog, saving, bounds>>

FetchAnswered(b) ==
  /\ query[b].phase = "sent"
  /\ query' = [query EXCEPT ![b] = Answered(@, RoutesJSON(router), posts)]
  /\ UNCHANGED <<router, posts, table, dialog, saving, bounds>>

FetchArrives(b) ==
  /\ query[b].phase = "answered"
  /\ query' = [query EXCEPT ![b] = Arrived(@)]
  /\ UNCHANGED <<router, posts, table, dialog, saving, bounds>>

FetchFails(b) ==
  /\ query[b].phase # "idle"
  /\ Event
  /\ query' = [query EXCEPT ![b] = Failed(@)]
  /\ UNCHANGED <<router, posts, table, dialog, saving, saves>>

---------------------------------------------------------------------------
UserSteps(b) ==
  \/ Sort(b) \/ OpenNew(b) \/ OpenEdit(b) \/ OpenDelete(b) \/ EditRoute(b)
  \/ Cancel(b) \/ SubmitNew(b) \/ SubmitEdit(b) \/ ConfirmDelete(b)

SaveSteps(b, m) == GatewayLoads(b, m) \/ SaveFails(b, m) \/ Saved(b, m)

QuerySteps(b) == Refetch(b) \/ FetchAnswered(b) \/ FetchArrives(b) \/ FetchFails(b)

Next ==
  \E b \in Browsers :
    UserSteps(b) \/ QuerySteps(b) \/ \E m \in Mutations : SaveSteps(b, m)

Spec == Init /\ [][Next]_vars

---------------------------------------------------------------------------
(* Properties.                                                             *)

IsForm(f) ==
  /\ f \in [formData: {f.formData}, backends: {f.backends}, mode: Modes]
  /\ IsList(f.backends) /\ Len(f.backends) > 0
  /\ IsRoute(f.formData)

IsDialog(d) ==
  /\ d \in [kind: Mutations, index: Nat, shown: {d.shown}, versions: SUBSET Nat,
            form: {d.form}]
  /\ d.kind # "delete" => IsForm(d.form)

IsSave(s) ==
  /\ s \in [phase: SavePhases, list: {s.list}, shown: SUBSET Nat]
  /\ IsList(s.list)
  /\ \A n \in DOMAIN s.list : s.list[n] = Hole \/ IsRoute(s.list[n])

\* The types of the queries, the tables, the dialogs and the mutations: every
\* route that is listed, edited or posted has the fields the pages rely on,
\* every form has a box for a backend, and no list of backends is empty.
TypeOK ==
  /\ posts \in Nat /\ events \in Nat /\ saves \in Nat
  /\ DOMAIN query = Browsers
  /\ \A b \in Browsers : IsQuery(query[b]) /\ IsRoutes(Current(b))
  /\ table \in [Browsers -> [by: Columns \cup {Undefined}, asc: BOOLEAN]]
  /\ DOMAIN dialog = Browsers
  /\ \A b \in Browsers : dialog[b] = Undefined \/ IsDialog(dialog[b])
  /\ DOMAIN saving = Browsers
  /\ \A b \in Browsers : /\ DOMAIN saving[b] = Mutations
                          /\ \A m \in Mutations : IsSave(saving[b][m])

\* However a user has gone through the kinds of backend before submitting,
\* a route that is posted or listed leads to one place: a handler, a backend
\* or a list of backends. (The router would silently prefer one of them.)
OneTarget ==
  \A b \in Browsers :
    /\ \A m \in Mutations : \A n \in DOMAIN saving[b][m].list :
         HasOneTarget(saving[b][m].list[n])
    /\ \A n \in DOMAIN Current(b) : HasOneTarget(Current(b)[n])

\* At most the row at place n is different.
SameBut(old, new, n) ==
  \/ /\ Len(new) = Len(old)
     /\ \A k \in DOMAIN old : k # n => new[k] = old[k]
  \/ new = LeftOut(old, n)

\* A save whose list and row were taken from what the gateway has changes,
\* adds or removes one route there and no other, although every route goes
\* through the page and back into the router; unless it gives a row a path of
\* which no regular expression is made: then that row and all below it are
\* lost, and the reply is success.
SaveChangesOneRow ==
  [][\A b \in Browsers, m \in Mutations :
       /\ saving[b][m].phase = "posting" /\ saving'[b][m].phase = "answered"
       /\ saving[b][m].shown = {posts}
       => CASE m = "add" -> /\ Len(router') <= Len(router) + 1
                            /\ SubSeq(router', 1, Len(router)) = router
            [] m = "update" ->
                 \E n \in DOMAIN router :
                   \/ SameBut(router, router', n)
                   \/ /\ BreaksOff(saving[b][m].list[n])
                      /\ router' = SubSeq(router, 1, n - 1)
            [] m = "delete" -> \E n \in DOMAIN router : router' = LeftOut(router, n)]_vars

\* The row that an edit replaces is the one whose Edit button was clicked,
\* when the list has not changed since.
EditHitsTheRowShown ==
  [][\A b \in Browsers :
       SubmitEdit(b) /\ dialog[b].versions = ShownVersion(b) =>
         Current(b)[dialog[b].index] = dialog[b].shown]_vars
=============================================================================
