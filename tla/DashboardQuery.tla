--------------------------- MODULE DashboardQuery ---------------------------
(***************************************************************************)
(* A query of the dashboard (src/ui/src/lib/hooks): the copy of a gateway  *)
(* document that a page keeps, fetched through lib/api/client.ts, fetched  *)
(* again by a timer and when the page has saved something. Also what       *)
(* JavaScript does with the objects that pages and API routes exchange.    *)
(*                                                                         *)
(* External: React Query, which keeps the copy (components/providers/      *)
(* QueryProvider.tsx). A fetch that invalidateQueries finds in flight is   *)
(* dropped when there is a copy to show meanwhile, and joined when there   *)
(* is none; an answer with the content of the copy leaves the object as it *)
(* is, so that no effect of a page runs.                                   *)
(*                                                                         *)
(* A version numbers the states of the gateway's document: it is history,  *)
(* the program knows none.                                                 *)
(***************************************************************************)
EXTENDS Naturals

CONSTANT Undefined  \* JavaScript's undefined

---------------------------------------------------------------------------
(* Objects are functions from the names they have to values.               *)

Empty == [k \in {} |-> Undefined]

\* { ...a, ...b }
Over(a, b) ==
  [k \in DOMAIN a \cup DOMAIN b |-> IF k \in DOMAIN b THEN b[k] ELSE a[k]]

\* { ...a, [k]: v }
Put(a, k, v) == [j \in DOMAIN a \cup {k} |-> IF j = k THEN v ELSE a[j]]

\* const { [k]: _, ...rest } = a
Without(a, k) == [j \in DOMAIN a \ {k} |-> a[j]]

\* a.k ?? v
Get(a, k, v) == IF k \in DOMAIN a THEN a[k] ELSE v

\* The names under which a and b differ.
Differ(a, b) ==
  {k \in DOMAIN a \cup DOMAIN b :
     ~(k \in DOMAIN a /\ k \in DOMAIN b /\ a[k] = b[k])}

\* parseInt(text) || default, where 0 stands for text without a number.
Number(n, default) == IF n = 0 THEN default ELSE n

---------------------------------------------------------------------------
(* A query: the copy (data, once loaded), the version it shows (at), the   *)
(* error of the last fetch, and the fetch under way: sent, then answered   *)
(* by the API route with got, which shows version gotAt.                   *)

FetchPhases == {"idle", "sent", "answered"}

IsQuery(q) ==
  q \in [loaded: BOOLEAN, data: {q.data}, at: Nat, error: BOOLEAN,
         phase: FetchPhases, got: {q.got}, gotAt: Nat]

\* A page mounts: nothing is loaded and the first fetch is sent.
FirstFetch ==
  [loaded |-> FALSE, data |-> Undefined, at |-> 0, error |-> FALSE,
   phase |-> "sent", got |-> Undefined, gotAt |-> 0]

IsLoading(q) == ~q.loaded /\ q.phase # "idle"

\* isLoading is over and there is no error.
IsShown(q) == q.loaded /\ ~q.error

\* A fetch starts. Without a copy it takes the error of the last one away.
StartFetch(q) ==
  [q EXCEPT !.phase = "sent", !.error = q.loaded /\ q.error,
            !.got = Undefined, !.gotAt = 0]

\* The API route has read the gateway's document.
Answered(q, value, version) ==
  [q EXCEPT !.phase = "answered", !.got = value, !.gotAt = version]

\* The answer is not what the copy already holds: effects of the page run.
IsNews(q) == ~q.loaded \/ q.got # q.data

Arrived(q) ==
  [q EXCEPT !.loaded = TRUE, !.data = q.got, !.at = q.gotAt, !.error = FALSE,
            !.phase = "idle", !.got = Undefined, !.gotAt = 0]

\* The request, its repetition (retry: 1) or the API route failed.
Failed(q) ==
  [q EXCEPT !.error = TRUE, !.phase = "idle", !.got = Undefined, !.gotAt = 0]

\* queryClient.invalidateQueries: what is in flight may be old.
Invalidated(q) == IF IsLoading(q) THEN q ELSE StartFetch(q)
=============================================================================
