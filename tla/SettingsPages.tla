--------------------------- MODULE SettingsPages ----------------------------
(***************************************************************************)
(* Administrators at the settings pages of the dashboard (src/ui/src): the *)
(* rate limit panel, the cache panel, the JSON editor and the security     *)
(* page, each in a browser of its own, the API routes of the dashboard's   *)
(* server (app/api) between them and the gateway, and the gateway's        *)
(* document, here of the mock gateway the dashboard is developed with      *)
(* (src/ui/mock-gateway.js), which keeps what is posted.                   *)
(*                                                                         *)
(* A save is a POST to an API route, which reads the document, merges what *)
(* the page sent and posts the result: two requests between which anything *)
(* may happen. The editor's route posts the text as it is, without the     *)
(* wrapping object config that the other routes write and read.            *)
(*                                                                         *)
(* Any request may fail before, while or after it does its work. A browser *)
(* stays at its page.                                                      *)
(*                                                                         *)
(* A definition that nothing uses, just before the one it varies, is a     *)
(* faulty variant: README.md says which property rejects it.               *)
(***************************************************************************)
EXTENDS RateLimitForm, CacheForm, ConfigDraft, SecurityForms

CONSTANTS
  Browsers,     \* administrators' browsers
  Visits,       \* which page each browser is at: some functions to Pages
  FirstConfig,  \* the document the gateway starts with
  MaxEvents,    \* bound on edits, tabs opened, deletions asked for and failures
  MaxSaves      \* bound on saves

Pages == {"ratelimit", "cache", "editor", "security"}
Panels == {"ratelimit", "cache"}
Sections == {"rate_limits", "cache", "jwt", "security", "server", "routes"}

ASSUME VisitsAssumption == Visits \subseteq [Browsers -> Pages]
ASSUME FirstConfigAssumption == DOMAIN FirstConfig \subseteq Sections
\* The first document's jwt section, if any, is a JWTConfig (types/gateway.ts).
ASSUME JWTAssumption ==
  "jwt" \in DOMAIN FirstConfig =>
    /\ FirstConfig["jwt"] # Undefined
    /\ DOMAIN FirstConfig["jwt"] \subseteq DOMAIN JWTDefaults
ASSUME DraftsAssumption ==
  /\ \A d \in Drafts : DOMAIN d \subseteq Sections
  /\ Undefined \notin Drafts /\ Blank \notin Drafts /\ Broken \notin Drafts
  /\ Blank # Undefined /\ Broken # Undefined

VARIABLES
  page,      \* page[b]: the page b is at
  stored,    \* mockConfig: what was posted, with or without the object config
  posts,     \* history: how many times it was replaced, its version
  query,     \* query[b]: the query of b's page
  form,      \* form[b]: what the components of b's page hold
  touched,   \* history: fields of the form edited since it was last filled
  saving,    \* saving[b]: b's save
  confirmed, \* history: confirmed[b], the version of b's last save that succeeded
  revoked,   \* history: API keys deleted and not added since
  events, saves  \* what the bounds count

ghosts == <<touched, confirmed, revoked>>
bounds == <<events, saves>>
vars == <<page, stored, posts, query, form, saving, ghosts, bounds>>

---------------------------------------------------------------------------
(* The gateway's document and what the API routes make of it.              *)

\* data.config, or what stands for it in { ...undefined }.
Config(g) == IF g.wrapped THEN g.config ELSE Empty

\* What GET of the page's API route answers.
View(p, g) ==
  CASE p = "ratelimit" -> Get(Config(g), "rate_limits", Empty)
    [] p = "cache" -> Get(Config(g), "cache", Empty)
    [] p = "editor" -> IF g.wrapped THEN g.config ELSE Undefined
    [] p = "security" -> [jwt |-> Get(Config(g), "jwt", Empty),
                          security |-> Get(Config(g), "security", Empty)]

\* Faulty: the fields the panel does not know are dropped.
MergeReplacing(config, body) == Over(config, body)

\* The panels' routes: the section's fields over those it had.
Merge(config, body) ==
  Over(config, [s \in DOMAIN body |-> Over(Get(config, s, Empty), body[s])])

\* The security route: the section as a whole.
MergeSecurity(config, body) == Over(config, body)

\* What the page's API route posts, having read copy.
Update(p, copy, body) ==
  CASE p \in Panels -> [wrapped |-> TRUE, config |-> Merge(Config(copy), body)]
    [] p = "editor" -> [wrapped |-> FALSE, config |-> body]
    [] p = "security" -> [wrapped |-> TRUE, config |-> MergeSecurity(Config(copy), body)]

IsStored(g) == /\ g \in [wrapped: BOOLEAN, config: {g.config}]
               /\ DOMAIN g.config \subseteq Sections

---------------------------------------------------------------------------
(* Saves.                                                                  *)

SavePhases == {"idle", "reading", "posting", "answered"}

NoSave ==
  [phase |-> "idle", body |-> Empty, copy |-> Undefined, base |-> 0, at |-> 0,
   shown |-> {}, fields |-> {}, added |-> {}, deleted |-> {}]

IsSave(s) ==
  /\ s \in [phase: SavePhases, body: {s.body}, copy: {s.copy}, base: Nat, at: Nat,
            shown: SUBSET Nat, fields: {s.fields}, added: {s.added}, deleted: {s.deleted}]
  /\ DOMAIN s.body \subseteq Sections
  /\ s.phase = "posting" /\ s.copy # Undefined => IsStored(s.copy)

\* isPending.
IsSaving(b) == saving[b].phase # "idle"

\* mutate(body). History: the version of the copy the page shows, if it has
\* one, and which fields and API keys the user changed.
Mutate(b, body, fields, added, deleted) ==
  /\ saves < MaxSaves
  /\ saves' = saves + 1
  /\ saving' = [saving EXCEPT ![b] =
       [NoSave EXCEPT !.phase = IF page[b] = "editor" THEN "posting" ELSE "reading",
                      !.body = body, !.fields = fields,
                      !.shown = IF query[b].loaded THEN {query[b].at} ELSE {},
                      !.added = added, !.deleted = deleted]]

SectionOf(p) == IF p = "ratelimit" THEN "rate_limits" ELSE "cache"

PanelFormOf(p, data) ==
  IF p = "ratelimit" THEN RateLimitFormOf(data) ELSE CacheFormOf(data)

PanelEdits(p, f) == IF p = "ratelimit" THEN RateLimitEdits(f) ELSE CacheEdits(f)

NewPanel(p) == [formData |-> PanelFormOf(p, Empty), hasChanges |-> FALSE]

---------------------------------------------------------------------------
Init ==
  /\ page \in Visits
  /\ stored = [wrapped |-> TRUE, config |-> FirstConfig]
  /\ posts = 0
  /\ query = [b \in Browsers |-> FirstFetch]
  /\ form = [b \in Browsers |->
       CASE page[b] \in Panels -> NewPanel(page[b])
         [] page[b] = "editor" -> NewDraft
         [] page[b] = "security" -> SecurityMounted(Undefined)]
  /\ touched = [b \in Browsers |-> {}]
  /\ saving = [b \in Browsers |-> NoSave]
  /\ confirmed = [b \in Browsers |-> 0]
  /\ revoked = {}
  /\ events = 0 /\ saves = 0

---------------------------------------------------------------------------
(* The user at the panels.                                                 *)

Edited == events < MaxEvents /\ events' = events + 1

EditPanel(b) ==
  /\ page[b] \in Panels /\ IsShown(query[b])
  /\ Edited
  /\ \E f \in PanelEdits(page[b], form[b].formData) :
       /\ form' = [form EXCEPT ![b] = [formData |-> f, hasChanges |-> TRUE]]
       /\ touched' = [touched EXCEPT ![b] = @ \cup Differ(form[b].formData, f)]
  /\ UNCHANGED <<page, stored, posts, query, saving, confirmed, revoked, saves>>

\* The save bar is there when there are changes.
SavePanel(b) ==
  /\ page[b] \in Panels /\ IsShown(query[b])
  /\ form[b].hasChanges /\ ~IsSaving(b)
  /\ Mutate(b, Put(Empty, SectionOf(page[b]), form[b].formData), touched[b], {}, {})
  /\ UNCHANGED <<page, stored, posts, query, form, ghosts, events>>

\* handleReset takes the server's fields without filling in defaults.
ResetPanel(b) ==
  /\ page[b] \in Panels /\ IsShown(query[b])
  /\ form[b].hasChanges
  /\ form' = [form EXCEPT ![b] = [formData |-> query[b].data, hasChanges |-> FALSE]]
  /\ touched' = [touched EXCEPT ![b] = {}]
  /\ UNCHANGED <<page, stored, posts, query, saving, confirmed, revoked, bounds>>

---------------------------------------------------------------------------
(* The user at the editor.                                                 *)

EditText(b) ==
  /\ page[b] = "editor" /\ IsShown(query[b])
  /\ Edited
  /\ \E text \in TypedTexts(form[b]) :
       form' = [form EXCEPT ![b] = DraftTyped(@, query[b].data, text)]
  /\ UNCHANGED <<page, stored, posts, query, saving, ghosts, saves>>

SaveText(b) ==
  /\ page[b] = "editor" /\ IsShown(query[b])
  /\ CanSaveDraft(form[b]) /\ ~IsSaving(b)
  /\ Mutate(b, form[b].text, {}, {}, {})
  /\ UNCHANGED <<page, stored, posts, query, form, ghosts, events>>

ResetText(b) ==
  /\ page[b] = "editor" /\ IsShown(query[b])
  /\ CanResetDraft(form[b])
  /\ form' = [form EXCEPT ![b] = DraftReset(@, query[b].data)]
  /\ UNCHANGED <<page, stored, posts, query, saving, ghosts, bounds>>

---------------------------------------------------------------------------
(* The user at the security page, which is there once loading is over,     *)
(* even when it failed. Its tabs share one mutation.                       *)

AtSecurity(b) == page[b] = "security" /\ ~IsLoading(query[b])

ChooseTab(b) ==
  /\ AtSecurity(b)
  /\ form[b].dialog = Undefined
  /\ Edited
  /\ \E tab \in Tabs \ {form[b].tab} :
       form' = [form EXCEPT ![b] = TabChosen(tab, query[b].data)]
  /\ touched' = [touched EXCEPT ![b] = {}]
  /\ UNCHANGED <<page, stored, posts, query, saving, confirmed, revoked, saves>>

EditJWT(b) ==
  /\ AtSecurity(b) /\ form[b].tab = "jwt"
  /\ Edited
  /\ \E f \in JWTEdits(form[b].jwt.formData) :
       /\ form' = [form EXCEPT ![b].jwt = JWTChanged(@, f)]
       /\ touched' = [touched EXCEPT ![b] = @ \cup Differ(form[b].jwt.formData, f)]
  /\ UNCHANGED <<page, stored, posts, query, saving, confirmed, revoked, saves>>

SubmitJWT(b) ==
  /\ AtSecurity(b) /\ form[b].tab = "jwt"
  /\ form[b].jwt.hasChanges /\ ~IsSaving(b)
  /\ form' = [form EXCEPT ![b].jwt = JWTSubmitted(@)]
  /\ Mutate(b, HandleJWTUpdate(form[b].jwt.formData), touched[b], {}, {})
  /\ UNCHANGED <<page, stored, posts, query, ghosts, events>>

AddKey(b) ==
  /\ AtSecurity(b) /\ form[b].tab = "apikeys"
  /\ form[b].dialog = Undefined /\ ~IsSaving(b)
  /\ \E id \in KeyIds, key \in NewKeys :
       /\ CanAddKey(id)
       /\ Mutate(b, HandleAPIKeyAdd(SecurityConfigOf(query[b].data), id, key),
                 {"api_keys"}, {id}, {})
  /\ UNCHANGED <<page, stored, posts, query, form, ghosts, events>>

AddAddress(b) ==
  /\ AtSecurity(b) /\ form[b].tab = "ipfilter"
  /\ form[b].dialog = Undefined /\ ~IsSaving(b)
  /\ \E kind \in IPKinds, ip \in IPs :
       /\ CanAddIP(SecurityConfigOf(query[b].data), kind, ip)
       /\ Mutate(b, AddIP(SecurityConfigOf(query[b].data), kind, ip), {kind}, {}, {})
  /\ UNCHANGED <<page, stored, posts, query, form, ghosts, events>>

DeleteClick(b) ==
  /\ AtSecurity(b) /\ form[b].dialog = Undefined /\ ~IsSaving(b)
  /\ Edited
  /\ \E d \in DeleteButtons(form[b], query[b].data) :
       form' = [form EXCEPT ![b].dialog = d]
  /\ UNCHANGED <<page, stored, posts, query, saving, ghosts, saves>>

DeleteCancel(b) ==
  /\ AtSecurity(b) /\ form[b].dialog # Undefined
  /\ form' = [form EXCEPT ![b].dialog = Undefined]
  /\ UNCHANGED <<page, stored, posts, query, saving, ghosts, bounds>>

DeleteConfirm(b) ==
  /\ AtSecurity(b) /\ form[b].dialog # Undefined /\ ~IsSaving(b)
  /\ form' = [form EXCEPT ![b].dialog = Undefined]
  /\ LET d == form[b].dialog IN
       Mutate(b, ConfirmedDeletion(d, query[b].data), {d.kind}, {},
              IF d.kind = "api_keys" THEN {d.target} ELSE {})
  /\ UNCHANGED <<page, stored, posts, query, ghosts, events>>

---------------------------------------------------------------------------
(* The API routes and the gateway.                                         *)

\* The route reads the document it will merge into.
RouteReads(b) ==
  /\ saving[b].phase = "reading"
  /\ saving' = [saving EXCEPT ![b].phase = "posting", ![b].copy = stored,
                              ![b].base = posts]
  /\ UNCHANGED <<page, stored, posts, query, form, ghosts, bounds>>

\* body.jwt || currentData.config.jwt throws when config is missing, since
\* the page sends one of the two sections.
RouteThrows(b) ==
  page[b] = "security" /\ saving[b].phase = "posting" /\ ~saving[b].copy.wrapped

\* The route posts and the gateway keeps what it is sent.
RoutePosts(b) ==
  /\ saving[b].phase = "posting" /\ ~RouteThrows(b)
  /\ stored' = Update(page[b], saving[b].copy, saving[b].body)
  /\ posts' = posts + 1
  /\ saving' = [saving EXCEPT ![b].phase = "answered", ![b].copy = Undefined,
                              ![b].at = posts + 1]
  /\ revoked' = (revoked \ saving[b].added) \cup saving[b].deleted
  /\ UNCHANGED <<page, query, form, touched, confirmed, bounds>>

Fails == events < MaxEvents /\ events' = events + 1

\* The save is reported as failed: the route threw, or a request or a reply
\* was lost, the last after the gateway has done it. The pages leave their
\* forms as they are.
SaveFails(b) ==
  /\ IsSaving(b)
  /\ IF RouteThrows(b) THEN UNCHANGED events ELSE Fails
  /\ saving' = [saving EXCEPT ![b] = NoSave]
  /\ UNCHANGED <<page, stored, posts, query, form, ghosts, saves>>

\* Faulty: the copies are not fetched again.
AfterSaveNothing(q) == q

\* onSuccess of the hooks: invalidateQueries, for the page's query.
AfterSave(q) == Invalidated(q)

\* onSuccess of the call to mutate, where the page has one.
SavedForm(b) ==
  CASE page[b] \in Panels -> [form[b] EXCEPT !.hasChanges = FALSE]
    [] page[b] = "editor" -> DraftSaved(form[b], query[b].data, saving[b].body)
    [] page[b] = "security" -> form[b]

Saved(b) ==
  /\ saving[b].phase = "answered"
  /\ saving' = [saving EXCEPT ![b] = NoSave]
  /\ query' = [query EXCEPT ![b] = AfterSave(@)]
  /\ form' = [form EXCEPT ![b] = SavedForm(b)]
  /\ confirmed' = [confirmed EXCEPT ![b] = IF query[b].loaded THEN saving[b].at ELSE @]
  /\ UNCHANGED <<page, stored, posts, touched, revoked, bounds>>

---------------------------------------------------------------------------
(* The queries.                                                            *)

\* Faulty: no refetchInterval.
RefetchDueNever(q) == FALSE

\* refetchInterval has passed.
RefetchDue(q) == q.phase = "idle"

Refetch(b) ==
  /\ RefetchDue(query[b])
  /\ query' = [query EXCEPT ![b] = StartFetch(@)]
  /\ UNCHANGED <<page, stored, posts, form, saving, ghosts, bounds>>

FetchAnswered(b) ==
  /\ query[b].phase = "sent"
  /\ query' = [query EXCEPT ![b] = Answered(@, View(page[b], stored), posts)]
  /\ UNCHANGED <<page, stored, posts, form, saving, ghosts, bounds>>

\* The effects of the page's components, when the answer is news.
FilledForm(b) ==
  LET got == query[b].got IN
  CASE page[b] \in Panels ->
         [formData |-> PanelFormOf(page[b], got), hasChanges |-> FALSE]
    [] page[b] = "editor" -> DraftSynced(form[b], got)
    [] page[b] = "security" /\ ~query[b].loaded -> SecurityMounted(got)
    [] page[b] = "security" /\ query[b].loaded ->
         IF form[b].tab = "jwt" /\ got.jwt # query[b].data.jwt
         THEN [form[b] EXCEPT !.jwt = JWTSynced(@, got.jwt)]
         ELSE form[b]

\* History: the form was filled with what the server has.
Refilled(b) ==
  \/ page[b] \in Panels
  \/ page[b] = "security" /\ (query[b].loaded => query[b].got.jwt # query[b].data.jwt)

FetchArrives(b) ==
  /\ query[b].phase = "answered"
  /\ query' = [query EXCEPT ![b] = Arrived(@)]
  /\ IF IsNews(query[b])
     THEN /\ form' = [form EXCEPT ![b] = FilledForm(b)]
          /\ touched' = [touched EXCEPT ![b] = IF Refilled(b) THEN {} ELSE @]
     ELSE UNCHANGED <<form, touched>>
  /\ UNCHANGED <<page, stored, posts, saving, confirmed, revoked, bounds>>

\* Without a copy the security page shows its content all the same.
FetchFails(b) ==
  /\ query[b].phase # "idle"
  /\ Fails
  /\ query' = [query EXCEPT ![b] = Failed(@)]
  /\ form' = [form EXCEPT ![b] =
       IF page[b] = "security" /\ ~query[b].loaded THEN SecurityMounted(Undefined) ELSE @]
  /\ UNCHANGED <<page, stored, posts, saving, ghosts, saves>>

---------------------------------------------------------------------------
UserSteps(b) ==
  \/ EditPanel(b) \/ SavePanel(b) \/ ResetPanel(b)
  \/ EditText(b) \/ SaveText(b) \/ ResetText(b)
  \/ ChooseTab(b) \/ EditJWT(b) \/ SubmitJWT(b) \/ AddKey(b) \/ AddAddress(b)
  \/ DeleteClick(b) \/ DeleteCancel(b) \/ DeleteConfirm(b)

SaveSteps(b) == RouteReads(b) \/ RoutePosts(b) \/ SaveFails(b) \/ Saved(b)

QuerySteps(b) == Refetch(b) \/ FetchAnswered(b) \/ FetchArrives(b) \/ FetchFails(b)

Next == \E b \in Browsers : UserSteps(b) \/ SaveSteps(b) \/ QuerySteps(b)

\* Requests are answered or fail, and the timers of the queries go on.
Fairness ==
  \A b \in Browsers : /\ WF_vars(SaveSteps(b))
                     /\ WF_vars(Refetch(b))
                     /\ WF_vars(FetchAnswered(b))
                     /\ WF_vars(FetchArrives(b))

Spec == Init /\ [][Next]_vars /\ Fairness

---------------------------------------------------------------------------
(* Properties.                                                             *)

\* The types of the queries, the saves, the forms and the document.
IsForm(p, f) ==
  CASE p \in Panels -> f \in [formData: {f.formData}, hasChanges: BOOLEAN]
    [] p = "editor" -> IsDraft(f)
    [] p = "security" -> IsSecurityPage(f)

TypeOK ==
  /\ page \in [Browsers -> Pages]
  /\ IsStored(stored)
  /\ posts \in Nat /\ events \in Nat /\ saves \in Nat
  /\ confirmed \in [Browsers -> Nat]
  /\ DOMAIN query = Browsers /\ \A b \in Browsers : IsQuery(query[b])
  /\ DOMAIN saving = Browsers /\ \A b \in Browsers : IsSave(saving[b])
  /\ DOMAIN form = Browsers /\ \A b \in Browsers : IsForm(page[b], form[b])
  /\ DOMAIN touched = Browsers

\* A page never settles on a copy older than a save it has reported as
\* successful: a fetch that the save overtook is not taken for an answer.
\* Saves of a page that had no copy yet are not counted (see Saved).
ReadYourWrites ==
  \A b \in Browsers :
    query[b].phase = "idle" /\ IsShown(query[b]) => query[b].at >= confirmed[b]

\* The save of b that reaches the gateway was made of the latest document,
\* by the page and by its API route.
IsCurrent(b) ==
  /\ saving[b].phase = "posting" /\ page[b] # "editor"
  /\ stored.wrapped /\ saving[b].base = posts /\ saving[b].shown = {posts}

\* The section the page is about, given what it sends.
Written(b) == CHOOSE s \in DOMAIN saving[b].body : TRUE

WasBlank(s, k, old) ==
  k \notin DOMAIN old \/ (s = "jwt" /\ k \in DOMAIN JWTBlank /\ old[k] = JWTBlank[k])

\* Between old and new only what b's user changed is different, and fields
\* that were missing or empty, which the forms fill in.
OnlyAsked(b, old, new) ==
  LET s == Written(b)
      was == Get(old, s, Empty)
      is == Get(new, s, Empty) IN
  /\ Differ(old, new) \subseteq {s}
  /\ \A k \in Differ(was, is) : k \in saving[b].fields \/ WasBlank(s, k, was)
  /\ s = "security" =>
       Differ(KeysOf(was), KeysOf(is)) \subseteq saving[b].added \cup saving[b].deleted

\* A save made of the latest document changes what its user changed and
\* nothing else, though form, page, API route and gateway each replace whole
\* objects.
SavesChangeOnlyWhatWasAsked ==
  [][\A b \in Browsers :
       IsCurrent(b) /\ posts' # posts /\ saving'[b].phase = "answered" =>
         OnlyAsked(b, Config(stored), Config(stored'))]_vars

\* What is typed into the editor is changed by nobody else: no answer to a
\* fetch or step of another browser touches it before its user resets or
\* has saved it.
EditorKeepsDraft ==
  [][\A b \in Browsers :
       /\ page[b] = "editor" /\ form[b].hasChanges
       /\ form'[b].text # form[b].text
       => EditText(b) \/ ResetText(b) \/ Saved(b)]_vars

\* Once nobody saves any more every page comes to show what the gateway has.
CopiesConverge ==
  <>[](\A b \in Browsers : query[b].loaded /\ query[b].data = View(page[b], stored))

\* An API key whose deletion the gateway has accepted is gone until it is
\* added again.
RevokedStaysRevoked ==
  revoked \cap DOMAIN KeysOf(Get(Config(stored), "security", Empty)) = {}
=============================================================================
