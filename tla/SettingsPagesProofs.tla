------------------------ MODULE SettingsPagesProofs ------------------------
(***************************************************************************)
(* The settings pages for any browsers at any pages, any documents, texts, *)
(* keys and addresses: the types, that no page settles on a copy older     *)
(* than its own save, that nobody writes over a draft of the editor, and   *)
(* that a save changes what its user asked to change.                      *)
(***************************************************************************)
EXTENDS SettingsPages, TLAPS

---------------------------------------------------------------------------
(* Queries.                                                                *)

\* A query stays one, whatever happens to it.
LEMMA QueryTypes ==
  ASSUME NEW q, IsQuery(q), NEW value, NEW version \in Nat
  PROVE  /\ IsQuery(StartFetch(q))
         /\ IsQuery(Answered(q, value, version))
         /\ IsQuery(Arrived(q))
         /\ IsQuery(Failed(q))
         /\ IsQuery(Invalidated(q))
BY DEF IsQuery, FetchPhases, StartFetch, Answered, Arrived, Failed, Invalidated, IsLoading

\* A query holds what was fetched, at the version it was fetched at.
LEMMA QueryFields ==
  ASSUME NEW q, IsQuery(q), NEW value, NEW version \in Nat
  PROVE  /\ StartFetch(q).phase = "sent"
         /\ StartFetch(q).loaded = q.loaded /\ StartFetch(q).data = q.data
         /\ StartFetch(q).at = q.at
         /\ StartFetch(q).got = Undefined /\ StartFetch(q).gotAt = 0
         /\ Answered(q, value, version) =
              [q EXCEPT !.phase = "answered", !.got = value, !.gotAt = version]
         /\ Arrived(q).loaded /\ ~Arrived(q).error /\ Arrived(q).phase = "idle"
         /\ Arrived(q).data = q.got /\ Arrived(q).at = q.gotAt
         /\ Arrived(q).got = Undefined /\ Arrived(q).gotAt = 0
         /\ Failed(q).error /\ Failed(q).phase = "idle"
         /\ Failed(q).data = q.data /\ Failed(q).at = q.at
         /\ Failed(q).got = Undefined /\ Failed(q).gotAt = 0
         /\ Failed(q).loaded = q.loaded
BY DEF IsQuery, StartFetch, Answered, Arrived, Failed

---------------------------------------------------------------------------
(* The inductive invariant.                                                *)

\* A text of the editor that is JSON is a document.
IsTextOf(t) == IsJSON(t) => DOMAIN t \subseteq Sections

\* What the editor's query holds is a document, if anything.
IsFetched(d) == d = Undefined \/ DOMAIN d \subseteq Sections

Documents ==
  \A b \in Browsers :
    /\ page[b] = "editor" => /\ IsTextOf(form[b].text) /\ IsTextOf(form[b].server)
                             /\ IsFetched(query[b].data) /\ IsFetched(query[b].got)
    /\ page[b] # "editor" /\ saving[b].phase = "posting" => IsStored(saving[b].copy)

\* No version is one that the gateway has not reached.
Reached ==
  \A b \in Browsers :
    /\ saving[b].at <= posts /\ saving[b].base <= posts
    /\ query[b].at <= posts /\ query[b].gotAt <= posts
    /\ confirmed[b] <= posts

\* An answer on its way is at least as new as the page's last save, since
\* that made the query start again.
Fresh ==
  \A b \in Browsers : query[b].phase = "answered" => query[b].gotAt >= confirmed[b]

IInv == TypeOK /\ Documents /\ Reached /\ Fresh /\ ReadYourWrites

---------------------------------------------------------------------------
\* What the form of each page is.
LEMMA FormTypes ==
  ASSUME NEW p, NEW f
  PROVE  /\ p \in Panels =>
              (IsForm(p, f) <=> f \in [formData: {f.formData}, hasChanges: BOOLEAN])
         /\ p = "editor" => (IsForm(p, f) <=> IsDraft(f))
         /\ p = "security" => (IsForm(p, f) <=> IsSecurityPage(f))
<1>1. p \in Panels => p # "editor" /\ p # "security"
  BY DEF Panels
<1> QED
  BY <1>1 DEF IsForm

\* JWT settings that are mounted are mounted.
LEMMA MountedType ==
  ASSUME NEW data, NEW tab \in Tabs
  PROVE  IsSecurityPage(SecurityMounted(data)) /\ IsSecurityPage(TabChosen(tab, data))
<1>1. \A c : JWTMounted(c) \in [formData: {JWTMounted(c).formData}, hasChanges: BOOLEAN]
  BY DEF JWTMounted
<1>2. IsSecurityPage(SecurityMounted(data))
  BY <1>1 DEF SecurityMounted, IsSecurityPage, Tabs
<1>3. CASE tab = "jwt"
  BY <1>1, <1>2, <1>3 DEF TabChosen, IsSecurityPage
<1>4. CASE tab # "jwt"
  <2>1. TabChosen(tab, data) = [tab |-> tab, dialog |-> Undefined, jwt |-> Undefined]
    BY <1>4 DEF TabChosen
  <2> QED
    BY <1>2, <1>4, <2>1 DEF IsSecurityPage
<1> QED
  BY <1>2, <1>3, <1>4

\* At first.
LEMMA InitIInv == ASSUME Init PROVE IInv
<1> USE DEF Init, Empty
<1>1. page \in [Browsers -> Pages]
  BY VisitsAssumption
<1>2. \A b \in Browsers : IsQuery(query[b])
  BY DEF IsQuery, FirstFetch, FetchPhases
<1>3. \A b \in Browsers : IsSave(saving[b])
  BY DEF IsSave, NoSave, SavePhases
<1>4. \A b \in Browsers : IsForm(page[b], form[b])
  <2> SUFFICES ASSUME NEW b \in Browsers PROVE IsForm(page[b], form[b])
    OBVIOUS
  <2>1. CASE page[b] \in Panels
    <3>1. form[b] = NewPanel(page[b])
      BY <2>1 DEF Panels
    <3> QED
      BY <2>1, <3>1, FormTypes DEF NewPanel
  <2>2. CASE page[b] = "editor"
    <3>1. form[b] = NewDraft
      BY <2>2 DEF Panels
    <3> QED
      BY <2>2, <3>1, FormTypes DEF NewDraft, IsDraft
  <2>3. CASE page[b] = "security"
    <3>1. form[b] = SecurityMounted(Undefined)
      BY <2>3 DEF Panels
    <3> QED
      BY <2>3, <3>1, MountedType, FormTypes DEF Tabs
  <2> QED
    BY <1>1, <2>1, <2>2, <2>3 DEF Pages, Panels
<1>5. IsStored(stored)
  BY FirstConfigAssumption DEF IsStored
<1>6. TypeOK
  BY <1>1, <1>2, <1>3, <1>4, <1>5 DEF TypeOK
<1>7. Documents
  BY DEF Documents, IsTextOf, IsJSON, IsFetched, NewDraft, FirstFetch, NoSave, Panels
<1>8. Reached /\ Fresh /\ ReadYourWrites
  BY DEF Reached, Fresh, ReadYourWrites, FirstFetch, NoSave
<1> QED
  BY <1>6, <1>7, <1>8 DEF IInv

---------------------------------------------------------------------------
(* The steps. What a step leaves alone keeps its part of the invariant.    *)

\* Steps of the user that save nothing change a form.
LEMMA FormStep ==
  ASSUME IInv, NEW b \in Browsers, NEW f,
         IsForm(page[b], f),
         page[b] = "editor" => IsTextOf(f.text) /\ IsTextOf(f.server),
         form' = [form EXCEPT ![b] = f],
         UNCHANGED <<page, stored, posts, query, saving, confirmed>>,
         saves' \in Nat, events' \in Nat, DOMAIN touched' = Browsers
  PROVE  IInv'
<1>1. TypeOK'
  BY DEF IInv, TypeOK
<1>2. Documents'
  BY DEF IInv, TypeOK, Documents
<1> QED
  BY <1>1, <1>2 DEF IInv, Reached, Fresh, ReadYourWrites

\* A save starts; the dialog or the flag of a form may change with it.
LEMMA MutateStep ==
  ASSUME IInv, NEW b \in Browsers, NEW body, NEW fields, NEW added, NEW deleted,
         DOMAIN body \subseteq Sections,
         Mutate(b, body, fields, added, deleted),
         DOMAIN form' = Browsers,
         \A c \in Browsers : IsForm(page[c], form'[c])
                             /\ (page[c] = "editor" => form'[c] = form[c]),
         UNCHANGED <<page, stored, posts, query, ghosts, events>>
  PROVE  IInv'
<1> DEFINE s == [NoSave EXCEPT !.phase = IF page[b] = "editor" THEN "posting" ELSE "reading",
                      !.body = body, !.fields = fields,
                      !.shown = IF query[b].loaded THEN {query[b].at} ELSE {},
                      !.added = added, !.deleted = deleted]
<1>1. saves' \in Nat /\ saving' = [saving EXCEPT ![b] = s]
  BY DEF Mutate, IInv, TypeOK
<1>2. query[b].at \in Nat /\ query[b].loaded \in BOOLEAN
  BY DEF IInv, TypeOK, IsQuery
<1>3. /\ IsSave(s)
      /\ page[b] # "editor" => s.phase = "reading"
      /\ s.at = 0 /\ s.base = 0
  BY <1>2 DEF NoSave, IsSave, SavePhases, Empty
<1> HIDE DEF s
<1>4. TypeOK'
  BY <1>1, <1>3 DEF IInv, TypeOK, ghosts
<1>5. Documents'
  BY <1>1, <1>3 DEF IInv, TypeOK, Documents, ghosts
<1>6. Reached'
  BY <1>1, <1>3 DEF IInv, TypeOK, Reached, ghosts
<1> QED
  BY <1>4, <1>5, <1>6 DEF IInv, Fresh, ReadYourWrites, ghosts

\* The query of one page changes, with its form or without.
LEMMA QueryStep ==
  ASSUME IInv, NEW b \in Browsers, NEW q, NEW f,
         IsQuery(q), IsForm(page[b], f),
         page[b] = "editor" => /\ IsTextOf(f.text) /\ IsTextOf(f.server)
                               /\ IsFetched(q.data) /\ IsFetched(q.got),
         q.at <= posts, q.gotAt <= posts,
         q.phase = "answered" => q.gotAt >= confirmed[b],
         q.phase = "idle" /\ IsShown(q) => q.at >= confirmed[b],
         query' = [query EXCEPT ![b] = q],
         form' = [form EXCEPT ![b] = f] \/ (f = form[b] /\ UNCHANGED form),
         UNCHANGED <<page, stored, posts, saving, confirmed>>,
         saves' \in Nat, events' \in Nat, DOMAIN touched' = Browsers
  PROVE  IInv'
<1>1. TypeOK'
  BY DEF IInv, TypeOK
<1>2. Documents'
  BY DEF IInv, TypeOK, Documents
<1>3. Reached'
  BY DEF IInv, TypeOK, Reached
<1>4. Fresh' /\ ReadYourWrites'
  BY DEF IInv, TypeOK, Fresh, ReadYourWrites
<1> QED
  BY <1>1, <1>2, <1>3, <1>4 DEF IInv

\* The save of one page changes.
LEMMA SavingStep ==
  ASSUME IInv, NEW b \in Browsers, NEW s,
         IsSave(s), s.at <= posts, s.base <= posts,
         page[b] # "editor" /\ s.phase = "posting" => IsStored(s.copy),
         saving' = [saving EXCEPT ![b] = s],
         UNCHANGED <<page, stored, posts, query, form, touched, confirmed>>,
         saves' \in Nat, events' \in Nat
  PROVE  IInv'
<1>1. TypeOK'
  BY DEF IInv, TypeOK
<1>2. Documents'
  BY DEF IInv, TypeOK, Documents
<1>3. Reached'
  BY DEF IInv, TypeOK, Reached
<1> QED
  BY <1>1, <1>2, <1>3 DEF IInv, Fresh, ReadYourWrites

---------------------------------------------------------------------------
(* The editor.                                                             *)

\* The effect keeps a draft a draft of documents.
LEMMA DraftSyncedType ==
  ASSUME NEW e, IsDraft(e), IsTextOf(e.text), IsTextOf(e.server),
         NEW config, IsFetched(config)
  PROVE  LET n == DraftSynced(e, config) IN
         /\ IsDraft(n) /\ IsTextOf(n.text) /\ IsTextOf(n.server)
         /\ n.hasChanges = e.hasChanges
         /\ e.hasChanges => n.text = e.text
BY DEF DraftSynced, IsDraft, IsTextOf, IsFetched

\* So does the effect that may follow a handler.
LEMMA AfterHandlerType ==
  ASSUME NEW e, NEW n, IsDraft(n), IsTextOf(n.text), IsTextOf(n.server),
         NEW config, IsFetched(config)
  PROVE  LET m == AfterHandler(e, n, config) IN
         IsDraft(m) /\ IsTextOf(m.text) /\ IsTextOf(m.server)
BY DraftSyncedType DEF AfterHandler

\* Typing, saving and resetting keep a draft one.
LEMMA DraftTypes ==
  ASSUME NEW e, IsDraft(e), IsTextOf(e.text), IsTextOf(e.server),
         NEW config, IsFetched(config),
         NEW text, IsTextOf(text)
  PROVE  /\ LET m == DraftTyped(e, config, text) IN
            IsDraft(m) /\ IsTextOf(m.text) /\ IsTextOf(m.server)
         /\ LET m == DraftSaved(e, config, text) IN
            IsDraft(m) /\ IsTextOf(m.text) /\ IsTextOf(m.server)
         /\ LET m == DraftReset(e, config) IN
            IsDraft(m) /\ IsTextOf(m.text) /\ IsTextOf(m.server)
<1> DEFINE typed == [e EXCEPT !.text = text, !.hasChanges = text # e.server,
                              !.jsonError = ~IsJSON(text)]
           saved == [e EXCEPT !.hasChanges = FALSE, !.server = text]
           reset == [e EXCEPT !.text = e.server, !.hasChanges = FALSE, !.jsonError = FALSE]
<1>1. IsDraft(typed) /\ typed.text = text /\ typed.server = e.server
  BY DEF IsDraft
<1>2. IsDraft(saved) /\ saved.text = e.text /\ saved.server = text
  BY DEF IsDraft
<1>3. IsDraft(reset) /\ reset.text = e.server /\ reset.server = e.server
  BY DEF IsDraft
<1>4. /\ DraftTyped(e, config, text) = AfterHandler(e, typed, config)
      /\ DraftSaved(e, config, text) = AfterHandler(e, saved, config)
      /\ DraftReset(e, config) = AfterHandler(e, reset, config)
  BY DEF DraftTyped, DraftSaved, DraftReset
<1> HIDE DEF typed, saved, reset
<1> QED
  BY <1>1, <1>2, <1>3, <1>4, AfterHandlerType

---------------------------------------------------------------------------
(* The actions.                                                            *)

\* Every step of the user.
LEMMA UserStep == ASSUME IInv, NEW b \in Browsers, UserSteps(b) PROVE IInv'
<1> USE DEF ghosts, bounds
<1>a. /\ \A c \in Browsers : IsForm(page[c], form[c])
      /\ IsQuery(query[b]) /\ IsSave(saving[b])
      /\ saves \in Nat /\ events \in Nat /\ DOMAIN touched = Browsers
      /\ DOMAIN form = Browsers
  BY DEF IInv, TypeOK
<1>b. page[b] = "editor" =>
        /\ IsDraft(form[b])
        /\ IsTextOf(form[b].text) /\ IsTextOf(form[b].server) /\ IsFetched(query[b].data)
  BY <1>a, FormTypes DEF IInv, Documents
<1>c. page[b] = "security" => IsSecurityPage(form[b])
  BY <1>a, FormTypes
<1>d. page[b] \in Panels \/ page[b] = "security" => page[b] # "editor"
  BY DEF Panels
<1>f. Edited => events' \in Nat
  BY <1>a DEF Edited
<1>1. CASE EditPanel(b)
  <2>1. PICK f \in PanelEdits(page[b], form[b].formData) :
          form' = [form EXCEPT ![b] = [formData |-> f, hasChanges |-> TRUE]]
    BY <1>1 DEF EditPanel
  <2>2. IsForm(page[b], [formData |-> f, hasChanges |-> TRUE])
    BY <1>1, FormTypes DEF EditPanel
  <2> QED
    BY <1>1, <1>a, <1>f, <1>d, <2>1, <2>2, FormStep DEF EditPanel
<1>2. CASE SavePanel(b)
  <2>1. DOMAIN Put(Empty, SectionOf(page[b]), form[b].formData) \subseteq Sections
    BY DEF Put, Empty, SectionOf, Sections
  <2> QED
    BY <1>2, <2>1, <1>a, MutateStep DEF SavePanel
<1>3. CASE ResetPanel(b)
  <2>1. IsForm(page[b], [formData |-> query[b].data, hasChanges |-> FALSE])
    BY <1>3, FormTypes DEF ResetPanel
  <2> QED
    BY <1>3, <1>a, <1>d, <2>1, FormStep DEF ResetPanel
<1>4. CASE EditText(b)
  <2>1. PICK text \in TypedTexts(form[b]) :
          form' = [form EXCEPT ![b] = DraftTyped(form[b], query[b].data, text)]
    BY <1>4, <1>a DEF EditText
  <2>2. IsTextOf(text)
    BY <1>4, <1>b, DraftsAssumption DEF EditText, TypedTexts, IsTextOf, IsJSON
  <2>3. LET m == DraftTyped(form[b], query[b].data, text) IN
        IsForm(page[b], m) /\ IsTextOf(m.text) /\ IsTextOf(m.server)
    BY <1>4, <1>b, <2>2, DraftTypes, FormTypes DEF EditText
  <2> QED
    BY <1>4, <1>a, <1>f, <2>1, <2>3, FormStep DEF EditText
<1>5. CASE SaveText(b)
  <2>1. DOMAIN form[b].text \subseteq Sections
    BY <1>5, <1>b DEF SaveText, CanSaveDraft, IsTextOf
  <2> QED
    BY <1>5, <2>1, <1>a, MutateStep DEF SaveText
<1>6. CASE ResetText(b)
  <2>1. form' = [form EXCEPT ![b] = DraftReset(form[b], query[b].data)]
    BY <1>6, <1>a DEF ResetText
  <2>2. LET m == DraftReset(form[b], query[b].data) IN
        IsForm(page[b], m) /\ IsTextOf(m.text) /\ IsTextOf(m.server)
    BY <1>6, <1>b, DraftTypes, FormTypes DEF ResetText
  <2> QED
    BY <1>6, <1>a, <2>1, <2>2, FormStep DEF ResetText
<1>7. CASE ChooseTab(b)
  <2>1. PICK tab \in Tabs : form' = [form EXCEPT ![b] = TabChosen(tab, query[b].data)]
    BY <1>7 DEF ChooseTab
  <2>2. IsForm(page[b], TabChosen(tab, query[b].data))
    BY <1>7, MountedType, FormTypes DEF ChooseTab, AtSecurity
  <2> QED
    BY <1>7, <1>a, <1>f, <1>d, <2>1, <2>2, FormStep DEF ChooseTab, AtSecurity
<1>8. CASE EditJWT(b)
  <2>1. PICK f \in JWTEdits(form[b].jwt.formData) :
          form' = [form EXCEPT ![b].jwt = JWTChanged(@, f)]
    BY <1>8 DEF EditJWT
  <2> DEFINE m == [form[b] EXCEPT !.jwt = JWTChanged(@, f)]
  <2>2. IsSecurityPage(m)
    BY <1>8, <1>c DEF EditJWT, AtSecurity, IsSecurityPage, JWTChanged
  <2>3. form' = [form EXCEPT ![b] = m]
    BY <2>1, <1>a
  <2> HIDE DEF m
  <2>4. IsForm(page[b], m)
    BY <1>8, <2>2, FormTypes DEF EditJWT, AtSecurity
  <2> QED
    BY <1>8, <1>a, <1>f, <1>d, <2>3, <2>4, FormStep DEF EditJWT, AtSecurity
<1>9. CASE SubmitJWT(b)
  <2> DEFINE m == [form[b] EXCEPT !.jwt = JWTSubmitted(@)]
  <2>1. IsSecurityPage(m)
    BY <1>9, <1>c DEF SubmitJWT, AtSecurity, IsSecurityPage, JWTSubmitted
  <2>2. form' = [form EXCEPT ![b] = m]
    BY <1>9, <1>a DEF SubmitJWT
  <2> HIDE DEF m
  <2>3. IsForm(page[b], m)
    BY <1>9, <2>1, FormTypes DEF SubmitJWT, AtSecurity
  <2>4. DOMAIN HandleJWTUpdate(form[b].jwt.formData) \subseteq Sections
    BY DEF HandleJWTUpdate, Sections
  <2> QED
    BY <1>9, <1>a, <1>d, <2>2, <2>3, <2>4, MutateStep DEF SubmitJWT, AtSecurity
<1>10. CASE AddKey(b)
  <2>1. PICK id \in KeyIds, key \in NewKeys :
          Mutate(b, HandleAPIKeyAdd(SecurityConfigOf(query[b].data), id, key),
                 {"api_keys"}, {id}, {})
    BY <1>10 DEF AddKey
  <2>2. DOMAIN HandleAPIKeyAdd(SecurityConfigOf(query[b].data), id, key) \subseteq Sections
    BY DEF HandleAPIKeyAdd, Sections
  <2> QED
    BY <1>10, <2>1, <2>2, <1>a, MutateStep DEF AddKey
<1>11. CASE AddAddress(b)
  <2>1. PICK kind \in IPKinds, ip \in IPs :
          Mutate(b, AddIP(SecurityConfigOf(query[b].data), kind, ip), {kind}, {}, {})
    BY <1>11 DEF AddAddress
  <2>2. DOMAIN AddIP(SecurityConfigOf(query[b].data), kind, ip) \subseteq Sections
    BY DEF AddIP, HandleIPFilterUpdate, Sections
  <2> QED
    BY <1>11, <2>1, <2>2, <1>a, MutateStep DEF AddAddress
<1> DEFINE With(d) == [form[b] EXCEPT !.dialog = d]
<1>e. page[b] = "security" =>
        \A d : IsForm(page[b], With(d)) /\ form[b] = [form[b] EXCEPT !.dialog = form[b].dialog]
  BY <1>c, FormTypes DEF IsSecurityPage
<1>12. CASE DeleteClick(b)
  <2>1. PICK d : form' = [form EXCEPT ![b] = With(d)]
    BY <1>12, <1>a DEF DeleteClick
  <2> QED
    BY <1>12, <1>a, <1>f, <1>d, <1>e, <2>1, FormStep DEF DeleteClick, AtSecurity
<1>13. CASE DeleteCancel(b)
  <2>1. form' = [form EXCEPT ![b] = With(Undefined)]
    BY <1>13, <1>a DEF DeleteCancel
  <2> QED
    BY <1>13, <1>a, <1>d, <1>e, <2>1, FormStep DEF DeleteCancel, AtSecurity
<1>14. CASE DeleteConfirm(b)
  <2> DEFINE d == form[b].dialog
             body == ConfirmedDeletion(d, query[b].data)
  <2>1. form' = [form EXCEPT ![b] = With(Undefined)]
    BY <1>14, <1>a DEF DeleteConfirm
  <2>2. DOMAIN body \subseteq Sections
    BY DEF ConfirmedDeletion, HandleAPIKeyDelete, RemoveIP, HandleIPFilterUpdate, Sections
  <2>3. Mutate(b, body, {d.kind}, {}, IF d.kind = "api_keys" THEN {d.target} ELSE {})
    BY <1>14 DEF DeleteConfirm
  <2> HIDE DEF d, body
  <2> QED
    BY <1>14, <1>a, <1>d, <1>e, <2>1, <2>2, <2>3, MutateStep DEF DeleteConfirm, AtSecurity
<1> QED
  BY <1>1, <1>2, <1>3, <1>4, <1>5, <1>6, <1>7, <1>8, <1>9, <1>10, <1>11, <1>12, <1>13,
     <1>14 DEF UserSteps

\* The document that is posted has sections only.
LEMMA UpdateType ==
  ASSUME NEW p \in Pages, NEW copy, NEW body, DOMAIN body \subseteq Sections,
         p # "editor" => IsStored(copy)
  PROVE  IsStored(Update(p, copy, body))
<1>1. p # "editor" => DOMAIN Config(copy) \subseteq Sections
  BY DEF IsStored, Config, Empty
<1>2. CASE p \in Panels
  <2>1. Update(p, copy, body) = [wrapped |-> TRUE, config |-> Merge(Config(copy), body)]
    BY <1>2 DEF Update, Panels
  <2>2. DOMAIN Merge(Config(copy), body) \subseteq Sections
    BY <1>1, <1>2 DEF Merge, Over, Panels
  <2> QED
    BY <2>1, <2>2 DEF IsStored
<1>3. CASE p = "editor"
  BY <1>3 DEF Update, Panels, IsStored
<1>4. CASE p = "security"
  <2>1. Update(p, copy, body)
          = [wrapped |-> TRUE, config |-> MergeSecurity(Config(copy), body)]
    BY <1>4 DEF Update, Panels
  <2>2. DOMAIN MergeSecurity(Config(copy), body) \subseteq Sections
    BY <1>1, <1>4 DEF MergeSecurity, Over
  <2> QED
    BY <2>1, <2>2 DEF IsStored
<1> QED
  BY <1>2, <1>3, <1>4 DEF Pages, Panels

\* What the callbacks of a save make of the form.
LEMMA SavedFormType ==
  ASSUME IInv, NEW b \in Browsers
  PROVE  /\ IsForm(page[b], SavedForm(b))
         /\ page[b] = "editor" => IsTextOf(SavedForm(b).text) /\ IsTextOf(SavedForm(b).server)
<1>a. /\ IsForm(page[b], form[b]) /\ IsSave(saving[b]) /\ page[b] \in Pages
  BY DEF IInv, TypeOK
<1>1. CASE page[b] \in Panels
  <2>1. SavedForm(b) = [form[b] EXCEPT !.hasChanges = FALSE]
    BY <1>1 DEF SavedForm, Panels
  <2>2. form[b] \in [formData: {form[b].formData}, hasChanges: BOOLEAN]
    BY <1>a, <1>1, FormTypes
  <2>3. /\ SavedForm(b).formData = form[b].formData
        /\ SavedForm(b) \in [formData: {form[b].formData}, hasChanges: BOOLEAN]
    BY <2>1, <2>2
  <2> QED
    BY <1>1, <2>3, FormTypes DEF Panels
<1>2. CASE page[b] = "editor"
  <2>1. SavedForm(b) = DraftSaved(form[b], query[b].data, saving[b].body)
    BY <1>2 DEF SavedForm, Panels
  <2>2. IsTextOf(saving[b].body)
    BY <1>a DEF IsSave, IsTextOf
  <2>3. /\ IsDraft(form[b]) /\ IsTextOf(form[b].text) /\ IsTextOf(form[b].server)
        /\ IsFetched(query[b].data)
    BY <1>a, <1>2, FormTypes DEF IInv, Documents
  <2> QED
    BY <1>2, <2>1, <2>2, <2>3, DraftTypes, FormTypes
<1>3. CASE page[b] = "security"
  BY <1>a, <1>3 DEF SavedForm, Panels
<1> QED
  BY <1>a, <1>1, <1>2, <1>3 DEF Pages, Panels

\* A reported save starts the query of its page again, so that the answer
\* to a fetch the save overtook is dropped.
LEMMA SavedStep == ASSUME IInv, NEW b \in Browsers, Saved(b) PROVE IInv'
<1> DEFINE q == AfterSave(query[b])
           v == IF query[b].loaded THEN saving[b].at ELSE confirmed[b]
<1>a. /\ IsQuery(query[b]) /\ IsSave(saving[b]) /\ posts \in Nat
      /\ saving[b].at <= posts /\ confirmed[b] <= posts /\ query[b].at <= posts
      /\ query[b].gotAt <= posts /\ confirmed[b] \in Nat
      /\ DOMAIN saving = Browsers /\ DOMAIN query = Browsers /\ DOMAIN form = Browsers
  BY DEF IInv, TypeOK, Reached
<1>b. UNCHANGED <<page, stored, posts, touched, events, saves>>
  BY DEF Saved, bounds
<1>1. /\ saving' = [saving EXCEPT ![b] = NoSave]
      /\ query' = [query EXCEPT ![b] = q]
      /\ form' = [form EXCEPT ![b] = SavedForm(b)]
      /\ confirmed' = [confirmed EXCEPT ![b] = v]
  BY <1>a DEF Saved, IInv, TypeOK
<1>2. IsSave(NoSave) /\ NoSave.at = 0 /\ NoSave.base = 0 /\ NoSave.phase = "idle"
  BY DEF NoSave, IsSave, SavePhases, Empty
<1>3. IsQuery(q)
  BY <1>a, QueryTypes DEF AfterSave
<1>4. /\ query[b].loaded => q.phase = "sent"
      /\ q.at = query[b].at /\ q.data = query[b].data
      /\ (q.phase = "sent" /\ q.got = Undefined /\ q.gotAt = 0) \/ q = query[b]
      /\ q.loaded = query[b].loaded
  BY <1>a, QueryFields DEF AfterSave, Invalidated, IsLoading
<1>5. v \in Nat /\ v <= posts /\ (~query[b].loaded => v = confirmed[b])
  BY <1>a DEF IsSave
<1> HIDE DEF q, v
<1>6. TypeOK'
  <2>1. confirmed' \in [Browsers -> Nat]
    BY <1>1, <1>5 DEF IInv, TypeOK
  <2>2. DOMAIN form' = Browsers /\ \A c \in Browsers : IsForm(page[c], form'[c])
    BY <1>1, SavedFormType DEF IInv, TypeOK
  <2>3. DOMAIN query' = Browsers /\ \A c \in Browsers : IsQuery(query'[c])
    BY <1>1, <1>3 DEF IInv, TypeOK
  <2>4. DOMAIN saving' = Browsers /\ \A c \in Browsers : IsSave(saving'[c])
    BY <1>1, <1>2 DEF IInv, TypeOK
  <2> QED
    BY <1>b, <2>1, <2>2, <2>3, <2>4 DEF IInv, TypeOK
<1>7. Documents'
  <2> SUFFICES ASSUME NEW c \in Browsers
               PROVE /\ page[c] = "editor" =>
                          /\ IsTextOf(form'[c].text) /\ IsTextOf(form'[c].server)
                          /\ IsFetched(query'[c].data) /\ IsFetched(query'[c].got)
                     /\ page[c] # "editor" /\ saving'[c].phase = "posting" =>
                          IsStored(saving'[c].copy)
    BY <1>b DEF Documents
  <2>1. CASE c = b
    BY <2>1, <1>a, <1>1, <1>2, <1>4, SavedFormType DEF IInv, Documents, IsFetched
  <2>2. CASE c # b
    BY <2>2, <1>a, <1>1 DEF IInv, Documents
  <2> QED
    BY <2>1, <2>2
<1>8. Reached'
  <2>1. q.at <= posts /\ q.gotAt <= posts
    BY <1>a, <1>4
  <2> QED
    BY <1>a, <1>b, <1>1, <1>2, <1>5, <2>1 DEF IInv, TypeOK, Reached
<1>9. Fresh' /\ ReadYourWrites'
  <2> SUFFICES ASSUME NEW c \in Browsers
               PROVE /\ query'[c].phase = "answered" => query'[c].gotAt >= confirmed'[c]
                     /\ query'[c].phase = "idle" /\ IsShown(query'[c]) =>
                          query'[c].at >= confirmed'[c]
    BY DEF Fresh, ReadYourWrites
  <2>1. CASE c = b /\ query[b].loaded
    BY <2>1, <1>a, <1>1, <1>4 DEF IInv, TypeOK
  <2>2. CASE c = b /\ ~query[b].loaded
    <3>1. confirmed'[c] = confirmed[b] /\ query'[c] = q
      BY <2>2, <1>a, <1>1, <1>5 DEF IInv, TypeOK
    <3>2. q.phase = "answered" => q = query[b]
      BY <1>4
    <3> QED
      BY <2>2, <3>1, <3>2, <1>4 DEF IInv, Fresh, IsShown
  <2>3. CASE c # b
    BY <2>3, <1>a, <1>1 DEF IInv, TypeOK, Fresh, ReadYourWrites
  <2> QED
    BY <2>1, <2>2, <2>3
<1> QED
  BY <1>6, <1>7, <1>8, <1>9 DEF IInv

\* Every step of a save.
LEMMA SaveStep == ASSUME IInv, NEW b \in Browsers, SaveSteps(b) PROVE IInv'
<1> USE DEF ghosts, bounds
<1>a. /\ \A c \in Browsers : IsForm(page[c], form[c])
      /\ IsQuery(query[b]) /\ IsSave(saving[b]) /\ IsStored(stored)
      /\ saves \in Nat /\ events \in Nat /\ posts \in Nat
      /\ page[b] \in Pages
      /\ saving[b].at <= posts /\ saving[b].base <= posts
      /\ DOMAIN saving = Browsers
  BY DEF IInv, TypeOK, Reached
<1>1. CASE RouteReads(b)
  <2> DEFINE s == [saving[b] EXCEPT !.phase = "posting", !.copy = stored, !.base = posts]
  <2>1. saving' = [saving EXCEPT ![b] = s]
    BY <1>1, <1>a DEF RouteReads, IsSave
  <2>2. IsSave(s) /\ s.copy = stored /\ s.at = saving[b].at /\ s.base = posts
    BY <1>a DEF IsSave, SavePhases
  <2> HIDE DEF s
  <2>3. s.at <= posts /\ s.base <= posts
    BY <1>a, <2>2
  <2>4. page[b] # "editor" /\ s.phase = "posting" => IsStored(s.copy)
    BY <1>a, <2>2
  <2>5. UNCHANGED <<page, stored, posts, query, form, touched, confirmed>>
    BY <1>1 DEF RouteReads
  <2>6. saves' \in Nat /\ events' \in Nat
    BY <1>1, <1>a DEF RouteReads
  <2> QED
    BY <2>1, <2>2, <2>3, <2>4, <2>5, <2>6, SavingStep
<1>2. CASE RoutePosts(b)
  <2> DEFINE s == [saving[b] EXCEPT !.phase = "answered", !.copy = Undefined,
                                    !.at = posts + 1]
  <2>1. saving' = [saving EXCEPT ![b] = s]
    BY <1>2, <1>a DEF RoutePosts, IsSave
  <2>2. /\ IsSave(s) /\ s.phase = "answered" /\ s.at = posts + 1
        /\ s.base = saving[b].base
    <3>1. posts + 1 \in Nat /\ s.phase = "answered" /\ s.body = saving[b].body
      BY <1>a DEF IsSave
    <3> QED
      BY <1>a, <3>1 DEF IsSave, SavePhases
  <2> HIDE DEF s
  <2>3. IsStored(stored')
    <3>1. page[b] # "editor" => IsStored(saving[b].copy)
      BY <1>2 DEF RoutePosts, IInv, Documents
    <3> QED
      BY <1>2, <1>a, <3>1, UpdateType DEF RoutePosts, IsSave
  <2>4. posts' = posts + 1
    BY <1>2 DEF RoutePosts
  <2>5. TypeOK'
    <3>1. /\ DOMAIN saving' = Browsers
          /\ \A c \in Browsers : IsSave(saving'[c])
      BY <2>1, <2>2 DEF IInv, TypeOK
    <3>2. UNCHANGED <<page, query, form, touched, confirmed, events, saves>>
      BY <1>2 DEF RoutePosts
    <3> QED
      BY <1>a, <2>3, <2>4, <3>1, <3>2 DEF IInv, TypeOK
  <2>6. Documents'
    BY <1>2, <1>a, <2>1, <2>2 DEF RoutePosts, IInv, Documents
  <2>7. Reached'
    <3>1. \A c \in Browsers :
            /\ saving[c].at \in Nat /\ saving[c].base \in Nat /\ confirmed[c] \in Nat
            /\ query[c].at \in Nat /\ query[c].gotAt \in Nat
      BY DEF IInv, TypeOK, IsSave, IsQuery
    <3> QED
      BY <1>2, <1>a, <2>1, <2>2, <2>4, <3>1 DEF RoutePosts, IInv, Reached
  <2> QED
    BY <1>2, <2>5, <2>6, <2>7 DEF RoutePosts, IInv, Fresh, ReadYourWrites
<1>3. CASE SaveFails(b)
  <2>1. IsSave(NoSave) /\ NoSave.at = 0 /\ NoSave.base = 0 /\ NoSave.phase = "idle"
    BY DEF NoSave, IsSave, SavePhases, Empty
  <2>2. events' \in Nat
    BY <1>3, <1>a DEF SaveFails, Fails
  <2>3. NoSave.at <= posts /\ NoSave.base <= posts
    BY <1>a, <2>1
  <2>4. UNCHANGED <<page, stored, posts, query, form, touched, confirmed>>
    BY <1>3 DEF SaveFails
  <2>5. saving' = [saving EXCEPT ![b] = NoSave] /\ saves' \in Nat
    BY <1>3, <1>a DEF SaveFails
  <2> QED
    BY <2>1, <2>2, <2>3, <2>4, <2>5, SavingStep
<1>4. CASE Saved(b)
  BY <1>4, SavedStep
<1> QED
  BY <1>1, <1>2, <1>3, <1>4 DEF SaveSteps

\* What the effects that follow an answer make of the form.
LEMMA FilledFormType ==
  ASSUME IInv, NEW b \in Browsers
  PROVE  /\ IsForm(page[b], FilledForm(b))
         /\ page[b] = "editor" =>
              /\ IsTextOf(FilledForm(b).text) /\ IsTextOf(FilledForm(b).server)
              /\ form[b].hasChanges => FilledForm(b).text = form[b].text
<1>a. IsForm(page[b], form[b]) /\ page[b] \in Pages /\ query[b].loaded \in BOOLEAN
  BY DEF IInv, TypeOK, IsQuery
<1>1. CASE page[b] \in Panels
  <2>1. FilledForm(b) = [formData |-> PanelFormOf(page[b], query[b].got), hasChanges |-> FALSE]
    BY <1>1 DEF FilledForm, Panels
  <2> QED
    BY <1>1, <2>1, FormTypes DEF Panels
<1>2. CASE page[b] = "editor"
  <2>1. FilledForm(b) = DraftSynced(form[b], query[b].got)
    BY <1>2 DEF FilledForm, Panels
  <2>2. /\ IsDraft(form[b]) /\ IsTextOf(form[b].text) /\ IsTextOf(form[b].server)
        /\ IsFetched(query[b].got)
    BY <1>a, <1>2, FormTypes DEF IInv, Documents
  <2> QED
    BY <1>2, <2>1, <2>2, DraftSyncedType, FormTypes
<1>3. CASE page[b] = "security"
  <2>1. IsSecurityPage(form[b])
    BY <1>a, <1>3, FormTypes
  <2>2. CASE ~query[b].loaded
    <3>1. FilledForm(b) = SecurityMounted(query[b].got)
      BY <1>3, <2>2 DEF FilledForm, Panels
    <3> QED
      BY <1>3, <3>1, MountedType, FormTypes DEF Tabs
  <2>3. CASE query[b].loaded
    <3>1. FilledForm(b) =
            IF form[b].tab = "jwt" /\ query[b].got.jwt # query[b].data.jwt
            THEN [form[b] EXCEPT !.jwt = JWTSynced(@, query[b].got.jwt)]
            ELSE form[b]
      BY <1>3, <2>3 DEF FilledForm, Panels
    <3>2. form[b].tab = "jwt" =>
            IsSecurityPage([form[b] EXCEPT !.jwt = JWTSynced(@, query[b].got.jwt)])
      BY <2>1 DEF IsSecurityPage, JWTSynced
    <3> QED
      BY <1>3, <2>1, <3>1, <3>2, FormTypes
  <2> QED
    BY <1>a, <2>2, <2>3
<1> QED
  BY <1>a, <1>1, <1>2, <1>3 DEF Pages, Panels

\* Every step of a query.
LEMMA FetchStep == ASSUME IInv, NEW b \in Browsers, QuerySteps(b) PROVE IInv'
<1> USE DEF ghosts, bounds
<1>a. /\ IsQuery(query[b]) /\ posts \in Nat /\ confirmed[b] \in Nat
      /\ query[b].at \in Nat /\ query[b].gotAt \in Nat
      /\ query[b].at <= posts /\ query[b].gotAt <= posts /\ confirmed[b] <= posts
      /\ saves \in Nat /\ events \in Nat /\ DOMAIN touched = Browsers
      /\ IsForm(page[b], form[b]) /\ IsStored(stored) /\ DOMAIN query = Browsers
      /\ DOMAIN form = Browsers
  BY DEF IInv, TypeOK, Reached, IsQuery
<1>b. page[b] = "editor" =>
        /\ IsTextOf(form[b].text) /\ IsTextOf(form[b].server)
        /\ IsFetched(query[b].data) /\ IsFetched(query[b].got) /\ IsFetched(Undefined)
  BY DEF IInv, Documents, IsFetched
<1>1. CASE Refetch(b)
  <2> DEFINE q == StartFetch(query[b])
  <2>1. IsQuery(q)
    BY <1>a, QueryTypes
  <2>2. q.data = query[b].data /\ q.got = Undefined /\ q.at = query[b].at /\ q.gotAt = 0
        /\ q.phase = "sent"
    BY <1>a, QueryFields
  <2>3. query' = [query EXCEPT ![b] = q]
    BY <1>1, <1>a DEF Refetch
  <2> HIDE DEF q
  <2>4. UNCHANGED <<page, stored, posts, form, touched, saving, confirmed, saves, events>>
    BY <1>1 DEF Refetch
  <2>5. q.at <= posts /\ q.gotAt <= posts
    BY <1>a, <2>2
  <2> QED
    BY <1>a, <1>b, <2>1, <2>2, <2>3, <2>4, <2>5, QueryStep
<1>2. CASE FetchAnswered(b)
  <2> DEFINE q == Answered(query[b], View(page[b], stored), posts)
  <2>1. IsQuery(q)
    BY <1>a, QueryTypes
  <2>2. /\ q.data = query[b].data /\ q.got = View(page[b], stored)
        /\ q.at = query[b].at /\ q.gotAt = posts /\ q.phase = "answered"
    BY <1>a DEF Answered, IsQuery
  <2>3. query' = [query EXCEPT ![b] = q]
    BY <1>2, <1>a DEF FetchAnswered
  <2> HIDE DEF q
  <2>4. UNCHANGED <<page, stored, posts, form, touched, saving, confirmed, saves, events>>
    BY <1>2 DEF FetchAnswered
  <2>5. page[b] = "editor" => IsFetched(q.got)
    BY <1>a, <2>2 DEF View, Panels, IsFetched, IsStored
  <2>6. q.at <= posts /\ q.gotAt <= posts /\ q.gotAt >= confirmed[b]
    BY <1>a, <2>2
  <2> QED
    BY <1>a, <1>b, <2>1, <2>2, <2>3, <2>4, <2>5, <2>6, QueryStep
<1>3. CASE FetchArrives(b)
  <2> DEFINE q == Arrived(query[b])
             f == IF IsNews(query[b]) THEN FilledForm(b) ELSE form[b]
  <2>1. IsQuery(q)
    BY <1>a, QueryTypes
  <2>2. /\ q.data = query[b].got /\ q.got = Undefined
        /\ q.at = query[b].gotAt /\ q.gotAt = 0 /\ q.phase = "idle"
    BY <1>a, QueryFields
  <2>3. query' = [query EXCEPT ![b] = q]
    BY <1>3, <1>a DEF FetchArrives
  <2>4. form' = [form EXCEPT ![b] = f] \/ (f = form[b] /\ UNCHANGED form)
    BY <1>3 DEF FetchArrives
  <2>5. /\ IsForm(page[b], f)
        /\ page[b] = "editor" => IsTextOf(f.text) /\ IsTextOf(f.server)
    BY <1>a, <1>b, FilledFormType
  <2> HIDE DEF q, f
  <2>6. UNCHANGED <<page, stored, posts, saving, confirmed, saves, events>>
    BY <1>3 DEF FetchArrives
  <2>7. DOMAIN touched' = Browsers
    BY <1>3, <1>a DEF FetchArrives
  <2>8. q.at <= posts /\ q.gotAt <= posts /\ q.at >= confirmed[b]
    BY <1>3, <1>a, <2>2 DEF FetchArrives, IInv, Fresh
  <2> QED
    BY <1>a, <1>b, <2>1, <2>2, <2>3, <2>4, <2>5, <2>6, <2>7, <2>8, QueryStep
<1>4. CASE FetchFails(b)
  <2> DEFINE q == Failed(query[b])
             f == IF page[b] = "security" /\ ~query[b].loaded
                  THEN SecurityMounted(Undefined) ELSE form[b]
  <2>1. IsQuery(q)
    BY <1>a, QueryTypes
  <2>2. /\ q.data = query[b].data /\ q.got = Undefined /\ q.error
        /\ q.at = query[b].at /\ q.gotAt = 0 /\ q.phase = "idle"
    BY <1>a, QueryFields
  <2>3. query' = [query EXCEPT ![b] = q]
    BY <1>4, <1>a DEF FetchFails
  <2>4. form' = [form EXCEPT ![b] = f]
    BY <1>4, <1>a DEF FetchFails
  <2>5. /\ IsForm(page[b], f)
        /\ page[b] = "editor" => f = form[b]
    BY <1>a, MountedType, FormTypes DEF Tabs
  <2> HIDE DEF q, f
  <2>6. UNCHANGED <<page, stored, posts, touched, saving, confirmed, saves>>
        /\ events' \in Nat
    BY <1>4, <1>a DEF FetchFails, Fails
  <2>7. q.at <= posts /\ q.gotAt <= posts
    BY <1>a, <2>2
  <2> QED
    BY <1>a, <1>b, <2>1, <2>2, <2>3, <2>4, <2>5, <2>6, <2>7, QueryStep DEF IsShown
<1> QED
  BY <1>1, <1>2, <1>3, <1>4 DEF QuerySteps

\* Every step keeps the invariant.
LEMMA NextIInv == ASSUME IInv, [Next]_vars PROVE IInv'
<1>1. CASE Next
  BY <1>1, UserStep, SaveStep, FetchStep DEF Next
<1>2. CASE UNCHANGED vars
  <2> USE DEF vars, ghosts, bounds
  <2>1. TypeOK'
    BY <1>2 DEF IInv, TypeOK
  <2>2. Documents' /\ Reached'
    BY <1>2 DEF IInv, Documents, Reached
  <2>3. Fresh' /\ ReadYourWrites'
    BY <1>2 DEF IInv, Fresh, ReadYourWrites
  <2> QED
    BY <2>1, <2>2, <2>3 DEF IInv
<1> QED
  BY <1>1, <1>2

\* The invariant holds throughout.
LEMMA Inductive == Spec => []IInv
BY InitIInv, NextIInv, PTL DEF Spec

---------------------------------------------------------------------------
\* The types of the forms, the queries, the saves and the document, for any
\* pages and any texts: what is posted and kept has sections only.
THEOREM TypeCorrect == Spec => []TypeOK
<1>1. IInv => TypeOK
  BY DEF IInv
<1> QED
  BY <1>1, Inductive, PTL

\* A page that is not fetching shows a copy at least as new as the last save
\* it has reported: invalidateQueries drops the answers that the save has
\* overtaken.
THEOREM NoStaleCopySettles == Spec => []ReadYourWrites
<1>1. IInv => ReadYourWrites
  BY DEF IInv
<1> QED
  BY <1>1, Inductive, PTL

---------------------------------------------------------------------------
(* Drafts of the editor.                                                   *)

\* A step of one browser leaves the forms of the others alone.
LEMMA OwnForm ==
  ASSUME IInv, NEW b \in Browsers, NEW c \in Browsers, b # c,
         UserSteps(c) \/ SaveSteps(c) \/ QuerySteps(c)
  PROVE  form'[b] = form[b]
<1>a. DOMAIN form = Browsers
  BY DEF IInv, TypeOK
<1>1. CASE UserSteps(c)
  <2>1. CASE EditPanel(c) \/ SavePanel(c) \/ ResetPanel(c)
    BY <1>a, <2>1 DEF EditPanel, SavePanel, ResetPanel
  <2>2. CASE EditText(c) \/ SaveText(c) \/ ResetText(c)
    BY <1>a, <2>2 DEF EditText, SaveText, ResetText
  <2>3. CASE ChooseTab(c) \/ EditJWT(c) \/ SubmitJWT(c)
    BY <1>a, <2>3 DEF ChooseTab, EditJWT, SubmitJWT
  <2>4. CASE AddKey(c) \/ AddAddress(c)
    BY <2>4 DEF AddKey, AddAddress
  <2>5. CASE DeleteClick(c) \/ DeleteCancel(c) \/ DeleteConfirm(c)
    BY <1>a, <2>5 DEF DeleteClick, DeleteCancel, DeleteConfirm
  <2> QED
    BY <1>1, <2>1, <2>2, <2>3, <2>4, <2>5 DEF UserSteps
<1>2. CASE SaveSteps(c)
  BY <1>a, <1>2 DEF SaveSteps, RouteReads, RoutePosts, SaveFails, Saved
<1>3. CASE QuerySteps(c)
  BY <1>a, <1>3 DEF QuerySteps, Refetch, FetchAnswered, FetchArrives, FetchFails
<1> QED
  BY <1>1, <1>2, <1>3

\* At the editor only typing, resetting and a reported save of one's own may
\* change a draft.
LEMMA DraftIsKept ==
  ASSUME IInv, NEW b \in Browsers, page[b] = "editor", form[b].hasChanges,
         UserSteps(b) \/ SaveSteps(b) \/ QuerySteps(b),
         form'[b].text # form[b].text
  PROVE  EditText(b) \/ ResetText(b) \/ Saved(b)
<1>a. DOMAIN form = Browsers
  BY DEF IInv, TypeOK
<1>b. page[b] \notin Panels /\ page[b] # "security"
  BY DEF Panels
<1>1. CASE UserSteps(b)
  <2>1. ~SaveText(b)
    BY DEF SaveText
  <2> QED
    BY <1>1, <1>b, <2>1 DEF UserSteps, EditPanel, SavePanel, ResetPanel, ChooseTab,
       EditJWT, SubmitJWT, AddKey, AddAddress, DeleteClick, DeleteCancel, DeleteConfirm,
       AtSecurity
<1>2. CASE SaveSteps(b)
  BY <1>2 DEF SaveSteps, RouteReads, RoutePosts, SaveFails
<1>3. CASE QuerySteps(b)
  <2>1. ~Refetch(b) /\ ~FetchAnswered(b)
    BY DEF Refetch, FetchAnswered
  <2>2. ~FetchArrives(b)
    BY <1>a, FilledFormType DEF FetchArrives
  <2>3. ~FetchFails(b)
    BY <1>a, <1>b DEF FetchFails
  <2> QED
    BY <1>3, <2>1, <2>2, <2>3 DEF QuerySteps
<1> QED
  BY <1>1, <1>2, <1>3

\* No answer to a fetch and no step of another browser touches what is typed
\* into the editor.
THEOREM DraftsAreKept == Spec => EditorKeepsDraft
<1>1. IInv /\ [Next]_vars =>
        [\A b \in Browsers :
           /\ page[b] = "editor" /\ form[b].hasChanges
           /\ form'[b].text # form[b].text
           => EditText(b) \/ ResetText(b) \/ Saved(b)]_vars
  <2> SUFFICES ASSUME IInv, Next, NEW b \in Browsers,
                      page[b] = "editor", form[b].hasChanges,
                      form'[b].text # form[b].text
               PROVE  EditText(b) \/ ResetText(b) \/ Saved(b)
    OBVIOUS
  <2>1. PICK c \in Browsers : UserSteps(c) \/ SaveSteps(c) \/ QuerySteps(c)
    BY DEF Next
  <2>2. c = b
    BY <2>1, OwnForm
  <2> QED
    BY <2>1, <2>2, DraftIsKept
<1> QED
  BY <1>1, Inductive, PTL DEF Spec, EditorKeepsDraft

---------------------------------------------------------------------------
(* Saves change only what was asked. A page that shows the present version *)
(* shows the document as it is, its form agrees with that outside of the   *)
(* fields its user has touched, and what it has sent from such a form      *)
(* changes the document where its user has, as long as the version stands. *)

\* JavaScript's undefined is no object. TLC cannot evaluate this, so it is a
\* hypothesis of the theorem below and not an assumption of the module.
UndefinedIsNoObject == Undefined # [k \in DOMAIN Undefined |-> Undefined[k]]

\* OnlyAsked for the save s.
Asked(s, old, new) ==
  LET w == CHOOSE x \in DOMAIN s.body : TRUE
      was == Get(old, w, Empty)
      is == Get(new, w, Empty) IN
  /\ Differ(old, new) \subseteq {w}
  /\ \A k \in Differ(was, is) : k \in s.fields \/ WasBlank(w, k, was)
  /\ w = "security" =>
       Differ(KeysOf(was), KeysOf(is)) \subseteq s.added \cup s.deleted

\* The form f has what data has, except in fields.
Agrees(f, data, fields) ==
  \A k \in DOMAIN f : k \in fields \/ k \notin DOMAIN data \/ f[k] = data[k]

AgreesJWT(f, data, fields) ==
  \A k \in DOMAIN f : k \in fields \/ WasBlank("jwt", k, data) \/ f[k] = data[k]

\* A jwt section has no field that the form does not know.
KnownJWT(config) ==
  "jwt" \in DOMAIN config =>
    config["jwt"] # Undefined /\ DOMAIN config["jwt"] \subseteq DOMAIN JWTDefaults

IsCopy(d) == d # Undefined /\ d.jwt # Undefined

\* A copy and an answer of version n are what the API route made of g.
CopyKept(p, q, g, n) ==
  /\ q.loaded /\ q.at = n => q.data = View(p, g)
  /\ q.phase = "answered" /\ q.gotAt = n => q.got = View(p, g)
  /\ p = "security" => /\ q.loaded => IsCopy(q.data)
                       /\ q.phase = "answered" => IsCopy(q.got)

FormKept(p, f, q, fields) ==
  /\ p \in Panels /\ q.loaded => Agrees(f.formData, q.data, fields)
  /\ p = "security" /\ f.tab = "jwt" =>
       /\ DOMAIN f.jwt.formData = DOMAIN JWTDefaults /\ f.jwt.formData # Undefined
       /\ q.loaded => AgreesJWT(f.jwt.formData, q.data.jwt, fields)

\* What a page sends: its section, which for jwt has the fields of the form.
IsBody(p, body) ==
  /\ p \in Panels => DOMAIN body = {SectionOf(p)}
  /\ p = "security" =>
       \/ \E f : /\ body = [jwt |-> f]
                 /\ f # Undefined /\ DOMAIN f = DOMAIN JWTDefaults
       \/ \E f : body = [security |-> f]

SaveKept(p, s, g, n) ==
  p # "editor" /\ s.phase \in {"reading", "posting"} =>
    /\ IsBody(p, s.body)
    /\ \A v \in s.shown : v <= n
    /\ s.shown = {n} => Asked(s, Config(g), Config(Update(p, g, s.body)))
    /\ s.phase = "posting" => /\ KnownJWT(Config(s.copy))
                              /\ s.base = n => s.copy = g

PageKept(b) ==
  /\ CopyKept(page[b], query[b], stored, posts)
  /\ FormKept(page[b], form[b], query[b], touched[b])
  /\ SaveKept(page[b], saving[b], stored, posts)

Honest ==
  /\ IInv
  /\ KnownJWT(Config(stored))
  /\ \A b \in Browsers : PageKept(b)

\* Asked is OnlyAsked.
LEMMA AskedIsOnlyAsked ==
  ASSUME NEW b, NEW old, NEW new
  PROVE  OnlyAsked(b, old, new) <=> Asked(saving[b], old, new)
BY DEF OnlyAsked, Asked, Written

\* It is about what a save asks for, not about how far it has come.
LEMMA AskedOfSame ==
  ASSUME NEW s, NEW t, NEW old, NEW new,
         t.body = s.body, t.fields = s.fields, t.added = s.added, t.deleted = s.deleted,
         Asked(s, old, new)
  PROVE  Asked(t, old, new)
BY DEF Asked

\* The fields of the settings for JWT.
LEMMA JWTNames ==
  /\ DOMAIN JWTBlank = DOMAIN JWTDefaults
  /\ DOMAIN JWTDefaults =
       {"algorithm", "secret", "issuer", "audience", "access_token_expiry",
        "refresh_token_expiry", "public_key_file", "private_key_file"}
BY DEF JWTBlank, JWTDefaults

\* Objects are not undefined.
LEMMA Objects ==
  ASSUME UndefinedIsNoObject
  PROVE  /\ Empty # Undefined /\ JWTDefaults # Undefined
         /\ \A c : JWTFormOf(c) # Undefined
         /\ \A a, k, v : Put(a, k, v) # Undefined
         /\ \A j, s : [jwt |-> j, security |-> s] # Undefined
<1> USE DEF UndefinedIsNoObject
<1>1. Empty # Undefined
  BY DEF Empty
<1>2. JWTDefaults # Undefined
  BY DEF JWTDefaults
<1>3. \A c : JWTFormOf(c) # Undefined
  BY DEF JWTFormOf
<1>4. \A a, k, v : Put(a, k, v) # Undefined
  BY DEF Put
<1>5. \A j, s : [jwt |-> j, security |-> s] # Undefined
  OBVIOUS
<1> QED
  BY <1>1, <1>2, <1>3, <1>4, <1>5

\* A form that has just been filled agrees with what filled it.
LEMMA FilledAgrees ==
  ASSUME NEW p, NEW data, NEW fields
  PROVE  Agrees(PanelFormOf(p, data), data, fields)
BY DEF Agrees, PanelFormOf, RateLimitFormOf, CacheFormOf, Get

\* So do the settings for JWT when they mount and when new ones arrive.
LEMMA JWTFilledAgrees ==
  ASSUME UndefinedIsNoObject, NEW data, NEW fields
  PROVE  /\ DOMAIN JWTFormOf(data) = DOMAIN JWTDefaults
         /\ JWTFormOf(data) # Undefined
         /\ AgreesJWT(JWTFormOf(data), data, fields)
         /\ DOMAIN JWTMounted(data).formData = DOMAIN JWTDefaults
         /\ JWTMounted(data).formData # Undefined
         /\ data # Undefined => AgreesJWT(JWTMounted(data).formData, data, fields)
<1>1. DOMAIN JWTFormOf(data) = DOMAIN JWTDefaults
  BY DEF JWTFormOf
<1>2. JWTFormOf(data) # Undefined
  BY Objects
<1>3. AgreesJWT(JWTFormOf(data), data, fields)
  BY JWTNames DEF AgreesJWT, JWTFormOf, WasBlank, Get
<1>4. JWTMounted(data).formData = IF data = Undefined THEN JWTDefaults ELSE JWTFormOf(data)
  BY DEF JWTMounted
<1> QED
  BY <1>1, <1>2, <1>3, <1>4, Objects

\* What a page of an API route is.
LEMMA ViewOf ==
  ASSUME NEW g
  PROVE  /\ \A p \in Panels : View(p, g) = Get(Config(g), SectionOf(p), Empty)
         /\ View("security", g) = [jwt |-> Get(Config(g), "jwt", Empty),
                                   security |-> Get(Config(g), "security", Empty)]
BY DEF View, Panels, SectionOf

---------------------------------------------------------------------------
(* What a body asks for.                                                   *)

\* A body with one section, whatever the API route makes of it.
LEMMA OneSection ==
  ASSUME NEW s, NEW w, DOMAIN s.body = {w},
         NEW old, NEW new, NEW v,
         new = Over(old, [x \in DOMAIN s.body |-> v]),
         \A k \in Differ(Get(old, w, Empty), v) :
           k \in s.fields \/ WasBlank(w, k, Get(old, w, Empty)),
         w = "security" =>
           Differ(KeysOf(Get(old, w, Empty)), KeysOf(v)) \subseteq s.added \cup s.deleted
  PROVE  Asked(s, old, new)
<1>1. (CHOOSE x \in DOMAIN s.body : TRUE) = w
  OBVIOUS
<1>2. /\ DOMAIN new = DOMAIN old \cup {w}
      /\ new[w] = v
      /\ \A k \in DOMAIN old : k # w => new[k] = old[k]
  BY DEF Over
<1>3. Get(new, w, Empty) = v
  BY <1>2 DEF Get
<1>4. Differ(old, new) \subseteq {w}
  BY <1>2 DEF Differ
<1> QED
  BY <1>1, <1>3, <1>4 DEF Asked

\* What a panel whose form agrees with the document asks for.
LEMMA PanelAsks ==
  ASSUME NEW p \in Panels, NEW g, NEW s, NEW f,
         s.body = Put(Empty, SectionOf(p), f),
         Agrees(f, Get(Config(g), SectionOf(p), Empty), s.fields)
  PROVE  Asked(s, Config(g), Config(Update(p, g, s.body)))
<1> DEFINE w == SectionOf(p)
           was == Get(Config(g), w, Empty)
           v == Over(was, f)
<1>1. DOMAIN s.body = {w} /\ s.body[w] = f
  BY DEF Put, Empty
<1>2. Config(Update(p, g, s.body)) = Merge(Config(g), s.body)
  <2>1. Update(p, g, s.body) = [wrapped |-> TRUE, config |-> Merge(Config(g), s.body)]
    BY DEF Update, Panels
  <2>2. \A m : Config([wrapped |-> TRUE, config |-> m]) = m
    BY DEF Config
  <2> QED
    BY <2>1, <2>2
<1>3. [x \in DOMAIN s.body |-> Over(Get(Config(g), x, Empty), s.body[x])]
        = [x \in DOMAIN s.body |-> v]
  <2>1. \A x \in DOMAIN s.body : x = w /\ s.body[x] = f
    BY <1>1
  <2>2. \A x \in DOMAIN s.body : Over(Get(Config(g), x, Empty), s.body[x]) = v
    BY <2>1
  <2> HIDE DEF w, v
  <2> QED
    BY <2>2
<1>4. Merge(Config(g), s.body) = Over(Config(g), [x \in DOMAIN s.body |-> v])
  BY <1>3 DEF Merge
<1>5. \A k \in Differ(was, v) : k \in s.fields \/ WasBlank(w, k, was)
  BY DEF Differ, Over, Agrees, WasBlank
<1>6. w # "security"
  BY DEF SectionOf
<1> HIDE DEF w, v
<1> QED
  BY <1>1, <1>2, <1>4, <1>5, <1>6, OneSection

\* What settings for JWT that agree with the document ask for.
LEMMA JWTAsks ==
  ASSUME NEW g, NEW s, NEW f, s.body = [jwt |-> f],
         KnownJWT(Config(g)), DOMAIN f = DOMAIN JWTDefaults,
         AgreesJWT(f, Get(Config(g), "jwt", Empty), s.fields)
  PROVE  Asked(s, Config(g), Config(Update("security", g, s.body)))
<1> DEFINE was == Get(Config(g), "jwt", Empty)
<1>1. DOMAIN s.body = {"jwt"} /\ s.body = [x \in DOMAIN s.body |-> f]
  OBVIOUS
<1>2. Config(Update("security", g, s.body)) = Over(Config(g), s.body)
  BY DEF Update, Config, Panels, MergeSecurity
<1>3. DOMAIN was \subseteq DOMAIN f
  BY DEF KnownJWT, Get, Empty
<1>4. \A k \in Differ(was, f) : k \in s.fields \/ WasBlank("jwt", k, was)
  BY <1>3 DEF Differ, AgreesJWT, WasBlank
<1> QED
  BY <1>1, <1>2, <1>4, OneSection

\* What a new security section asks for.
LEMMA SecurityAsks ==
  ASSUME NEW g, NEW s, NEW f, s.body = [security |-> f],
         \A k \in Differ(Get(Config(g), "security", Empty), f) :
           k \in s.fields \/ k \notin DOMAIN Get(Config(g), "security", Empty),
         Differ(KeysOf(Get(Config(g), "security", Empty)), KeysOf(f))
           \subseteq s.added \cup s.deleted
  PROVE  Asked(s, Config(g), Config(Update("security", g, s.body)))
<1>1. DOMAIN s.body = {"security"} /\ s.body = [x \in DOMAIN s.body |-> f]
  OBVIOUS
<1>2. Config(Update("security", g, s.body)) = Over(Config(g), s.body)
  BY DEF Update, Config, Panels, MergeSecurity
<1> QED
  BY <1>1, <1>2, OneSection DEF WasBlank

\* Keys of a section change by the one that is added or deleted.
LEMMA KeyBodies ==
  ASSUME NEW s, NEW id, NEW key
  PROVE  \E f, h :
           /\ HandleAPIKeyAdd(s, id, key) = [security |-> f]
           /\ HandleAPIKeyDelete(s, id) = [security |-> h]
           /\ Differ(s, f) \subseteq {"api_keys"} /\ Differ(s, h) \subseteq {"api_keys"}
           /\ Differ(KeysOf(s), KeysOf(f)) \subseteq {id}
           /\ Differ(KeysOf(s), KeysOf(h)) \subseteq {id}
<1> DEFINE f == Put(s, "api_keys", Put(KeysOf(s), id, key))
           h == Put(s, "api_keys", Without(KeysOf(s), id))
<1>1. KeysOf(f) = Put(KeysOf(s), id, key) /\ KeysOf(h) = Without(KeysOf(s), id)
  BY DEF KeysOf, Get, Put
<1>2. Differ(s, f) \subseteq {"api_keys"} /\ Differ(s, h) \subseteq {"api_keys"}
  BY DEF Differ, Put
<1>3. /\ Differ(KeysOf(s), Put(KeysOf(s), id, key)) \subseteq {id}
      /\ Differ(KeysOf(s), Without(KeysOf(s), id)) \subseteq {id}
  BY DEF Differ, Put, Without
<1>4. HandleAPIKeyAdd(s, id, key) = [security |-> f] /\ HandleAPIKeyDelete(s, id) = [security |-> h]
  BY DEF HandleAPIKeyAdd, HandleAPIKeyDelete
<1> HIDE DEF f, h
<1> QED
  BY <1>1, <1>2, <1>3, <1>4

\* A list of addresses changes, and the other is filled in if it is missing.
LEMMA FilterBody ==
  ASSUME NEW s, NEW kind, kind # "api_keys", NEW list
  PROVE  \E f :
           /\ HandleIPFilterUpdate(s, kind, list) = [security |-> f]
           /\ \A k \in Differ(s, f) : k = kind \/ k \notin DOMAIN s
           /\ Differ(KeysOf(s), KeysOf(f)) = {}
<1> DEFINE f == Put(Over(s, [k \in IPKinds |-> Listed(s, k)]), kind, list)
<1>1. \A k \in Differ(s, f) : k = kind \/ k \notin DOMAIN s
  BY DEF Differ, Put, Over, Listed, Get
<1>2. KeysOf(f) = KeysOf(s)
  BY DEF KeysOf, Get, Put, Over, IPKinds
<1>3. HandleIPFilterUpdate(s, kind, list) = [security |-> f]
  BY DEF HandleIPFilterUpdate
<1> HIDE DEF f
<1> QED
  BY <1>1, <1>2, <1>3 DEF Differ

---------------------------------------------------------------------------
(* The steps.                                                              *)

\* At first nothing has been fetched and nothing is being saved.
LEMMA InitHonest == ASSUME UndefinedIsNoObject, Init PROVE Honest
<1>1. IInv
  BY InitIInv
<1>2. KnownJWT(Config(stored))
  BY JWTAssumption DEF Init, KnownJWT, Config
<1>3. ASSUME NEW b \in Browsers PROVE PageKept(b)
  <2>1. ~query[b].loaded /\ query[b].phase = "sent" /\ saving[b].phase = "idle"
    BY DEF Init, FirstFetch, NoSave
  <2>2. page[b] = "security" => form[b].jwt = JWTMounted(Undefined)
    BY DEF Init, SecurityMounted, JWTConfigOf, Panels
  <2> QED
    BY <2>1, <2>2, JWTFilledAgrees DEF PageKept, CopyKept, FormKept, SaveKept
<1> QED
  BY <1>1, <1>2, <1>3 DEF Honest

\* A step of one browser that leaves the document alone.
LEMMA OwnPage ==
  ASSUME Honest, IInv', NEW b \in Browsers,
         UNCHANGED <<page, stored, posts>>,
         \A c \in Browsers \ {b} : /\ query'[c] = query[c] /\ form'[c] = form[c]
                                   /\ touched'[c] = touched[c] /\ saving'[c] = saving[c],
         CopyKept(page[b], query'[b], stored, posts),
         FormKept(page[b], form'[b], query'[b], touched'[b]),
         SaveKept(page[b], saving'[b], stored, posts)
  PROVE  Honest'
<1>1. ASSUME NEW c \in Browsers PROVE PageKept(c)'
  <2>1. CASE c = b
    BY <2>1 DEF PageKept
  <2>2. CASE c # b
    BY <2>2 DEF PageKept, Honest
  <2> QED
    BY <2>1, <2>2
<1> QED
  BY <1>1 DEF Honest

\* A save that starts asks for what its user changed.
LEMMA MutateKeeps ==
  ASSUME Honest, NEW b \in Browsers,
         NEW body, NEW fields, NEW added, NEW deleted,
         Mutate(b, body, fields, added, deleted),
         page[b] # "editor" => IsBody(page[b], body),
         ASSUME page[b] # "editor", query[b].loaded, query[b].at = posts,
                NEW s, s.body = body, s.fields = fields, s.added = added, s.deleted = deleted
         PROVE  Asked(s, Config(stored), Config(Update(page[b], stored, s.body)))
  PROVE  /\ SaveKept(page[b], saving'[b], stored, posts)
         /\ \A c \in Browsers \ {b} : saving'[c] = saving[c]
<1> DEFINE s == [NoSave EXCEPT !.phase = IF page[b] = "editor" THEN "posting" ELSE "reading",
                      !.body = body, !.fields = fields,
                      !.shown = IF query[b].loaded THEN {query[b].at} ELSE {},
                      !.added = added, !.deleted = deleted]
<1>1. saving' = [saving EXCEPT ![b] = s]
  BY DEF Mutate
<1>2. DOMAIN saving = Browsers /\ query[b].at <= posts
  BY DEF Honest, IInv, TypeOK, Reached
<1>3. /\ s.body = body /\ s.fields = fields /\ s.added = added /\ s.deleted = deleted
      /\ s.shown = IF query[b].loaded THEN {query[b].at} ELSE {}
      /\ page[b] # "editor" => s.phase = "reading"
  BY DEF NoSave
<1> HIDE DEF s
<1>4. SaveKept(page[b], s, stored, posts)
  BY <1>2, <1>3 DEF SaveKept
<1> QED
  BY <1>1, <1>2, <1>4

\* What a page and its form hold.
LEMMA PageFacts ==
  ASSUME Honest, NEW b \in Browsers
  PROVE  /\ IInv /\ KnownJWT(Config(stored))
         /\ CopyKept(page[b], query[b], stored, posts)
         /\ FormKept(page[b], form[b], query[b], touched[b])
         /\ SaveKept(page[b], saving[b], stored, posts)
         /\ DOMAIN form = Browsers /\ DOMAIN touched = Browsers
         /\ DOMAIN query = Browsers /\ DOMAIN saving = Browsers
         /\ page[b] \in Pages /\ IsForm(page[b], form[b])
         /\ IsQuery(query[b]) /\ IsSave(saving[b]) /\ posts \in Nat
         /\ query[b].at <= posts /\ query[b].gotAt <= posts
BY DEF Honest, PageKept, IInv, TypeOK, Reached

\* The panels.
LEMMA PanelSteps ==
  ASSUME Honest, IInv', NEW b \in Browsers,
         EditPanel(b) \/ SavePanel(b) \/ ResetPanel(b)
  PROVE  Honest'
<1> USE DEF ghosts, bounds
<1>a. /\ CopyKept(page[b], query[b], stored, posts)
      /\ FormKept(page[b], form[b], query[b], touched[b])
      /\ SaveKept(page[b], saving[b], stored, posts)
      /\ DOMAIN form = Browsers /\ DOMAIN touched = Browsers
  BY PageFacts
<1>b. page[b] \in Panels /\ query[b].loaded /\ page[b] # "editor" /\ page[b] # "security"
  BY DEF EditPanel, SavePanel, ResetPanel, IsShown, Panels
<1>c. Agrees(form[b].formData, query[b].data, touched[b])
  BY <1>a, <1>b DEF FormKept
<1>1. CASE EditPanel(b)
  <2>1. PICK f : /\ form' = [form EXCEPT ![b] = [formData |-> f, hasChanges |-> TRUE]]
                 /\ touched' = [touched EXCEPT ![b] = @ \cup Differ(form[b].formData, f)]
    BY <1>1 DEF EditPanel
  <2>2. Agrees(f, query[b].data, touched[b] \cup Differ(form[b].formData, f))
    BY <1>c DEF Agrees, Differ
  <2>3. FormKept(page[b], form'[b], query[b], touched'[b])
    BY <1>a, <1>b, <2>1, <2>2 DEF FormKept
  <2> QED
    BY <1>1, <1>a, <2>1, <2>3, OwnPage DEF EditPanel
<1>2. CASE SavePanel(b)
  <2> DEFINE body == Put(Empty, SectionOf(page[b]), form[b].formData)
  <2>1. IsBody(page[b], body)
    BY <1>b DEF IsBody, Put, Empty
  <2>2. ASSUME query[b].at = posts, NEW s, s.body = body, s.fields = touched[b]
        PROVE  Asked(s, Config(stored), Config(Update(page[b], stored, s.body)))
    <3>1. query[b].data = Get(Config(stored), SectionOf(page[b]), Empty)
      BY <1>a, <1>b, <2>2, ViewOf DEF CopyKept
    <3> QED
      BY <1>b, <1>c, <2>2, <3>1, PanelAsks
  <2>3. Mutate(b, body, touched[b], {}, {})
    BY <1>2 DEF SavePanel
  <2> HIDE DEF body
  <2>4. /\ SaveKept(page[b], saving'[b], stored, posts)
        /\ \A c \in Browsers \ {b} : saving'[c] = saving[c]
    BY <2>1, <2>2, <2>3, MutateKeeps
  <2> QED
    BY <1>2, <1>a, <2>4, OwnPage DEF SavePanel
<1>3. CASE ResetPanel(b)
  <2>1. Agrees(query[b].data, query[b].data, {})
    BY DEF Agrees
  <2>2. FormKept(page[b], form'[b], query[b], touched'[b])
    BY <1>3, <1>a, <1>b, <2>1 DEF ResetPanel, FormKept
  <2> QED
    BY <1>3, <1>a, <2>2, OwnPage DEF ResetPanel
<1> QED
  BY <1>1, <1>2, <1>3

\* The editor, whose saves are not compared with anything.
LEMMA EditorSteps ==
  ASSUME Honest, IInv', NEW b \in Browsers,
         EditText(b) \/ SaveText(b) \/ ResetText(b)
  PROVE  Honest'
<1> USE DEF ghosts, bounds
<1>a. /\ CopyKept(page[b], query[b], stored, posts)
      /\ SaveKept(page[b], saving[b], stored, posts)
      /\ DOMAIN form = Browsers /\ DOMAIN saving = Browsers
  BY PageFacts
<1>b. page[b] = "editor" /\ page[b] \notin Panels
  BY DEF EditText, SaveText, ResetText, Panels
<1>c. /\ \A f, q, fields : FormKept(page[b], f, q, fields)
      /\ \A s : SaveKept(page[b], s, stored, posts)
  BY <1>b DEF FormKept, SaveKept
<1>1. CASE EditText(b) \/ ResetText(b)
  BY <1>1, <1>a, <1>c, OwnPage DEF EditText, ResetText
<1>2. CASE SaveText(b)
  BY <1>2, <1>a, <1>c, OwnPage DEF SaveText, Mutate
<1> QED
  BY <1>1, <1>2

\* Changes of the settings for JWT keep the names.
LEMMA JWTEditNames ==
  ASSUME UndefinedIsNoObject, NEW f, DOMAIN f = DOMAIN JWTDefaults, NEW g \in JWTEdits(f)
  PROVE  DOMAIN g = DOMAIN JWTDefaults /\ g # Undefined
<1>1. PICK field, v : field \in DOMAIN JWTDefaults /\ g = Put(f, field, v)
  <2> USE DEF HandleChange
  <2>1. CASE g \in Algorithm(f)
    BY <2>1, JWTNames DEF Algorithm
  <2>2. CASE g \in SecretKey(f)
    BY <2>2, JWTNames DEF SecretKey
  <2>3. CASE g \in KeyFiles(f)
    BY <2>3, JWTNames DEF KeyFiles
  <2>4. CASE g \in Issuer(f) \cup Audience(f)
    BY <2>4, JWTNames DEF Issuer, Audience
  <2>5. CASE g \in TokenExpiry(f)
    BY <2>5, JWTNames DEF TokenExpiry
  <2> QED
    BY <2>1, <2>2, <2>3, <2>4, <2>5 DEF JWTEdits
<1>2. DOMAIN g = DOMAIN JWTDefaults
  BY <1>1 DEF Put
<1>3. g # Undefined
  BY <1>1, Objects
<1> QED
  BY <1>2, <1>3

\* The security page: tabs, dialogs and what is typed.
LEMMA SecurityForm ==
  ASSUME UndefinedIsNoObject, Honest, IInv', NEW b \in Browsers,
         ChooseTab(b) \/ EditJWT(b) \/ DeleteClick(b) \/ DeleteCancel(b)
  PROVE  Honest'
<1> USE DEF ghosts, bounds
<1>a. /\ CopyKept(page[b], query[b], stored, posts)
      /\ FormKept(page[b], form[b], query[b], touched[b])
      /\ SaveKept(page[b], saving[b], stored, posts)
      /\ DOMAIN form = Browsers /\ DOMAIN touched = Browsers
  BY PageFacts
<1>b. page[b] = "security" /\ page[b] \notin Panels /\ IsSecurityPage(form[b])
  <2>1. page[b] = "security"
    BY DEF ChooseTab, EditJWT, DeleteClick, DeleteCancel, AtSecurity
  <2> QED
    BY <2>1, PageFacts, FormTypes DEF Panels
<1>c. query[b].loaded => IsCopy(query[b].data)
  BY <1>a, <1>b DEF CopyKept
<1>1. CASE ChooseTab(b)
  <2>1. PICK tab \in Tabs : form' = [form EXCEPT ![b] = TabChosen(tab, query[b].data)]
    BY <1>1 DEF ChooseTab
  <2>2. touched' = [touched EXCEPT ![b] = {}]
    BY <1>1 DEF ChooseTab
  <2> DEFINE f == TabChosen(tab, query[b].data)
  <2>3. f.tab = tab /\ (tab = "jwt" => f.jwt = JWTMounted(JWTConfigOf(query[b].data)))
    BY DEF TabChosen
  <2>4. query[b].loaded => /\ JWTConfigOf(query[b].data) = query[b].data.jwt
                           /\ query[b].data.jwt # Undefined
    BY <1>c DEF JWTConfigOf, IsCopy
  <2> HIDE DEF f
  <2>5. FormKept(page[b], f, query[b], {})
    BY <1>b, <2>3, <2>4, JWTFilledAgrees DEF FormKept
  <2>6. FormKept(page[b], form'[b], query[b], touched'[b])
    BY <1>a, <2>1, <2>2, <2>5 DEF f
  <2> QED
    BY <1>1, <1>a, <2>1, <2>2, <2>6, OwnPage DEF ChooseTab
<1>2. CASE EditJWT(b)
  <2>1. PICK g \in JWTEdits(form[b].jwt.formData) :
          /\ form' = [form EXCEPT ![b].jwt = JWTChanged(@, g)]
          /\ touched' = [touched EXCEPT ![b] = @ \cup Differ(form[b].jwt.formData, g)]
    BY <1>2 DEF EditJWT
  <2>2. form[b].tab = "jwt"
    BY <1>2 DEF EditJWT
  <2>3. DOMAIN g = DOMAIN JWTDefaults /\ g # Undefined
    BY <1>a, <1>b, <2>2, JWTEditNames DEF FormKept
  <2>4. query[b].loaded =>
          AgreesJWT(g, query[b].data.jwt, touched[b] \cup Differ(form[b].jwt.formData, g))
    BY <1>a, <1>b, <2>2 DEF FormKept, AgreesJWT, Differ
  <2>5. form'[b].tab = "jwt" /\ form'[b].jwt.formData = g
    BY <1>a, <1>b, <2>1, <2>2 DEF IsSecurityPage, JWTChanged
  <2>6. touched'[b] = touched[b] \cup Differ(form[b].jwt.formData, g)
    BY <1>a, <2>1
  <2>7. FormKept(page[b], form'[b], query[b], touched'[b])
    BY <1>b, <2>3, <2>4, <2>5, <2>6 DEF FormKept
  <2>8. \A c \in Browsers \ {b} : form'[c] = form[c] /\ touched'[c] = touched[c]
    BY <1>a, <2>1
  <2> QED
    BY <1>2, <1>a, <2>7, <2>8, OwnPage DEF EditJWT
<1>3. CASE DeleteClick(b) \/ DeleteCancel(b)
  <2>1. PICK d : form' = [form EXCEPT ![b].dialog = d]
    BY <1>3 DEF DeleteClick, DeleteCancel
  <2>2. form'[b].tab = form[b].tab /\ form'[b].jwt = form[b].jwt
    BY <1>a, <1>b, <2>1 DEF IsSecurityPage
  <2>3. UNCHANGED touched
    BY <1>3 DEF DeleteClick, DeleteCancel
  <2>4. FormKept(page[b], form'[b], query[b], touched'[b])
    BY <1>a, <1>b, <2>2, <2>3 DEF FormKept
  <2>5. \A c \in Browsers \ {b} : form'[c] = form[c]
    BY <1>a, <2>1
  <2> QED
    BY <1>3, <1>a, <2>3, <2>4, <2>5, OwnPage DEF DeleteClick, DeleteCancel
<1> QED
  BY <1>1, <1>2, <1>3

\* What the security page shows of the latest document.
LEMMA ShownSecurity ==
  ASSUME UndefinedIsNoObject, Honest, NEW b \in Browsers,
         page[b] = "security", query[b].loaded, query[b].at = posts
  PROVE  /\ query[b].data.jwt = Get(Config(stored), "jwt", Empty)
         /\ SecurityConfigOf(query[b].data) = Get(Config(stored), "security", Empty)
<1>1. query[b].data = View("security", stored)
  BY PageFacts DEF CopyKept
<1>2. query[b].data # Undefined
  BY <1>1, ViewOf, Objects
<1> QED
  BY <1>1, <1>2, ViewOf DEF SecurityConfigOf

\* The settings for JWT are submitted.
LEMMA SubmitStep ==
  ASSUME UndefinedIsNoObject, Honest, IInv', NEW b \in Browsers, SubmitJWT(b)
  PROVE  Honest'
<1> USE DEF ghosts, bounds
<1>a. /\ CopyKept(page[b], query[b], stored, posts)
      /\ FormKept(page[b], form[b], query[b], touched[b])
      /\ KnownJWT(Config(stored))
      /\ DOMAIN form = Browsers
  BY PageFacts
<1>b. /\ page[b] = "security" /\ page[b] \notin Panels /\ IsSecurityPage(form[b])
      /\ form[b].tab = "jwt"
  <2>1. page[b] = "security" /\ form[b].tab = "jwt"
    BY DEF SubmitJWT, AtSecurity
  <2> QED
    BY <2>1, PageFacts, FormTypes DEF Panels
<1> DEFINE f == form[b].jwt.formData
           body == HandleJWTUpdate(f)
<1>1. /\ DOMAIN f = DOMAIN JWTDefaults /\ f # Undefined
      /\ query[b].loaded => AgreesJWT(f, query[b].data.jwt, touched[b])
  BY <1>a, <1>b DEF FormKept
<1>2. IsBody(page[b], body)
  BY <1>b, <1>1 DEF IsBody, HandleJWTUpdate
<1>3. ASSUME query[b].loaded, query[b].at = posts,
             NEW s, s.body = body, s.fields = touched[b]
      PROVE  Asked(s, Config(stored), Config(Update(page[b], stored, s.body)))
  BY <1>a, <1>b, <1>1, <1>3, ShownSecurity, JWTAsks DEF HandleJWTUpdate
<1>4. Mutate(b, body, touched[b], {}, {})
  BY DEF SubmitJWT
<1> HIDE DEF body
<1>5. /\ SaveKept(page[b], saving'[b], stored, posts)
      /\ \A c \in Browsers \ {b} : saving'[c] = saving[c]
  BY <1>2, <1>3, <1>4, MutateKeeps
<1>6. form' = [form EXCEPT ![b].jwt = JWTSubmitted(@)]
  BY DEF SubmitJWT
<1>7. form'[b].tab = "jwt" /\ form'[b].jwt.formData = f
  BY <1>a, <1>b, <1>6 DEF IsSecurityPage, JWTSubmitted
<1>8. UNCHANGED <<page, stored, posts, query, touched>>
  BY DEF SubmitJWT
<1>9. FormKept(page[b], form'[b], query'[b], touched'[b])
  BY <1>b, <1>1, <1>7, <1>8 DEF FormKept
<1>10. \A c \in Browsers \ {b} : form'[c] = form[c]
  BY <1>a, <1>6
<1> QED
  BY <1>a, <1>5, <1>8, <1>9, <1>10, OwnPage

\* An API key or an address is added or deleted.
LEMMA SectionStep ==
  ASSUME UndefinedIsNoObject, Honest, IInv', NEW b \in Browsers,
         AddKey(b) \/ AddAddress(b) \/ DeleteConfirm(b)
  PROVE  Honest'
<1> USE DEF ghosts, bounds
<1>a. /\ CopyKept(page[b], query[b], stored, posts)
      /\ FormKept(page[b], form[b], query[b], touched[b])
      /\ DOMAIN form = Browsers
  BY PageFacts
<1>b. page[b] = "security" /\ page[b] \notin Panels /\ IsSecurityPage(form[b])
  <2>1. page[b] = "security"
    BY DEF AddKey, AddAddress, DeleteConfirm, AtSecurity
  <2> QED
    BY <2>1, PageFacts, FormTypes DEF Panels
<1> DEFINE was == SecurityConfigOf(query[b].data)
<1>1. UNCHANGED <<page, stored, posts, query, touched>>
  BY DEF AddKey, AddAddress, DeleteConfirm
<1>2. form' = form \/ form' = [form EXCEPT ![b].dialog = Undefined]
  BY DEF AddKey, AddAddress, DeleteConfirm
<1>3. /\ form'[b].tab = form[b].tab /\ form'[b].jwt = form[b].jwt
      /\ \A c \in Browsers \ {b} : form'[c] = form[c]
  BY <1>a, <1>b, <1>2 DEF IsSecurityPage
<1>4. FormKept(page[b], form'[b], query'[b], touched'[b])
  BY <1>a, <1>b, <1>1, <1>3 DEF FormKept
<1>5. ASSUME NEW f, NEW kind, NEW added, NEW deleted,
             \A k \in Differ(was, f) : k = kind \/ k \notin DOMAIN was,
             Differ(KeysOf(was), KeysOf(f)) \subseteq added \cup deleted,
             Mutate(b, [security |-> f], {kind}, added, deleted)
      PROVE  Honest'
  <2> DEFINE body == [security |-> f]
  <2>1. IsBody(page[b], body)
    BY <1>b DEF IsBody
  <2>2. ASSUME query[b].loaded, query[b].at = posts,
               NEW s, s.body = body, s.fields = {kind}, s.added = added, s.deleted = deleted
        PROVE  Asked(s, Config(stored), Config(Update(page[b], stored, s.body)))
    <3>1. was = Get(Config(stored), "security", Empty)
      BY <1>b, <2>2, ShownSecurity
    <3> HIDE DEF was
    <3> QED
      BY <1>b, <1>5, <2>2, <3>1, SecurityAsks
  <2> HIDE DEF body
  <2>3. Mutate(b, body, {kind}, added, deleted)
    BY <1>5 DEF body
  <2>4. /\ SaveKept(page[b], saving'[b], stored, posts)
        /\ \A c \in Browsers \ {b} : saving'[c] = saving[c]
    BY <2>1, <2>2, <2>3, MutateKeeps
  <2> QED
    BY <1>a, <1>1, <1>3, <1>4, <2>4, OwnPage
<1> HIDE DEF was
<1>6. CASE AddKey(b)
  <2>1. PICK id, key :
          Mutate(b, HandleAPIKeyAdd(was, id, key), {"api_keys"}, {id}, {})
    BY <1>6 DEF AddKey, was
  <2>2. PICK f : /\ HandleAPIKeyAdd(was, id, key) = [security |-> f]
                 /\ Differ(was, f) \subseteq {"api_keys"}
                 /\ Differ(KeysOf(was), KeysOf(f)) \subseteq {id}
    BY KeyBodies
  <2> QED
    BY <1>5, <2>1, <2>2
<1>7. CASE AddAddress(b)
  <2>1. PICK kind, ip : /\ kind \in IPKinds
                        /\ Mutate(b, AddIP(was, kind, ip), {kind}, {}, {})
    BY <1>7 DEF AddAddress, was
  <2>2. kind # "api_keys"
    BY <2>1 DEF IPKinds
  <2>3. PICK f : /\ AddIP(was, kind, ip) = [security |-> f]
                 /\ \A k \in Differ(was, f) : k = kind \/ k \notin DOMAIN was
                 /\ Differ(KeysOf(was), KeysOf(f)) = {}
    BY <2>2, FilterBody DEF AddIP
  <2> QED
    BY <1>5, <2>1, <2>3
<1>8. CASE DeleteConfirm(b)
  <2> DEFINE d == form[b].dialog
  <2>1. CASE d.kind = "api_keys"
    <3>1. Mutate(b, HandleAPIKeyDelete(was, d.target), {"api_keys"}, {}, {d.target})
      BY <1>8, <2>1 DEF DeleteConfirm, ConfirmedDeletion, was
    <3>2. PICK f : /\ HandleAPIKeyDelete(was, d.target) = [security |-> f]
                   /\ Differ(was, f) \subseteq {"api_keys"}
                   /\ Differ(KeysOf(was), KeysOf(f)) \subseteq {d.target}
      BY KeyBodies
    <3> QED
      BY <1>5, <3>1, <3>2
  <2>2. CASE d.kind # "api_keys"
    <3>1. PICK kind, ip : /\ kind # "api_keys"
                          /\ Mutate(b, RemoveIP(was, kind, ip), {kind}, {}, {})
      BY <1>8, <2>2 DEF DeleteConfirm, ConfirmedDeletion, was
    <3>2. PICK f : /\ RemoveIP(was, kind, ip) = [security |-> f]
                   /\ \A k \in Differ(was, f) : k = kind \/ k \notin DOMAIN was
                   /\ Differ(KeysOf(was), KeysOf(f)) = {}
      BY <3>1, FilterBody DEF RemoveIP
    <3> QED
      BY <1>5, <3>1, <3>2
  <2> QED
    BY <2>1, <2>2
<1> QED
  BY <1>6, <1>7, <1>8

\* The document that an API route posts has no jwt section with unknown
\* fields either.
LEMMA UpdateKnown ==
  ASSUME NEW p \in Pages, NEW copy, NEW body,
         p # "editor" => KnownJWT(Config(copy)) /\ IsBody(p, body)
  PROVE  KnownJWT(Config(Update(p, copy, body)))
<1>1. \A m, w : Config([wrapped |-> w, config |-> m]) = IF w THEN m ELSE Empty
  BY DEF Config
<1>2. CASE p = "editor"
  <2>1. Update(p, copy, body) = [wrapped |-> FALSE, config |-> body]
    BY <1>2 DEF Update, Panels
  <2>2. Config(Update(p, copy, body)) = Empty
    BY <1>1, <2>1
  <2> QED
    BY <2>2 DEF KnownJWT, Empty
<1>3. CASE p \in Panels
  <2>1. Update(p, copy, body) = [wrapped |-> TRUE, config |-> Merge(Config(copy), body)]
    BY <1>3 DEF Update, Panels
  <2> DEFINE new == Merge(Config(copy), body)
  <2>2. Config(Update(p, copy, body)) = new
    BY <1>1, <2>1
  <2>3. p # "editor" /\ "jwt" \notin DOMAIN body
    BY <1>3 DEF IsBody, Panels, SectionOf
  <2>4. /\ "jwt" \in DOMAIN new => "jwt" \in DOMAIN Config(copy)
        /\ "jwt" \in DOMAIN Config(copy) => new["jwt"] = Config(copy)["jwt"]
    BY <2>3 DEF Merge, Over
  <2> HIDE DEF new
  <2> QED
    BY <2>2, <2>3, <2>4 DEF KnownJWT
<1>4. CASE p = "security"
  <2>1. Update(p, copy, body)
          = [wrapped |-> TRUE, config |-> MergeSecurity(Config(copy), body)]
    BY <1>4 DEF Update, Panels
  <2> DEFINE new == MergeSecurity(Config(copy), body)
  <2>2. Config(Update(p, copy, body)) = new
    BY <1>1, <2>1
  <2>3. CASE \E f : body = [jwt |-> f] /\ f # Undefined /\ DOMAIN f = DOMAIN JWTDefaults
    <3>1. PICK f : body = [jwt |-> f] /\ f # Undefined /\ DOMAIN f = DOMAIN JWTDefaults
      BY <2>3
    <3>2. new["jwt"] = f
      BY <3>1 DEF MergeSecurity, Over
    <3> HIDE DEF new
    <3> QED
      BY <2>2, <3>1, <3>2 DEF KnownJWT
  <2>4. CASE \E f : body = [security |-> f]
    <3>1. "jwt" \notin DOMAIN body
      BY <2>4
    <3>2. /\ "jwt" \in DOMAIN new => "jwt" \in DOMAIN Config(copy)
          /\ "jwt" \in DOMAIN Config(copy) => new["jwt"] = Config(copy)["jwt"]
      BY <3>1 DEF MergeSecurity, Over
    <3> HIDE DEF new
    <3> QED
      BY <1>4, <2>2, <3>2 DEF KnownJWT
  <2> QED
    BY <1>4, <2>3, <2>4 DEF IsBody
<1> QED
  BY <1>2, <1>3, <1>4 DEF Pages, Panels

\* The API route posts: the version changes, and what was of the version
\* before is no longer claimed to be current.
LEMMA PostStep ==
  ASSUME UndefinedIsNoObject, Honest, IInv', NEW b \in Browsers, RoutePosts(b)
  PROVE  Honest'
<1> USE DEF ghosts, bounds
<1>1. /\ UNCHANGED <<page, query, form, touched>>
      /\ posts' = posts + 1
      /\ stored' = Update(page[b], saving[b].copy, saving[b].body)
  BY DEF RoutePosts
<1>2. saving'[b].phase = "answered" /\ \A c \in Browsers \ {b} : saving'[c] = saving[c]
  BY PageFacts DEF RoutePosts, IsSave
<1>3. KnownJWT(Config(stored'))
  <2>1. saving[b].phase = "posting"
    BY DEF RoutePosts
  <2>2. page[b] # "editor" => KnownJWT(Config(saving[b].copy)) /\ IsBody(page[b], saving[b].body)
    BY <2>1, PageFacts DEF SaveKept
  <2> QED
    BY <1>1, <2>2, PageFacts, UpdateKnown
<1>4. ASSUME NEW c \in Browsers PROVE PageKept(c)'
  <2>1. /\ CopyKept(page[c], query[c], stored, posts)
        /\ FormKept(page[c], form[c], query[c], touched[c])
        /\ SaveKept(page[c], saving[c], stored, posts)
        /\ query[c].at <= posts /\ query[c].gotAt <= posts /\ posts \in Nat
        /\ IsQuery(query[c]) /\ IsSave(saving[c])
    BY PageFacts
  <2>2. query[c].at # posts + 1 /\ query[c].gotAt # posts + 1
    BY <2>1 DEF IsQuery
  <2>3. CopyKept(page[c], query[c], stored', posts + 1)
    BY <2>1, <2>2 DEF CopyKept
  <2>4. SaveKept(page[c], saving'[c], stored', posts + 1)
    <3>1. CASE c = b
      BY <1>2, <3>1 DEF SaveKept
    <3>2. CASE c # b
      <4>1. saving[c].base <= posts /\ saving[c].base \in Nat /\ saving[c].shown \in SUBSET Nat
        BY <2>1 DEF Honest, IInv, Reached, IsSave
      <4>2. \A v \in Nat : v <= posts => v <= posts + 1 /\ v # posts + 1
        BY <2>1
      <4> QED
        BY <1>2, <2>1, <3>2, <4>1, <4>2 DEF SaveKept
    <3> QED
      BY <3>1, <3>2
  <2> QED
    BY <1>1, <2>1, <2>3, <2>4 DEF PageKept
<1> QED
  BY <1>3, <1>4 DEF Honest

\* The API route reads, and the save ends.
LEMMA ReadAndEnd ==
  ASSUME UndefinedIsNoObject, Honest, IInv', NEW b \in Browsers,
         RouteReads(b) \/ SaveFails(b) \/ Saved(b)
  PROVE  Honest'
<1> USE DEF ghosts, bounds
<1>a. /\ CopyKept(page[b], query[b], stored, posts)
      /\ FormKept(page[b], form[b], query[b], touched[b])
      /\ SaveKept(page[b], saving[b], stored, posts)
      /\ KnownJWT(Config(stored))
      /\ DOMAIN form = Browsers /\ DOMAIN query = Browsers /\ DOMAIN saving = Browsers
      /\ IsSave(saving[b]) /\ IsQuery(query[b])
  BY PageFacts
<1>b. SaveKept(page[b], NoSave, stored, posts)
  BY DEF SaveKept, NoSave
<1>1. CASE RouteReads(b)
  <2> DEFINE s == [saving[b] EXCEPT !.phase = "posting", !.copy = stored, !.base = posts]
  <2>1. saving' = [saving EXCEPT ![b] = s]
    BY <1>1 DEF RouteReads
  <2>2. /\ s.body = saving[b].body /\ s.fields = saving[b].fields
        /\ s.added = saving[b].added /\ s.deleted = saving[b].deleted
        /\ s.shown = saving[b].shown /\ s.copy = stored /\ s.base = posts
        /\ saving[b].phase = "reading"
    BY <1>1, <1>a DEF RouteReads, IsSave
  <2> HIDE DEF s
  <2>3. SaveKept(page[b], s, stored, posts)
    BY <1>a, <2>2, AskedOfSame DEF SaveKept
  <2>4. /\ SaveKept(page[b], saving'[b], stored, posts)
        /\ \A c \in Browsers \ {b} : saving'[c] = saving[c]
    BY <1>a, <2>1, <2>3
  <2> QED
    BY <1>1, <1>a, <2>4, OwnPage DEF RouteReads
<1>2. CASE SaveFails(b)
  BY <1>2, <1>a, <1>b, OwnPage DEF SaveFails
<1>3. CASE Saved(b)
  <2>1. /\ UNCHANGED <<page, stored, posts, touched>>
        /\ saving' = [saving EXCEPT ![b] = NoSave]
        /\ query' = [query EXCEPT ![b] = AfterSave(@)]
        /\ form' = [form EXCEPT ![b] = SavedForm(b)]
    BY <1>3 DEF Saved
  <2> DEFINE q == AfterSave(query[b])
  <2>2. /\ q.loaded = query[b].loaded /\ q.data = query[b].data /\ q.at = query[b].at
        /\ q = query[b] \/ q.phase = "sent"
    BY <1>a DEF AfterSave, Invalidated, StartFetch, IsQuery
  <2> HIDE DEF q
  <2>3. CopyKept(page[b], q, stored, posts)
    BY <1>a, <2>2 DEF CopyKept
  <2>4. /\ page[b] \in Panels => SavedForm(b).formData = form[b].formData
        /\ page[b] = "security" => SavedForm(b) = form[b]
    <3>1. IsForm(page[b], form[b])
      BY PageFacts
    <3> QED
      BY <3>1, FormTypes DEF SavedForm, Panels
  <2>5. FormKept(page[b], SavedForm(b), q, touched[b])
    BY <1>a, <2>2, <2>4 DEF FormKept
  <2>6. /\ query'[b] = q /\ form'[b] = SavedForm(b) /\ saving'[b] = NoSave
        /\ \A c \in Browsers \ {b} : /\ query'[c] = query[c] /\ form'[c] = form[c]
                                     /\ saving'[c] = saving[c]
    BY <1>a, <2>1 DEF q
  <2> QED
    BY <1>b, <2>1, <2>3, <2>5, <2>6, OwnPage
<1> QED
  BY <1>1, <1>2, <1>3

\* The queries.
LEMMA QueryKeeps ==
  ASSUME UndefinedIsNoObject, Honest, IInv', NEW b \in Browsers, QuerySteps(b)
  PROVE  Honest'
<1> USE DEF ghosts, bounds
<1>a. /\ CopyKept(page[b], query[b], stored, posts)
      /\ FormKept(page[b], form[b], query[b], touched[b])
      /\ SaveKept(page[b], saving[b], stored, posts)
      /\ KnownJWT(Config(stored))
      /\ DOMAIN form = Browsers /\ DOMAIN query = Browsers /\ DOMAIN touched = Browsers
      /\ IsQuery(query[b]) /\ IsForm(page[b], form[b]) /\ page[b] \in Pages
  BY PageFacts
<1>1. CASE Refetch(b)
  <2> DEFINE q == StartFetch(query[b])
  <2>1. query' = [query EXCEPT ![b] = q]
    BY <1>1 DEF Refetch
  <2>2. /\ q.loaded = query[b].loaded /\ q.data = query[b].data /\ q.at = query[b].at
        /\ q.phase = "sent"
    BY <1>a, QueryFields
  <2> HIDE DEF q
  <2>3. CopyKept(page[b], q, stored, posts) /\ FormKept(page[b], form[b], q, touched[b])
    BY <1>a, <2>2 DEF CopyKept, FormKept
  <2> QED
    BY <1>1, <1>a, <2>1, <2>3, OwnPage DEF Refetch
<1>2. CASE FetchAnswered(b)
  <2> DEFINE q == Answered(query[b], View(page[b], stored), posts)
  <2>1. query' = [query EXCEPT ![b] = q]
    BY <1>2 DEF FetchAnswered
  <2>2. /\ q.loaded = query[b].loaded /\ q.data = query[b].data /\ q.at = query[b].at
        /\ q.got = View(page[b], stored) /\ q.gotAt = posts
    BY <1>a DEF Answered, IsQuery
  <2> HIDE DEF q
  <2>3. page[b] = "security" => IsCopy(View(page[b], stored))
    BY <1>a, ViewOf, Objects DEF IsCopy, KnownJWT, Get
  <2>4. CopyKept(page[b], q, stored, posts) /\ FormKept(page[b], form[b], q, touched[b])
    BY <1>a, <2>2, <2>3 DEF CopyKept, FormKept
  <2> QED
    BY <1>2, <1>a, <2>1, <2>4, OwnPage DEF FetchAnswered
<1>3. CASE FetchArrives(b)
  <2> DEFINE q == Arrived(query[b])
  <2>1. /\ query' = [query EXCEPT ![b] = q]
        /\ UNCHANGED <<page, stored, posts, saving>>
        /\ query[b].phase = "answered"
    BY <1>3 DEF FetchArrives
  <2>2. /\ q.loaded /\ q.data = query[b].got /\ q.at = query[b].gotAt /\ q.phase = "idle"
    BY <1>a, QueryFields
  <2> HIDE DEF q
  <2>3. CopyKept(page[b], q, stored, posts)
    BY <1>a, <2>1, <2>2 DEF CopyKept
  <2>4. page[b] = "security" => IsCopy(q.data) /\ (query[b].loaded => IsCopy(query[b].data))
    BY <1>a, <2>1, <2>2 DEF CopyKept
  <2>5. FormKept(page[b], form'[b], q, touched'[b])
    <3>1. CASE ~IsNews(query[b])
      <4>1. query[b].loaded /\ q.data = query[b].data
        BY <2>2, <3>1 DEF IsNews
      <4>2. UNCHANGED <<form, touched>>
        BY <1>3, <3>1 DEF FetchArrives
      <4> QED
        BY <1>a, <2>2, <4>1, <4>2 DEF FormKept
    <3>2. CASE IsNews(query[b])
      <4> DEFINE fields == IF Refilled(b) THEN {} ELSE touched[b]
      <4>1. form'[b] = FilledForm(b) /\ touched'[b] = fields
        BY <1>3, <1>a, <3>2 DEF FetchArrives
      <4>2. CASE page[b] \in Panels
        <5>1. FilledForm(b) = [formData |-> PanelFormOf(page[b], query[b].got),
                               hasChanges |-> FALSE]
          BY <4>2 DEF FilledForm, Panels
        <5>2. page[b] # "security"
          BY <4>2 DEF Panels
        <5> QED
          BY <2>2, <4>1, <5>1, <5>2, FilledAgrees DEF FormKept
      <4>3. CASE page[b] = "editor"
        BY <4>3 DEF FormKept, Panels
      <4>4. CASE page[b] = "security"
        <5>1. IsSecurityPage(form[b]) /\ page[b] \notin Panels
          BY <1>a, <4>4, FormTypes DEF Panels
        <5>2. CASE ~query[b].loaded
          <6>1. FilledForm(b) = SecurityMounted(query[b].got)
            BY <4>4, <5>2 DEF FilledForm, Panels
          <6>2. FilledForm(b).jwt = JWTMounted(q.data.jwt) /\ q.data.jwt # Undefined
            BY <2>2, <2>4, <4>4, <6>1 DEF SecurityMounted, JWTConfigOf, IsCopy
          <6> QED
            BY <4>1, <5>1, <6>2, JWTFilledAgrees DEF FormKept
        <5>3. CASE query[b].loaded
          <6>1. FilledForm(b) =
                  IF form[b].tab = "jwt" /\ query[b].got.jwt # query[b].data.jwt
                  THEN [form[b] EXCEPT !.jwt = JWTSynced(@, query[b].got.jwt)]
                  ELSE form[b]
            BY <4>4, <5>3 DEF FilledForm, Panels
          <6>2. CASE form[b].tab = "jwt" /\ query[b].got.jwt # query[b].data.jwt
            <7>1. /\ FilledForm(b).tab = "jwt"
                  /\ FilledForm(b).jwt.formData = JWTFormOf(q.data.jwt)
              BY <2>2, <5>1, <6>1, <6>2 DEF IsSecurityPage, JWTSynced
            <7> QED
              BY <4>1, <5>1, <7>1, JWTFilledAgrees DEF FormKept
          <6>3. CASE form[b].tab = "jwt" /\ query[b].got.jwt = query[b].data.jwt
            <7>1. FilledForm(b) = form[b] /\ fields = touched[b]
              BY <4>4, <5>1, <5>3, <6>1, <6>3 DEF Refilled
            <7> QED
              BY <1>a, <2>2, <4>1, <5>1, <5>3, <6>3, <7>1 DEF FormKept
          <6>4. CASE form[b].tab # "jwt"
            BY <4>1, <5>1, <6>1, <6>4 DEF FormKept
          <6> QED
            BY <6>2, <6>3, <6>4
        <5> QED
          BY <5>2, <5>3
      <4> QED
        BY <1>a, <4>2, <4>3, <4>4 DEF Pages, Panels
    <3> QED
      BY <3>1, <3>2
  <2>6. /\ query'[b] = q
        /\ \A c \in Browsers \ {b} : /\ query'[c] = query[c] /\ form'[c] = form[c]
                                     /\ touched'[c] = touched[c]
    BY <1>3, <1>a, <2>1 DEF FetchArrives
  <2> QED
    BY <1>a, <2>1, <2>3, <2>5, <2>6, OwnPage
<1>4. CASE FetchFails(b)
  <2> DEFINE q == Failed(query[b])
  <2>1. /\ query' = [query EXCEPT ![b] = q]
        /\ UNCHANGED <<page, stored, posts, saving, touched>>
    BY <1>4 DEF FetchFails
  <2>2. /\ q.loaded = query[b].loaded /\ q.data = query[b].data /\ q.at = query[b].at
        /\ q.phase = "idle"
    BY <1>a, QueryFields
  <2> HIDE DEF q
  <2>3. CopyKept(page[b], q, stored, posts)
    BY <1>a, <2>2 DEF CopyKept
  <2>4. /\ page[b] = "security" /\ ~query[b].loaded => form'[b] = SecurityMounted(Undefined)
        /\ ~(page[b] = "security" /\ ~query[b].loaded) => form'[b] = form[b]
        /\ \A c \in Browsers \ {b} : form'[c] = form[c]
    BY <1>4, <1>a DEF FetchFails
  <2>5. SecurityMounted(Undefined).jwt = JWTMounted(Undefined)
    BY DEF SecurityMounted, JWTConfigOf
  <2>6. FormKept(page[b], form'[b], q, touched[b])
    BY <1>a, <2>2, <2>4, <2>5, JWTFilledAgrees DEF FormKept, Panels
  <2> QED
    BY <1>a, <2>1, <2>3, <2>4, <2>6, OwnPage
<1> QED
  BY <1>1, <1>2, <1>3, <1>4 DEF QuerySteps

\* Every step keeps what the pages hold honest.
LEMMA NextHonest == ASSUME UndefinedIsNoObject, Honest, [Next]_vars PROVE Honest'
<1>1. IInv'
  BY NextIInv DEF Honest
<1>2. ASSUME NEW b \in Browsers, UserSteps(b) PROVE Honest'
  BY <1>1, <1>2, PanelSteps, EditorSteps, SecurityForm, SubmitStep, SectionStep DEF UserSteps
<1>3. ASSUME NEW b \in Browsers, SaveSteps(b) PROVE Honest'
  BY <1>1, <1>3, PostStep, ReadAndEnd DEF SaveSteps
<1>4. CASE Next
  BY <1>1, <1>2, <1>3, <1>4, QueryKeeps DEF Next
<1>5. CASE UNCHANGED vars
  BY <1>1, <1>5 DEF vars, ghosts, Honest, PageKept
<1> QED
  BY <1>4, <1>5

\* A save that arrives at the document it was made of changes what was
\* asked. Only its own post can be what ends it.
LEMMA PostsAreAsked ==
  ASSUME UndefinedIsNoObject, Honest, Next, NEW b \in Browsers,
         IsCurrent(b), posts' # posts, saving'[b].phase = "answered"
  PROVE  OnlyAsked(b, Config(stored), Config(stored'))
<1> USE DEF ghosts, bounds
<1>1. PICK c \in Browsers : RoutePosts(c)
  <2>1. PICK c \in Browsers : UserSteps(c) \/ SaveSteps(c) \/ QuerySteps(c)
    BY DEF Next
  <2>2. CASE UserSteps(c)
    BY <2>2 DEF UserSteps, EditPanel, SavePanel, ResetPanel, EditText, SaveText, ResetText,
       ChooseTab, EditJWT, SubmitJWT, AddKey, AddAddress, DeleteClick, DeleteCancel,
       DeleteConfirm
  <2>3. CASE SaveSteps(c)
    BY <2>3 DEF SaveSteps, RouteReads, SaveFails, Saved
  <2>4. CASE QuerySteps(c)
    BY <2>4 DEF QuerySteps, Refetch, FetchAnswered, FetchArrives, FetchFails
  <2> QED
    BY <2>1, <2>2, <2>3, <2>4
<1>2. c = b
  BY <1>1, PageFacts DEF RoutePosts, IsCurrent
<1>3. saving[b].phase = "posting" /\ page[b] # "editor" /\ saving[b].shown = {posts}
      /\ saving[b].base = posts
  BY DEF IsCurrent
<1>4. saving[b].copy = stored /\ Asked(saving[b], Config(stored),
                                      Config(Update(page[b], stored, saving[b].body)))
  BY <1>3, PageFacts DEF SaveKept
<1>5. stored' = Update(page[b], stored, saving[b].body)
  BY <1>1, <1>2, <1>4 DEF RoutePosts
<1> QED
  BY <1>4, <1>5, AskedIsOnlyAsked

\* A save made of the latest document changes what its user changed and
\* nothing else.
THEOREM SavesAreHonest ==
  ASSUME UndefinedIsNoObject
  PROVE  Spec => SavesChangeOnlyWhatWasAsked
<1>1. Init => Honest
  BY InitHonest
<1>2. Honest /\ [Next]_vars => Honest'
  BY NextHonest
<1>3. Honest /\ [Next]_vars =>
        [\A b \in Browsers :
           IsCurrent(b) /\ posts' # posts /\ saving'[b].phase = "answered" =>
             OnlyAsked(b, Config(stored), Config(stored'))]_vars
  BY PostsAreAsked
<1> QED
  BY <1>1, <1>2, <1>3, PTL DEF Spec, SavesChangeOnlyWhatWasAsked
=============================================================================
