---------------------------- MODULE ConfigDraft -----------------------------
(***************************************************************************)
(* The text of the JSON editor of the settings page (src/ui/src/components/*)
(* settings/ConfigEditor.tsx): editorValue (text), serverValue (server),   *)
(* hasChanges and jsonError. A text is the document it is the JSON of, or  *)
(* one of two texts that are no JSON. The effect of [config, hasChanges]   *)
(* runs when hasChanges flips as well as when the query has news, which    *)
(* every operation here includes. Read-only mode only keeps the user from  *)
(* typing and saving; it and the messages are left out.                    *)
(*                                                                         *)
(* A definition that nothing uses, just before the one it varies, is a     *)
(* faulty variant: README.md says which property rejects it.               *)
(***************************************************************************)
EXTENDS DashboardQuery

CONSTANTS
  Blank,   \* the empty text, which the editor starts with
  Broken,  \* any other text that is no JSON
  Drafts   \* documents that may be typed

IsJSON(text) == text \notin {Blank, Broken}

IsDraft(e) ==
  e \in [text: {e.text}, server: {e.server}, hasChanges: BOOLEAN, jsonError: BOOLEAN]

NewDraft == [text |-> Blank, server |-> Blank, hasChanges |-> FALSE, jsonError |-> FALSE]

\* Faulty: the effect writes over what is being typed.
DraftSyncedAlways(e, config) ==
  IF config = Undefined THEN e ELSE [e EXCEPT !.server = config, !.text = config]

\* The effect, when config is what the query holds.
DraftSynced(e, config) ==
  IF config = Undefined THEN e
  ELSE [e EXCEPT !.server = config,
                 !.text = IF e.hasChanges THEN @ ELSE config]

\* n is what a handler made of e.
AfterHandler(e, n, config) ==
  IF n.hasChanges = e.hasChanges THEN n ELSE DraftSynced(n, config)

DraftTyped(e, config, text) ==
  AfterHandler(e, [e EXCEPT !.text = text, !.hasChanges = text # e.server,
                            !.jsonError = ~IsJSON(text)], config)

CanSaveDraft(e) == e.hasChanges /\ ~e.jsonError /\ IsJSON(e.text)

DraftSaved(e, config, posted) ==
  AfterHandler(e, [e EXCEPT !.hasChanges = FALSE, !.server = posted], config)

CanResetDraft(e) == e.hasChanges

DraftReset(e, config) ==
  AfterHandler(e, [e EXCEPT !.text = e.server, !.hasChanges = FALSE,
                            !.jsonError = FALSE], config)

\* What the text may become: a document, no JSON, or what the server has.
TypedTexts(e) == (Drafts \cup {Broken, e.server}) \ {e.text}
=============================================================================
