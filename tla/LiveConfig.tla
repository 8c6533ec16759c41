------------------------------ MODULE LiveConfig ------------------------------
(***************************************************************************)
(* The administrator's updates of the running gateway: handleUpdateConfig  *)
(* of AdminAPI.cpp, and the callback by which main.cpp hands the settings  *)
(* of the posted document, one after the other, to the rate limiter, the   *)
(* security validator and the server. Several threads serve administrators *)
(* and nothing excludes them from each other.                              *)
(*                                                                         *)
(* In a document each setting has a value or is absent. A value may be odd *)
(* (not of the shape that is looked for, so passed over) or bad (reading   *)
(* it throws). The races of the setters with the threads that     *)
(* serve clients are not modelled.                                         *)
(*                                                                         *)
(* A definition that nothing uses, just before the one it varies, is a     *)
(* faulty variant: README.md says which property rejects it.               *)
(***************************************************************************)
EXTENDS Naturals, Sequences

CONSTANTS
  Admins,         \* threads that serve administrators
  Endpoints,      \* paths with a limit of their own, in the order of a document
  Values,         \* well-formed values
  Odd, Bad,       \* the two other kinds of value
  Absent,         \* the document does not name the setting
  Default,        \* the value of a setting that was never configured
  Documents,      \* what administrators want to post
  FirstDocument,  \* the configuration file
  Forms           \* how they post it: "bare", or "wrapped" as the dashboard does

\* The settings in the order in which the callback looks for them.
Order ==
  <<"global", "per_ip">> \o Endpoints \o
  <<"per_ip_connections", "allowed_methods", "ip_whitelist", "ip_blacklist",
    "api_keys", "headers", "cors">>

Settings == {Order[i] : i \in DOMAIN Order}
Before(s, t) == \E i, j \in DOMAIN Order : i < j /\ Order[i] = s /\ Order[j] = t

Document == [Settings -> Values \cup {Odd, Bad, Absent}]

ASSUME LiveConfigAssumption ==
  /\ Endpoints \in Seq(STRING)
  /\ Values \cap {Odd, Bad, Absent} = {}
  /\ Odd # Bad /\ Odd # Absent /\ Bad # Absent
  /\ Documents \subseteq Document
  /\ FirstDocument \in Document
  /\ \A s \in Settings : FirstDocument[s] # Bad
  /\ Forms \subseteq {"bare", "wrapped"}

Nothing == [s \in Settings |-> Absent]

PresentOrNot(document) == Settings

\* The settings the document names.
Present(document) == {s \in Settings : document[s] # Absent}

\* The settings the document gives a well-formed value.
Given(document) == {s \in Settings : document[s] \in Values}

\* The callback looks for settings at the top of the document only.
Top(form, document) == IF form = "wrapped" THEN Nothing ELSE document

VARIABLES
  live,       \* live[s]: the value the gateway works with
  shown,      \* current_config_, which GET /admin/config replies
  pc,         \* pc[a]: "idle", "applying", or the reply: "updated", "failed", "rejected"
  wanted,     \* wanted[a]: the document a's administrator wants in force
  posted,     \* posted[a]: what the callback sees of it
  left,       \* left[a]: the settings of posted[a] the callback has not come to
  outdated,   \* history: outdated[a], settings others have written since a began
  disturbed   \* history: settings last written by an update that failed, or
              \* while another one was under way

update == <<wanted, posted, left>>
vars == <<live, shown, pc, update, outdated, disturbed>>

\* main applies the configuration file before the server starts.
Init ==
  /\ live = [s \in Settings |->
               IF s \in Given(FirstDocument) THEN FirstDocument[s] ELSE Default]
  /\ shown = FirstDocument
  /\ pc = [a \in Admins |-> "idle"]
  /\ wanted = [a \in Admins |-> Nothing]
  /\ posted = [a \in Admins |-> Nothing]
  /\ left = [a \in Admins |-> {}]
  /\ outdated = [a \in Admins |-> {}]
  /\ disturbed = {}

-----------------------------------------------------------------------------
Goto(a, stage) == pc' = [pc EXCEPT ![a] = stage]

UnderWay == {a \in Admins : pc[a] = "applying"}

\* The settings a's update has written so far.
Written(a) == Given(posted[a]) \ left[a]

Post(a) ==
  /\ pc[a] = "idle"
  /\ Goto(a, "applying")
  /\ \E d \in Documents, form \in Forms :
       /\ wanted' = [wanted EXCEPT ![a] = d]
       /\ posted' = [posted EXCEPT ![a] = Top(form, d)]
       /\ left' = [left EXCEPT ![a] = Present(Top(form, d))]
  /\ outdated' = [outdated EXCEPT ![a] = {}]
  /\ UNCHANGED <<live, shown, disturbed>>

Refused(a) ==
  /\ pc[a] = "idle"
  /\ Goto(a, "rejected")
  /\ UNCHANGED <<live, shown, update, outdated, disturbed>>

\* verifyAdminToken finds no valid token: 401.
Unauthorized(a) == Refused(a)

\* The body is no JSON, or no object: 400.
Malformed(a) == Refused(a)

IsNextInAnyOrder(a, s) == s \in left[a]

\* The setting the callback looks for next.
IsNext(a, s) == s \in left[a] /\ \A t \in left[a] : ~Before(t, s)

Outdate(a, s) == [b \in Admins |-> IF b = a THEN outdated[b] ELSE outdated[b] \cup {s}]

\* The setter of a setting is called.
Apply(a, s) ==
  /\ pc[a] = "applying"
  /\ IsNext(a, s)
  /\ posted[a][s] \in Values
  /\ live' = [live EXCEPT ![s] = posted[a][s]]
  /\ left' = [left EXCEPT ![a] = @ \ {s}]
  /\ outdated' = Outdate(a, s)
  /\ disturbed' = IF UnderWay = {a} THEN disturbed \ {s} ELSE disturbed \cup {s}
  /\ UNCHANGED <<shown, pc, wanted, posted>>

AfterOddNothing(a, s) == {}

AfterOdd(a, s) == left[a] \ {s}

PassOver(a, s) ==
  /\ pc[a] = "applying"
  /\ IsNext(a, s)
  /\ posted[a][s] = Odd
  /\ left' = [left EXCEPT ![a] = AfterOdd(a, s)]
  /\ UNCHANGED <<live, shown, pc, wanted, posted, outdated, disturbed>>

ShownAfterFailureAsPosted(a) == posted[a]

\* The exception passes the assignment of current_config_.
ShownAfterFailure(a) == shown

\* A value throws: the settings before it stay as written.
Throw(a, s) ==
  /\ pc[a] = "applying"
  /\ IsNext(a, s)
  /\ posted[a][s] = Bad
  /\ Goto(a, "failed")
  /\ shown' = ShownAfterFailure(a)
  /\ disturbed' = disturbed \cup Written(a)
  /\ UNCHANGED <<live, update, outdated>>

\* The callback has returned: current_config_ becomes the document.
Save(a) ==
  /\ pc[a] = "applying"
  /\ left[a] = {}
  /\ shown' = posted[a]
  /\ Goto(a, "updated")
  /\ UNCHANGED <<live, update, outdated, disturbed>>

Replied(a) ==
  /\ pc[a] \in {"updated", "failed", "rejected"}
  /\ Goto(a, "idle")
  /\ wanted' = [wanted EXCEPT ![a] = Nothing]
  /\ posted' = [posted EXCEPT ![a] = Nothing]
  /\ left' = [left EXCEPT ![a] = {}]
  /\ outdated' = [outdated EXCEPT ![a] = {}]
  /\ UNCHANGED <<live, shown, disturbed>>

-----------------------------------------------------------------------------
HandleUpdateConfig(a) ==
  \/ Post(a) \/ Unauthorized(a) \/ Malformed(a) \/ Save(a) \/ Replied(a)
  \/ \E s \in Settings : Apply(a, s) \/ PassOver(a, s) \/ Throw(a, s)

Next == \E a \in Admins : HandleUpdateConfig(a)

Spec == Init /\ [][Next]_vars

-----------------------------------------------------------------------------
\* Every variable keeps its type; what is left to apply was posted.
TypeOK ==
  /\ live \in [Settings -> Values \cup {Default}]
  /\ shown \in Document
  /\ pc \in [Admins -> {"idle", "applying", "updated", "failed", "rejected"}]
  /\ wanted \in [Admins -> Document]
  /\ posted \in [Admins -> Document]
  /\ left \in [Admins -> SUBSET Settings]
  /\ \A a \in Admins : \A s \in left[a] : posted[a][s] # Absent
  /\ outdated \in [Admins -> SUBSET Settings]
  /\ disturbed \subseteq Settings

\* Every well-formed setting of the document is in force, or was until another
\* administrator's update changed it.
InForce(a, document) ==
  \A s \in Given(document) : live[s] = document[s] \/ s \in outdated[a]

(***************************************************************************)
(* When "Configuration updated successfully" is replied (AdminAPI.cpp:121) *)
(* every well-formed setting at the top of the posted document is in       *)
(* force, whatever else the document holds and whatever other updates did  *)
(* meanwhile to other settings.                                            *)
(***************************************************************************)
UpdatedMeansInForce == \A a \in Admins : pc[a] = "updated" => InForce(a, posted[a])

(***************************************************************************)
(* GET /admin/config shows what is in force (AdminAPI.cpp:11 "View current *)
(* configuration"), but for the settings updates under way have written    *)
(* and those last written by an update that failed half way or ran beside  *)
(* another: their order of applying and of saving may differ.              *)
(***************************************************************************)
ShownIsInForce ==
  \A s \in Given(shown) :
    \/ shown[s] = live[s]
    \/ s \in disturbed
    \/ \E a \in UnderWay : s \in Written(a)

(***************************************************************************)
(* A failed update has put in force all that stands before the value it    *)
(* threw on and nothing that stands behind it (main.cpp:358-446), so that  *)
(* posting the corrected document completes it.                            *)
(***************************************************************************)
FailedUpdateIsAPrefix ==
  \A a \in Admins : pc[a] = "failed" =>
    /\ \A s \in Written(a) : live[s] = posted[a][s] \/ s \in outdated[a]
    /\ \A s \in Written(a), t \in left[a] : ~Before(t, s)

(***************************************************************************)
(* What the administrator wanted is in force when the reply says so, also  *)
(* through the dashboard, whose API is to "Get/update rate limit           *)
(* configuration" (ui/README.md:118). Violated: it wraps the document.     *)
(***************************************************************************)
WantedIsInForce == \A a \in Admins : pc[a] = "updated" => InForce(a, wanted[a])
=============================================================================
