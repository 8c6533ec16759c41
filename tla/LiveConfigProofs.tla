-------------------------- MODULE LiveConfigProofs --------------------------
(***************************************************************************)
(* The administrator's updates for any threads, documents, endpoints and   *)
(* values, whether posted bare or wrapped.                                 *)
(***************************************************************************)
EXTENDS LiveConfig, TLAPS

\* Whatever the form, the callback sees a document.
LEMMA TopType ==
  ASSUME NEW d \in Document, NEW form
  PROVE  Top(form, d) \in Document
BY DEF Top, Nothing, Document

\* Nothing is a document and gives no setting a value.
LEMMA NothingType == Nothing \in Document /\ Given(Nothing) = {}
BY LiveConfigAssumption DEF Nothing, Document, Given

\* The types of the variables, for any documents.
THEOREM TypeCorrect == Spec => []TypeOK
<1>1. Init => TypeOK
  <2> SUFFICES ASSUME Init PROVE TypeOK
    OBVIOUS
  <2>1. live \in [Settings -> Values \cup {Default}]
    BY DEF Init, Given
  <2> QED
    BY <2>1, NothingType, LiveConfigAssumption DEF Init, TypeOK
<1>2. TypeOK /\ [Next]_vars => TypeOK'
  <2> SUFFICES ASSUME TypeOK, [Next]_vars PROVE TypeOK'
    OBVIOUS
  <2> USE DEF TypeOK, Goto
  <2>1. ASSUME NEW a \in Admins, Post(a) PROVE TypeOK'
    <3>1. PICK d \in Documents, form \in Forms :
            /\ wanted' = [wanted EXCEPT ![a] = d]
            /\ posted' = [posted EXCEPT ![a] = Top(form, d)]
            /\ left' = [left EXCEPT ![a] = Present(Top(form, d))]
      BY <2>1 DEF Post
    <3>2. d \in Document /\ Top(form, d) \in Document
      BY LiveConfigAssumption, TopType
    <3>3. /\ Present(Top(form, d)) \subseteq Settings
          /\ \A s \in Present(Top(form, d)) : Top(form, d)[s] # Absent
      BY DEF Present
    <3> QED
      BY <2>1, <3>1, <3>2, <3>3 DEF Post
  <2>2. ASSUME NEW a \in Admins, Refused(a) PROVE TypeOK'
    BY <2>2 DEF Refused, update
  <2>3. ASSUME NEW a \in Admins, Save(a) PROVE TypeOK'
    BY <2>3 DEF Save, update
  <2>4. ASSUME NEW a \in Admins, Replied(a) PROVE TypeOK'
    BY <2>4, NothingType DEF Replied
  <2>5. ASSUME NEW a \in Admins, NEW s \in Settings, Apply(a, s) PROVE TypeOK'
    <3>1. live' \in [Settings -> Values \cup {Default}]
      BY <2>5 DEF Apply
    <3>2. outdated' \in [Admins -> SUBSET Settings]
      BY <2>5 DEF Apply, Outdate
    <3> QED
      BY <2>5, <3>1, <3>2 DEF Apply
  <2>6. ASSUME NEW a \in Admins, NEW s \in Settings, PassOver(a, s) PROVE TypeOK'
    BY <2>6 DEF PassOver, AfterOdd
  <2>7. ASSUME NEW a \in Admins, NEW s \in Settings, Throw(a, s) PROVE TypeOK'
    BY <2>7 DEF Throw, ShownAfterFailure, Written, Given, update
  <2>8. CASE UNCHANGED vars
    BY <2>8 DEF vars, update
  <2> QED
    BY <2>1, <2>2, <2>3, <2>4, <2>5, <2>6, <2>7, <2>8 DEF Next, HandleUpdateConfig, Unauthorized, Malformed
<1> QED
  BY <1>1, <1>2, PTL DEF Spec

-----------------------------------------------------------------------------
(***************************************************************************)
(* What an update has written is in force until another one writes it; all *)
(* of it lies before what is left; and after a success nothing is left.    *)
(***************************************************************************)
WrittenInForce ==
  \A a \in Admins : \A s \in Written(a) : live[s] = posted[a][s] \/ s \in outdated[a]

WrittenFirst == \A a \in Admins : \A s \in Written(a), t \in left[a] : ~Before(t, s)

AllWritten == \A a \in Admins : pc[a] = "updated" => left[a] = {}

WriteInv == WrittenInForce /\ WrittenFirst /\ AllWritten

\* No step of any update breaks these, those of other administrators included.
LEMMA WriteInductive == Spec => []WriteInv
<1>1. Init => WriteInv
  BY NothingType DEF Init, WriteInv, WrittenInForce, WrittenFirst, AllWritten, Written
<1>2. TypeOK /\ WriteInv /\ [Next]_vars => WriteInv'
  <2> SUFFICES ASSUME TypeOK, WriteInv, [Next]_vars PROVE WriteInv'
    OBVIOUS
  <2> USE DEF WriteInv, WrittenInForce, WrittenFirst, AllWritten, TypeOK, Goto
  <2>1. ASSUME NEW a \in Admins, Post(a) PROVE WriteInv'
    <3>1. /\ Written(a)' = {} /\ pc'[a] # "updated"
          /\ \A b \in Admins \ {a} : /\ Written(b)' = Written(b)
                                     /\ posted'[b] = posted[b] /\ left'[b] = left[b]
                                     /\ pc'[b] = pc[b] /\ outdated'[b] = outdated[b]
      BY <2>1, LiveConfigAssumption DEF Post, Written, Given, Present
    <3> QED
      BY <2>1, <3>1 DEF Post
  <2>2. ASSUME NEW a \in Admins, Refused(a) PROVE WriteInv'
    BY <2>2 DEF Refused, update, Written
  <2>3. ASSUME NEW a \in Admins, Save(a) PROVE WriteInv'
    BY <2>3 DEF Save, update, Written
  <2>4. ASSUME NEW a \in Admins, Replied(a) PROVE WriteInv'
    <3>1. /\ Written(a)' = {} /\ left'[a] = {}
          /\ \A b \in Admins \ {a} : /\ Written(b)' = Written(b)
                                     /\ posted'[b] = posted[b] /\ left'[b] = left[b]
                                     /\ pc'[b] = pc[b] /\ outdated'[b] = outdated[b]
      BY <2>4, NothingType DEF Replied, Written
    <3> QED
      BY <2>4, <3>1 DEF Replied
  <2>5. ASSUME NEW a \in Admins, NEW s \in Settings, Apply(a, s) PROVE WriteInv'
    <3>1. /\ Written(a)' = Written(a) \cup {s}
          /\ \A b \in Admins \ {a} : Written(b)' = Written(b)
      BY <2>5 DEF Apply, Written, Given
    <3>2. \A t \in left[a] : ~Before(t, s)
      BY <2>5 DEF Apply, IsNext
    <3>3. /\ live'[s] = posted[a][s]
          /\ \A t \in Settings \ {s} : live'[t] = live[t]
          /\ \A b \in Admins : b # a => s \in outdated'[b]
          /\ \A b \in Admins : outdated[b] \subseteq outdated'[b]
      BY <2>5 DEF Apply, Outdate
    <3>4. \A b \in Admins : Written(b) \subseteq Settings
      BY DEF Written, Given
    <3>5. WrittenInForce'
      BY <2>5, <3>1, <3>3, <3>4 DEF Apply
    <3>6. WrittenFirst' /\ AllWritten'
      BY <2>5, <3>1, <3>2 DEF Apply
    <3> QED
      BY <3>5, <3>6
  <2>6. ASSUME NEW a \in Admins, NEW s \in Settings, PassOver(a, s) PROVE WriteInv'
    <3>1. \A b \in Admins : Written(b)' = Written(b)
      BY <2>6, LiveConfigAssumption DEF PassOver, AfterOdd, Written, Given
    <3> QED
      BY <2>6, <3>1 DEF PassOver, AfterOdd
  <2>7. ASSUME NEW a \in Admins, NEW s \in Settings, Throw(a, s) PROVE WriteInv'
    BY <2>7 DEF Throw, update, Written
  <2>8. CASE UNCHANGED vars
    BY <2>8 DEF vars, update, Written
  <2> QED
    BY <2>1, <2>2, <2>3, <2>4, <2>5, <2>6, <2>7, <2>8 DEF Next, HandleUpdateConfig, Unauthorized, Malformed
<1> QED
  BY <1>1, <1>2, TypeCorrect, PTL DEF Spec

\* A reply of success is true of every well-formed setting the callback saw.
THEOREM UpdatesTakeEffect == Spec => []UpdatedMeansInForce
<1>1. WriteInv => UpdatedMeansInForce
  BY DEF WriteInv, WrittenInForce, AllWritten, UpdatedMeansInForce, InForce, Written
<1> QED
  BY <1>1, WriteInductive, PTL

\* A failed update has taken effect up to the value it failed on.
THEOREM FailuresArePrefixes == Spec => []FailedUpdateIsAPrefix
<1>1. WriteInv => FailedUpdateIsAPrefix
  BY DEF WriteInv, WrittenInForce, WrittenFirst, FailedUpdateIsAPrefix
<1> QED
  BY <1>1, WriteInductive, PTL

-----------------------------------------------------------------------------
(***************************************************************************)
(* A setting that is not disturbed has the value every update under way    *)
(* has written to it, or the one that is shown.                            *)
(***************************************************************************)
Undisturbed(s) ==
  /\ \A a \in UnderWay : s \in Written(a) => live[s] = posted[a][s]
  /\ (\A a \in UnderWay : s \notin Written(a)) /\ s \in Given(shown) => shown[s] = live[s]

ShownInv == \A s \in Settings : s \in disturbed \/ Undisturbed(s)

\* What GET /admin/config shows is in force, but for what is disturbed.
THEOREM ShownHolds == Spec => []ShownIsInForce
<1>1. Init => ShownInv
  BY DEF Init, ShownInv, Undisturbed, UnderWay, Given
<1>2. TypeOK /\ WriteInv /\ ShownInv /\ [Next]_vars => ShownInv'
  <2> SUFFICES ASSUME TypeOK, WriteInv, ShownInv, [Next]_vars, NEW t \in Settings
               PROVE  (t \in disturbed \/ Undisturbed(t))'
    BY DEF ShownInv
  <2> DEFINE Goal == (t \in disturbed \/ Undisturbed(t))'
  <2>0. t \in disturbed \/ Undisturbed(t)
    BY DEF ShownInv
  <2> USE DEF TypeOK, Goto, Undisturbed
  <2>1. ASSUME NEW a \in Admins, Post(a) PROVE Goal
    <3>1. /\ UnderWay' = UnderWay \cup {a} /\ Written(a)' = {} /\ a \notin UnderWay
          /\ \A b \in Admins \ {a} : Written(b)' = Written(b) /\ posted'[b] = posted[b]
      BY <2>1, LiveConfigAssumption DEF Post, UnderWay, Written, Given, Present
    <3>2. UnderWay \subseteq Admins
      BY DEF UnderWay
    <3> QED
      BY <2>0, <2>1, <3>1, <3>2 DEF Post, Given
  <2>2. ASSUME NEW a \in Admins, Refused(a) PROVE Goal
    <3>1. UnderWay' = UnderWay
      BY <2>2 DEF Refused, UnderWay
    <3> QED
      BY <2>0, <2>2, <3>1 DEF Refused, update, Written
  <2>3. ASSUME NEW a \in Admins, Save(a) PROVE Goal
    <3>1. UnderWay' = UnderWay \ {a} /\ a \in UnderWay
      BY <2>3 DEF Save, UnderWay
    <3>2. Written(a) = Given(posted[a])
      BY <2>3 DEF Save, Written
    <3>3. /\ live' = live /\ posted' = posted /\ disturbed' = disturbed /\ shown' = posted[a]
          /\ \A b : Written(b)' = Written(b)
      BY <2>3 DEF Save, update, Written
    <3> QED
      BY <2>0, <3>1, <3>2, <3>3 DEF Given
  <2>4. ASSUME NEW a \in Admins, Replied(a) PROVE Goal
    <3>1. /\ UnderWay' = UnderWay /\ a \notin UnderWay /\ UnderWay \subseteq Admins
          /\ \A b \in Admins \ {a} : Written(b)' = Written(b) /\ posted'[b] = posted[b]
      BY <2>4 DEF Replied, UnderWay, Written
    <3> QED
      BY <2>0, <2>4, <3>1 DEF Replied
  <2>5. ASSUME NEW a \in Admins, NEW s \in Settings, Apply(a, s) PROVE Goal
    <3>1. /\ UnderWay' = UnderWay /\ a \in UnderWay /\ UnderWay \subseteq Admins
          /\ posted' = posted /\ shown' = shown
          /\ \A b \in Admins \ {a} : Written(b)' = Written(b)
          /\ Written(a)' = Written(a) \cup {s}
      BY <2>5 DEF Apply, UnderWay, Written, Given
    <3>2. CASE t # s
      <4>1. live'[t] = live[t] /\ (t \in disturbed => t \in disturbed')
        BY <2>5, <3>2 DEF Apply
      <4> QED
        BY <2>0, <3>1, <3>2, <4>1
    <3>3. CASE t = s /\ UnderWay = {a}
      BY <2>5, <3>1, <3>3 DEF Apply
    <3>4. CASE t = s /\ UnderWay # {a}
      BY <2>5, <3>4 DEF Apply
    <3> QED
      BY <3>2, <3>3, <3>4
  <2>6. ASSUME NEW a \in Admins, NEW s \in Settings, PassOver(a, s) PROVE Goal
    <3>1. \A b \in Admins : Written(b)' = Written(b)
      BY <2>6, LiveConfigAssumption DEF PassOver, AfterOdd, Written, Given
    <3>2. UnderWay' = UnderWay /\ UnderWay \subseteq Admins
      BY <2>6 DEF PassOver, UnderWay
    <3> QED
      BY <2>0, <2>6, <3>1, <3>2 DEF PassOver
  <2>7. ASSUME NEW a \in Admins, NEW s \in Settings, Throw(a, s) PROVE Goal
    <3>1. UnderWay' = UnderWay \ {a} /\ a \in UnderWay
      BY <2>7 DEF Throw, UnderWay
    <3>2. /\ live' = live /\ posted' = posted /\ shown' = shown
          /\ disturbed' = disturbed \cup Written(a)
          /\ \A b : Written(b)' = Written(b)
      BY <2>7 DEF Throw, ShownAfterFailure, update, Written
    <3> QED
      BY <2>0, <3>1, <3>2
  <2>8. CASE UNCHANGED vars
    <3>1. UnderWay' = UnderWay
      BY <2>8 DEF vars, UnderWay
    <3> QED
      BY <2>0, <2>8, <3>1 DEF vars, update, Written
  <2> QED
    BY <2>1, <2>2, <2>3, <2>4, <2>5, <2>6, <2>7, <2>8 DEF Next, HandleUpdateConfig, Unauthorized, Malformed
<1>3. ShownInv => ShownIsInForce
  BY DEF ShownInv, Undisturbed, ShownIsInForce, Given
<1> QED
  BY <1>1, <1>2, <1>3, TypeCorrect, WriteInductive, PTL DEF Spec
=============================================================================
