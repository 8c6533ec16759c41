----------------------- MODULE RedisRateLimiterProofs -----------------------
(***************************************************************************)
(* The shared limiter for any threads, clients, limits and clock: types,   *)
(* refusals, and at the end the bound on what a window admits.             *)
(***************************************************************************)
EXTENDS RedisRateLimiter, FiniteSetTheorems, TLAPS

\* Every key a request is checked under has a limit.
LEMMA CheckedKeys ==
  \A c \in Clients, e \in Endpoints \cup {Elsewhere} : KeysOf(c, e) \in Seq(Checked)
<1> SUFFICES ASSUME NEW c \in Clients, NEW e \in Endpoints \cup {Elsewhere}
             PROVE  KeysOf(c, e) \in Seq(Checked)
  OBVIOUS
<1>1. GlobalKey \in Keys /\ IPKey(c) \in Keys /\ (e \in Endpoints => EPKey(c, e) \in Keys)
  BY DEF Keys
<1>2. LevelOf(GlobalKey) = "global" /\ LevelOf(IPKey(c)) = "ip" /\ LevelOf(EPKey(c, e)) = "ep"
  BY DEF LevelOf, GlobalKey, IPKey, EPKey
<1>3. /\ If("global", GlobalKey) \in Seq(Checked)
      /\ If("ip", IPKey(c)) \in Seq(Checked)
      /\ e \in Endpoints => If("ep", EPKey(c, e)) \in Seq(Checked)
  <2>1. ASSUME NEW l, NEW k \in Keys, LevelOf(k) = l PROVE If(l, k) \in Seq(Checked)
    <3>1. CASE l \in DOMAIN Limits
      <4>1. k \in Checked
        BY <2>1, <3>1 DEF Checked
      <4> QED
        BY <3>1, <4>1 DEF If
    <3>2. CASE l \notin DOMAIN Limits
      BY <3>2 DEF If
    <3> QED
      BY <3>1, <3>2
  <2> QED
    BY <1>1, <1>2, <2>1
<1>4. (IF e \in Endpoints THEN If("ep", EPKey(c, e)) ELSE <<>>) \in Seq(Checked)
  BY <1>3
<1> QED
  BY <1>3, <1>4 DEF KeysOf

\* The limits of a key are numbers.
LEMMA LimitType == \A k \in Checked : Quota(k) \in Nat /\ Window(k) \in Nat
BY RedisAssumption DEF Checked, Quota, Window, Limit

\* A worker at a command has a key with a limit.
LEMMA CurrentKey ==
  ASSUME TypeOK, NEW w \in Workers, pc[w] \in Checking
  PROVE  Key(w) \in Checked /\ Tail(ahead[w]) \in Seq(Checked)
<1>1. ahead[w] \in Seq(Checked) /\ ahead[w] # <<>>
  BY DEF TypeOK
<1> QED
  BY <1>1 DEF Key

Typed == TypeOK /\ \A k \in Keys : IsFiniteSet(members[k]) /\ IsFiniteSet(asked[k])

\* The types of the variables; what Redis holds is finite, so it can be counted.
LEMMA TypeInductive == Spec => []Typed
<1>1. Init => Typed
  BY FS_EmptySet DEF Init, Typed, TypeOK, Never, Stage, Checking
<1>2. Typed /\ [Next]_vars => Typed'
  <2> SUFFICES ASSUME Typed, [Next]_vars PROVE Typed'
    OBVIOUS
  <2> USE DEF Typed, TypeOK, Goto, Stage, Checking
  <2>1. ASSUME NEW w \in Workers, pc[w] \in Checking
        PROVE  Key(w) \in Checked /\ Key(w) \in Keys /\ Tail(ahead[w]) \in Seq(Checked)
    BY <2>1, CurrentKey DEF Checked
  <2>2. ASSUME NEW w \in Workers, Arrive(w) PROVE Typed'
    BY <2>2, CheckedKeys DEF Arrive, store
  <2>3. ASSUME NEW w \in Workers, ReadClock(w) PROVE Typed'
    BY <2>3 DEF ReadClock, store
  <2>4. ASSUME NEW w \in Workers, Trim(w) PROVE Typed'
    <3>1. Trimmed(w) \in SUBSET Nat /\ IsFiniteSet(Trimmed(w))
      BY <2>1, <2>4, FS_Subset DEF Trim, Trimmed
    <3> QED
      BY <2>1, <2>4, <3>1 DEF Trim, Never
  <2>5. ASSUME NEW w \in Workers, Count(w) PROVE Typed'
    <3>1. \A stamps : IsFiniteSet(stamps) => Cardinality(InWindow(w, stamps)) \in Nat
      BY FS_Subset, FS_CardinalityType DEF InWindow
    <3> QED
      BY <2>1, <2>5, <3>1 DEF Count, store
  <2>6. ASSUME NEW w \in Workers, Add(w) PROVE Typed'
    <3>1. \A k \in Keys : /\ IsFiniteSet(members[k] \cup {stamp[w]})
                          /\ IsFiniteSet(asked[k] \cup {stamp[w]})
      BY FS_AddElement
    <3> QED
      BY <2>1, <2>6, <3>1 DEF Add
  <2>7. ASSUME NEW w \in Workers, pc[w] \in Checking, Advance(w),
               UNCHANGED <<now, members, asked, passed>>, expires' \in [Keys -> Nat],
               spoiled' \subseteq Keys
        PROVE  Typed'
    BY <2>1, <2>7 DEF Advance
  <2>8. ASSUME NEW w \in Workers, Expire(w) PROVE expires' \in [Keys -> Nat] /\ pc[w] \in Checking
    <3>1. pc[w] \in Checking
      BY <2>8 DEF Expire
    <3>2. now + Lifetime(Key(w)) \in Nat
      BY <2>1, <3>1, LimitType, RedisAssumption DEF Lifetime
    <3> QED
      BY <2>8, <3>1, <3>2 DEF Expire
  <2>9. ASSUME NEW w \in Workers, Decide(w) \/ AnswersLost(w) PROVE Typed'
    BY <2>7, <2>8, <2>9 DEF Decide, AnswersLost
  <2>10. ASSUME NEW w \in Workers, FailsOpen(w) PROVE Typed'
    BY <2>1, <2>7, <2>10 DEF FailsOpen, InPipeline, store
  <2>11. ASSUME NEW w \in Workers, Return(w) PROVE Typed'
    BY <2>11 DEF Return, store
  <2>12. ASSUME NEW c \in Given, ResetKey(c) PROVE Typed'
    BY <2>12, FS_EmptySet DEF ResetKey, locals, Never
  <2>13. CASE Tick
    BY <2>13, FS_EmptySet DEF Tick, locals, Never
  <2>14. CASE UNCHANGED vars
    BY <2>14 DEF vars, store, locals
  <2> QED
    BY <2>2, <2>3, <2>4, <2>5, <2>6, <2>9, <2>10, <2>11, <2>12, <2>13, <2>14 DEF Next, AllowRequest
<1> QED
  BY <1>1, <1>2, PTL DEF Spec

\* The types of the variables, for any limits, with or without failures.
THEOREM TypeCorrect == Spec => []TypeOK
<1>1. Typed => TypeOK
  BY DEF Typed
<1> QED
  BY <1>1, TypeInductive, PTL

-----------------------------------------------------------------------------
(***************************************************************************)
(* What Redis holds are requests that were made, so a count never exceeds  *)
(* the number of requests made in the window.                              *)
(***************************************************************************)
HoldsRequests == \A k \in Keys : members[k] \subseteq asked[k]

CountsRequests == \A w \in Workers : pc[w] \in {"add", "expire"} => count[w] <= seen[w]

(***************************************************************************)
(* Every refusal of allowRequest has a full window of requests behind it,  *)
(* made since its key was reset, for any number of instances, whatever     *)
(* keys are reset and with calls failing after any command.                *)
(***************************************************************************)
THEOREM RefusalsAreDue == Spec => []RefusedOnlyWhenFull
<1> DEFINE IInv == HoldsRequests /\ CountsRequests /\ RefusedOnlyWhenFull
<1>1. Init => IInv
  BY DEF Init, HoldsRequests, CountsRequests, RefusedOnlyWhenFull
<1>2. Typed /\ IInv /\ [Next]_vars => IInv'
  <2> SUFFICES ASSUME Typed, IInv, [Next]_vars PROVE IInv'
    OBVIOUS
  <2> USE DEF HoldsRequests, CountsRequests, RefusedOnlyWhenFull, Typed, TypeOK, Goto, Key
  <2>1. ASSUME NEW w \in Workers, Arrive(w) \/ ReadClock(w) PROVE IInv'
    BY <2>1 DEF Arrive, ReadClock, store
  <2>2. ASSUME NEW w \in Workers, Trim(w) PROVE IInv'
    BY <2>2 DEF Trim, Trimmed
  <2>3. ASSUME NEW w \in Workers, Count(w) PROVE IInv'
    <3>1. Key(w) \in Keys
      BY <2>3, CurrentKey DEF Count, Checking, Checked
    <3>2. InWindow(w, members[Key(w)]) \subseteq InWindow(w, asked[Key(w)])
      BY <3>1 DEF InWindow
    <3>3. IsFiniteSet(InWindow(w, asked[Key(w)]))
      BY <3>1, FS_Subset DEF InWindow
    <3>4. Cardinality(InWindow(w, members[Key(w)])) <= Cardinality(InWindow(w, asked[Key(w)]))
      BY <3>2, <3>3, FS_Subset
    <3> QED
      BY <2>3, <3>4 DEF Count, store
  <2>4. ASSUME NEW w \in Workers, Add(w) PROVE IInv'
    BY <2>4 DEF Add
  <2>5. ASSUME NEW w \in Workers, Decide(w) PROVE IInv'
    <3>1. Quota(Key(w)) \in Nat
      BY <2>5, CurrentKey, LimitType DEF Decide, Expire, Checking
    <3>2. CASE HasRoom(w)
      BY <2>5, <3>2 DEF Decide, Expire, Advance
    <3>3. CASE ~HasRoom(w)
      <4>1. seen[w] >= Quota(Key(w))
        BY <2>5, <3>1, <3>3 DEF Decide, Expire, HasRoom
      <4> QED
        BY <2>5, <3>3, <4>1 DEF Decide, Expire
    <3> QED
      BY <3>2, <3>3
  <2>6. ASSUME NEW w \in Workers, FailsOpen(w) \/ AnswersLost(w) \/ Return(w) PROVE IInv'
    BY <2>6 DEF FailsOpen, AnswersLost, Return, Advance, store
  <2>7. ASSUME NEW c \in Given, ResetKey(c) PROVE IInv'
    BY <2>7 DEF ResetKey, locals
  <2>8. CASE Tick
    BY <2>8 DEF Tick, locals
  <2>9. CASE UNCHANGED vars
    BY <2>9 DEF vars, store, locals
  <2> QED
    BY <2>1, <2>2, <2>3, <2>4, <2>5, <2>6, <2>7, <2>8, <2>9 DEF Next, AllowRequest
<1> QED
  BY <1>1, <1>2, TypeInductive, PTL DEF Spec
-----------------------------------------------------------------------------
(***************************************************************************)
(* The bound on a window. How long a key lives comes first.                *)
(***************************************************************************)
\* No stamp is of a later time.
Timely ==
  /\ \A w \in Workers : stamp[w] <= now
  /\ \A k \in Keys : \A t \in members[k] \cup passed[k] : t <= now

At(w, k, stages) == pc[w] \in stages /\ Key(w) = k

\* Some worker will yet send EXPIRE, in time: before the key can be dropped.
Renewed(k) ==
  \E w \in Workers : At(w, k, {"expire"}) /\ expires[k] > stamp[w] + Buffer

(***************************************************************************)
(* A key that is going to be dropped outlives every request it holds by a  *)
(* window and the buffer, and every pipeline that counts on it by the      *)
(* buffer, unless a worker is about to prolong its life.                   *)
(***************************************************************************)
OutlivesItsUsers(k) ==
  expires[k] # Never =>
    /\ members[k] # {}
    /\ \A t \in members[k] :
         \/ expires[k] >= t + Lifetime(k)
         \/ \E w \in Workers : At(w, k, {"expire"}) /\ stamp[w] = t
    /\ \A w \in Workers :
         At(w, k, {"count", "add", "expire"}) =>
           expires[k] > stamp[w] + Buffer \/ Renewed(k)

\* The workers whose request for a place in the window after s is not decided.
Open(k, s) ==
  {w \in Workers : /\ At(w, k, {"trim", "count", "add"})
                   /\ s < stamp[w] /\ stamp[w] <= s + Window(k)}

PassedUntil(k, s, t) == {u \in Passed(k, s) : u <= t}

\* Those of them that may still find room while no request has been forgotten.
MayPass(k, s) ==
  {w \in Open(k, s) :
     IF pc[w] = "add" THEN HasRoom(w)
     ELSE Cardinality(PassedUntil(k, s, stamp[w])) < Quota(k)}

\* The places in the window that are taken, or would be if all of ws passed.
Places(at, ws) == {at[w] : w \in ws}
Charged(k, s, ws) == Passed(k, s) \cup Places(stamp, ws)

OtherWorkers == Cardinality(Workers) - 1

\* Redis still holds every request that passed in the window.
Remembered(k, s) ==
  /\ Passed(k, s) \subseteq members[k]
  /\ Cardinality(Charged(k, s, MayPass(k, s))) <= Quota(k) + OtherWorkers

\* It has forgotten some, for the window is over: only those who are late may pass.
Over(k, s) ==
  /\ now > s + Window(k)
  /\ Cardinality(Charged(k, s, Open(k, s))) <= Quota(k) + 2 * OtherWorkers

Accounted ==
  \A k \in Checked \ spoiled, s \in Nat : Remembered(k, s) \/ Over(k, s)

KeysLast == \A k \in Checked \ spoiled : OutlivesItsUsers(k)

\* No stamp is ahead of the clock.
LEMMA TimelyStep == Typed /\ Timely /\ [Next]_vars => Timely'
<1> SUFFICES ASSUME Typed, Timely, [Next]_vars PROVE Timely'
  OBVIOUS
<1> USE DEF Timely, Typed, TypeOK
<1>1. ASSUME NEW w \in Workers, Arrive(w) PROVE Timely'
  BY <1>1 DEF Arrive, store
<1>2. ASSUME NEW w \in Workers, ReadClock(w) PROVE Timely'
  BY <1>2 DEF ReadClock, store
<1>3. ASSUME NEW w \in Workers, Trim(w) PROVE Timely'
  BY <1>3 DEF Trim, Trimmed
<1>4. ASSUME NEW w \in Workers, Count(w) PROVE Timely'
  BY <1>4 DEF Count, store
<1>5. ASSUME NEW w \in Workers, Add(w) PROVE Timely'
  BY <1>5 DEF Add
<1>6. ASSUME NEW w \in Workers, Decide(w) \/ FailsOpen(w) \/ AnswersLost(w) PROVE Timely'
  BY <1>6 DEF Decide, FailsOpen, AnswersLost, Advance, store
<1>7. ASSUME NEW w \in Workers, Return(w) PROVE Timely'
  BY <1>7 DEF Return, store
<1>8. ASSUME NEW c \in Given, ResetKey(c) PROVE Timely'
  BY <1>8 DEF ResetKey, locals
<1>9. CASE Tick
  BY <1>9 DEF Tick, locals
<1>10. CASE UNCHANGED vars
  BY <1>10 DEF vars, store, locals
<1> QED
  BY <1>1, <1>2, <1>3, <1>4, <1>5, <1>6, <1>7, <1>8, <1>9, <1>10 DEF Next, AllowRequest

\* A key outlives its users whatever the workers, the administrator and time do.
LEMMA KeysLastStep == Typed /\ Timely /\ KeysLast /\ [Next]_vars => KeysLast'
<1> SUFFICES ASSUME Typed, Timely, KeysLast, [Next]_vars, NEW k \in (Checked \ spoiled)'
             PROVE  OutlivesItsUsers(k)'
  BY DEF KeysLast
<1> USE DEF At, Goto, Never, Key
<1>1. k \in Keys /\ k \in Checked /\ Window(k) \in Nat \ {0} /\ Buffer \in Nat \ {0}
  BY RedisAssumption DEF Checked, Window, Limit
<1>2. \A w \in Workers : pc[w] \in Checking => Key(w) \in Keys
  BY CurrentKey DEF Typed, Checked
<1>3. spoiled \subseteq spoiled'
  BY DEF Next, AllowRequest, Arrive, ReadClock, Trim, Count, Add, Decide, FailsOpen, AnswersLost,
         Return, ResetKey, Tick, vars
<1>4. OutlivesItsUsers(k)
  BY <1>1, <1>3 DEF KeysLast, Typed, TypeOK
<1>5. /\ members \in [Keys -> SUBSET Nat] /\ expires \in [Keys -> Nat] /\ now \in Nat
      /\ pc \in [Workers -> Stage] /\ stamp \in [Workers -> Nat]
      /\ ahead \in [Workers -> Seq(Checked)]
  BY DEF Typed, TypeOK
<1>6. ASSUME members'[k] = members[k], expires'[k] = expires[k],
             \A w \in Workers : At(w, k, {"count", "add", "expire"})' =>
                                  At(w, k, {"count", "add", "expire"}) /\ stamp'[w] = stamp[w],
             \A w \in Workers : At(w, k, {"expire"}) => At(w, k, {"expire"})' /\ stamp'[w] = stamp[w]
      PROVE  OutlivesItsUsers(k)'
  BY <1>4, <1>6 DEF OutlivesItsUsers, Renewed, Lifetime
<1>7. ASSUME NEW w \in Workers, Arrive(w) \/ ReadClock(w) \/ Count(w) \/ Return(w)
      PROVE  OutlivesItsUsers(k)'
  BY <1>5, <1>6, <1>7 DEF Arrive, ReadClock, Count, Return, store
<1>8. ASSUME NEW w \in Workers, Trim(w) PROVE OutlivesItsUsers(k)'
  <2>1. CASE Key(w) # k
    BY <1>5, <1>6, <1>8, <2>1 DEF Trim
  <2>2. CASE Key(w) = k /\ Trimmed(w) = {}
    BY <1>1, <1>5, <1>8, <2>2 DEF Trim, OutlivesItsUsers
  <2>3. CASE Key(w) = k /\ Trimmed(w) # {} /\ expires[k] # Never
    <3>1. /\ members'[k] = Trimmed(w) /\ expires'[k] = expires[k]
          /\ stamp' = stamp /\ ahead' = ahead /\ pc' = [pc EXCEPT ![w] = "count"]
      BY <1>1, <1>5, <1>8, <2>3 DEF Trim
    <3>2. Trimmed(w) \subseteq members[k]
      BY <2>3 DEF Trimmed
    <3>3. \A v \in Workers : At(v, k, {"expire"}) => At(v, k, {"expire"})'
      BY <1>5, <1>8, <3>1 DEF Trim
    <3>4. Renewed(k) => Renewed(k)'
      BY <3>1, <3>3 DEF Renewed
    <3>5. expires[k] > stamp[w] + Buffer \/ Renewed(k)
      <4>1. PICK t \in members[k] : t > stamp[w] - Window(k)
        BY <2>3 DEF Trimmed
      <4>2. CASE expires[k] >= t + Lifetime(k)
        BY <1>1, <1>5, <4>1, <4>2 DEF Lifetime
      <4>3. CASE \E v \in Workers : At(v, k, {"expire"}) /\ stamp[v] = t
        <5>1. PICK v \in Workers : At(v, k, {"expire"})
          BY <4>3
        <5>2. expires[k] > stamp[v] + Buffer \/ Renewed(k)
          BY <1>4, <2>3, <5>1 DEF OutlivesItsUsers
        <5> QED
          BY <5>1, <5>2 DEF Renewed
      <4> QED
        BY <1>4, <2>3, <4>2, <4>3 DEF OutlivesItsUsers
    <3>6. ASSUME NEW v \in Workers, At(v, k, {"count", "add", "expire"})'
          PROVE  expires[k] > stamp[v] + Buffer \/ Renewed(k)
      <4>1. CASE v = w
        BY <3>5, <4>1
      <4>2. CASE v # w
        BY <1>4, <1>5, <2>3, <3>1, <3>6, <4>2 DEF OutlivesItsUsers
      <4> QED
        BY <4>1, <4>2
    <3>7. ASSUME NEW t \in members'[k]
          PROVE  expires'[k] >= t + Lifetime(k) \/ \E v \in Workers : At(v, k, {"expire"})' /\ stamp'[v] = t
      BY <1>4, <2>3, <3>1, <3>2, <3>3, <3>7 DEF OutlivesItsUsers
    <3> QED
      BY <2>3, <3>1, <3>4, <3>6, <3>7 DEF OutlivesItsUsers, Lifetime
  <2>4. CASE Key(w) = k /\ expires[k] = Never
    BY <1>1, <1>5, <1>8, <2>4 DEF Trim, OutlivesItsUsers
  <2> QED
    BY <2>1, <2>2, <2>3, <2>4
<1>9. ASSUME NEW w \in Workers, Add(w) PROVE OutlivesItsUsers(k)'
  <2>1. CASE Key(w) # k
    BY <1>5, <1>6, <1>9, <2>1 DEF Add
  <2>2. CASE Key(w) = k /\ expires[k] # Never
    <3>1. /\ members'[k] = members[k] \cup {stamp[w]} /\ expires'[k] = expires[k]
          /\ stamp' = stamp /\ ahead' = ahead /\ pc' = [pc EXCEPT ![w] = "expire"]
      BY <1>1, <1>5, <1>9, <2>2 DEF Add
    <3>2. At(w, k, {"expire"})' /\ \A v \in Workers : At(v, k, {"expire"}) => At(v, k, {"expire"})'
      BY <1>5, <2>2, <3>1
    <3>3. Renewed(k) => Renewed(k)'
      BY <3>1, <3>2 DEF Renewed
    <3>4. \A v \in Workers : At(v, k, {"count", "add", "expire"})' => At(v, k, {"count", "add", "expire"})
      BY <1>5, <1>9, <3>1 DEF Add
    <3>5. ASSUME NEW t \in members'[k]
          PROVE  expires'[k] >= t + Lifetime(k) \/ \E v \in Workers : At(v, k, {"expire"})' /\ stamp'[v] = t
      BY <1>4, <2>2, <3>1, <3>2, <3>5 DEF OutlivesItsUsers
    <3> QED
      BY <1>4, <2>2, <3>1, <3>3, <3>4, <3>5 DEF OutlivesItsUsers, Lifetime
  <2>3. CASE Key(w) = k /\ expires[k] = Never
    BY <1>1, <1>5, <1>9, <2>3 DEF Add, OutlivesItsUsers
  <2> QED
    BY <2>1, <2>2, <2>3
<1>10. ASSUME NEW w \in Workers, Decide(w) \/ AnswersLost(w) PROVE OutlivesItsUsers(k)'
  <2>1. /\ Expire(w) /\ members' = members /\ stamp' = stamp /\ now' = now
        /\ \A v \in Workers : v # w => pc'[v] = pc[v] /\ ahead'[v] = ahead[v]
        /\ pc'[w] \in {"next", "refused"}
    BY <1>5, <1>10 DEF Decide, AnswersLost, Advance
  <2>2. CASE Key(w) # k
    <3>1. expires'[k] = expires[k]
      BY <1>1, <1>5, <2>1, <2>2 DEF Expire
    <3> QED
      BY <1>5, <1>6, <2>1, <2>2, <3>1
  <2>3. CASE Key(w) = k /\ members[k] = {}
    <3>1. expires' = expires /\ expires[k] = Never
      BY <1>4, <2>1, <2>3 DEF Expire, OutlivesItsUsers
    <3> QED
      BY <3>1 DEF OutlivesItsUsers
  <2>4. CASE Key(w) = k /\ members[k] # {}
    <3>1. expires'[k] = now + Window(k) + Buffer
      BY <1>1, <1>5, <2>1, <2>4 DEF Expire, Lifetime
    <3>2. (\A t \in members[k] : t <= now) /\ \A v \in Workers : stamp[v] <= now
      BY <1>1 DEF Timely
    <3>3. \A t \in members[k] : expires'[k] >= t + Lifetime(k)
      BY <1>1, <1>5, <3>1, <3>2 DEF Lifetime
    <3>4. \A v \in Workers : expires'[k] > stamp[v] + Buffer
      BY <1>1, <1>5, <3>1, <3>2
    <3> QED
      BY <2>1, <2>4, <3>3, <3>4 DEF OutlivesItsUsers, Lifetime
  <2> QED
    BY <2>2, <2>3, <2>4
<1>11. ASSUME NEW w \in Workers, FailsOpen(w) PROVE OutlivesItsUsers(k)'
  <2>1. members' = members /\ expires' = expires /\ stamp' = stamp
    BY <1>11 DEF FailsOpen, Advance, store
  <2>2. \A v \in Workers : v # w => pc'[v] = pc[v] /\ ahead'[v] = ahead[v]
    BY <1>5, <1>11 DEF FailsOpen, Advance
  <2>3. pc'[w] = "next" /\ ~At(w, k, {"expire"})
    BY <1>5, <1>11 DEF FailsOpen, Advance
  <2> QED
    BY <1>6, <2>1, <2>2, <2>3
<1>12. ASSUME NEW c \in Given, ResetKey(c) PROVE OutlivesItsUsers(k)'
  <2>1. pc' = pc /\ ahead' = ahead /\ stamp' = stamp
    BY <1>12 DEF ResetKey, locals
  <2>2. CASE c = k
    BY <1>1, <1>5, <1>12, <2>2 DEF ResetKey, OutlivesItsUsers
  <2>3. CASE c # k
    BY <1>1, <1>5, <1>6, <1>12, <2>1, <2>3 DEF ResetKey
  <2> QED
    BY <2>2, <2>3
<1>13. CASE Tick
  <2>1. pc' = pc /\ ahead' = ahead /\ stamp' = stamp
    BY <1>13 DEF Tick, locals
  <2>2. CASE k \in Dropped
    BY <1>1, <1>13, <2>2 DEF Tick, OutlivesItsUsers
  <2>3. CASE k \notin Dropped
    BY <1>1, <1>6, <1>13, <2>1, <2>3 DEF Tick
  <2> QED
    BY <2>2, <2>3
<1>14. CASE UNCHANGED vars
  BY <1>6, <1>14 DEF vars, store, locals
<1> QED
  BY <1>7, <1>8, <1>9, <1>10, <1>11, <1>12, <1>13, <1>14 DEF Next, AllowRequest

-----------------------------------------------------------------------------
\* A set of workers takes at most one place each.
LEMMA PlacesTaken ==
  ASSUME NEW P, IsFiniteSet(P), NEW ws \in SUBSET Workers, NEW f
  PROVE  /\ IsFiniteSet(P \cup Places(f, ws))
         /\ Cardinality(P \cup Places(f, ws)) \in Nat
         /\ Cardinality(P \cup Places(f, ws)) <= Cardinality(P) + Cardinality(ws)
         /\ Cardinality(P) \in Nat /\ Cardinality(ws) \in Nat
<1> DEFINE g == [w \in ws |-> f[w]]
<1>1. IsFiniteSet(ws)
  BY RedisAssumption, FS_Subset
<1>2. g \in Surjection(ws, Places(f, ws))
  BY DEF Surjection, Places
<1>3. IsFiniteSet(Places(f, ws)) /\ Cardinality(Places(f, ws)) <= Cardinality(ws)
  BY <1>1, <1>2, FS_Surjection
<1>4. IsFiniteSet(P \cup Places(f, ws))
  BY <1>3, FS_Union
<1>5. Cardinality(P \cup Places(f, ws))
        = Cardinality(P) + Cardinality(Places(f, ws)) - Cardinality(P \cap Places(f, ws))
  BY <1>3, FS_Union
<1>6. /\ Cardinality(P) \in Nat /\ Cardinality(ws) \in Nat /\ Cardinality(Places(f, ws)) \in Nat
      /\ Cardinality(P \cup Places(f, ws)) \in Nat /\ Cardinality(P \cap Places(f, ws)) \in Nat
  BY <1>1, <1>3, <1>4, FS_Subset, FS_CardinalityType
<1> QED
  BY <1>3, <1>4, <1>5, <1>6

\* Natural numbers up to a bound are finitely many.
LEMMA BoundedIsFinite ==
  ASSUME NEW n \in Nat, NEW ts \in SUBSET Nat, \A t \in ts : t <= n
  PROVE  IsFiniteSet(ts)
<1>1. ts \subseteq 0..n /\ IsFiniteSet(0..n)
  BY FS_Interval
<1> QED
  BY <1>1, FS_Subset

\* What a worker alone does keeps the account, if it claims no place it had no claim to.
LEMMA OneWorkerSteps ==
  ASSUME Typed, Timely, Typed', Timely',
         NEW k \in Checked, NEW s \in Nat, NEW w \in Workers,
         Remembered(k, s) \/ Over(k, s),
         now' >= now,
         \A v \in Workers \ {w} : /\ pc'[v] = pc[v] /\ ahead'[v] = ahead[v]
                                  /\ stamp'[v] = stamp[v] /\ count'[v] = count[v],
         Passed(k, s) \subseteq Passed(k, s)',
         Remembered(k, s) =>
           /\ Passed(k, s)' \subseteq members'[k]
           /\ w \in MayPass(k, s)' => w \in MayPass(k, s) /\ stamp'[w] = stamp[w]
           /\ Passed(k, s)' \subseteq Charged(k, s, MayPass(k, s)),
         Over(k, s) =>
           /\ w \in Open(k, s)' => w \in Open(k, s) /\ stamp'[w] = stamp[w]
           /\ Passed(k, s)' \subseteq Charged(k, s, Open(k, s))
  PROVE  Remembered(k, s)' \/ Over(k, s)'
<1>1. k \in Keys /\ Quota(k) \in Nat /\ Window(k) \in Nat /\ OtherWorkers \in Nat
  BY RedisAssumption, FS_CardinalityType, FS_EmptySet DEF Checked, Quota, Window, Limit, OtherWorkers
<1>2. IsFiniteSet(Passed(k, s)) /\ IsFiniteSet(Passed(k, s)')
  BY <1>1, BoundedIsFinite DEF Passed, Typed, TypeOK, Timely
<1>3. Open(k, s) \subseteq Workers /\ MayPass(k, s) \subseteq Workers
  BY DEF Open, MayPass
<1>4. \A ws \in SUBSET Workers : IsFiniteSet(Charged(k, s, ws))
  <2> SUFFICES ASSUME NEW ws \in SUBSET Workers PROVE IsFiniteSet(Charged(k, s, ws))
    OBVIOUS
  <2> QED
    BY <1>2, PlacesTaken DEF Charged
<1>5. \A v \in Workers \ {w} : v \in Open(k, s)' => v \in Open(k, s)
  BY DEF Open, At, Key
<1>6. \A v \in Workers \ {w} : v \in MayPass(k, s)' => v \in MayPass(k, s)
  <2> SUFFICES ASSUME NEW v \in Workers \ {w}, v \in MayPass(k, s)' PROVE v \in MayPass(k, s)
    OBVIOUS
  <2>1. v \in Open(k, s)
    BY <1>5 DEF MayPass
  <2>2. CASE pc[v] = "add"
    BY <2>1, <2>2 DEF MayPass, HasRoom, Key
  <2>3. CASE pc[v] # "add"
    <3>1. Cardinality(PassedUntil(k, s, stamp[v])') < Quota(k)
      BY <2>3 DEF MayPass, PassedUntil, Quota, LevelOf
    <3>2. PassedUntil(k, s, stamp[v]) \subseteq PassedUntil(k, s, stamp[v])'
      BY DEF PassedUntil
    <3>3. IsFiniteSet(PassedUntil(k, s, stamp[v])')
      BY <1>2, FS_Subset DEF PassedUntil
    <3>4. /\ Cardinality(PassedUntil(k, s, stamp[v])) <= Cardinality(PassedUntil(k, s, stamp[v])')
          /\ Cardinality(PassedUntil(k, s, stamp[v])) \in Nat
          /\ Cardinality(PassedUntil(k, s, stamp[v])') \in Nat
      BY <3>2, <3>3, FS_Subset, FS_CardinalityType
    <3>5. Cardinality(PassedUntil(k, s, stamp[v])) < Quota(k)
      BY <1>1, <3>1, <3>4
    <3> QED
      BY <2>1, <2>3, <3>5 DEF MayPass
  <2> QED
    BY <2>2, <2>3
<1>7. CASE Remembered(k, s)
  <2>1. Charged(k, s, MayPass(k, s))' \subseteq Charged(k, s, MayPass(k, s))
    BY <1>3, <1>6, <1>7 DEF Charged, Places, MayPass, Open
  <2>2. IsFiniteSet(Charged(k, s, MayPass(k, s)))
    BY <1>3, <1>4
  <2>3. Cardinality(Charged(k, s, MayPass(k, s))') <= Quota(k) + OtherWorkers
    <3>1. /\ Cardinality(Charged(k, s, MayPass(k, s))') <= Cardinality(Charged(k, s, MayPass(k, s)))
          /\ Cardinality(Charged(k, s, MayPass(k, s))') \in Nat
          /\ Cardinality(Charged(k, s, MayPass(k, s))) \in Nat
      BY <2>1, <2>2, FS_Subset, FS_CardinalityType
    <3> QED
      BY <1>1, <1>7, <3>1 DEF Remembered
  <2> QED
    BY <1>7, <2>3 DEF Remembered, Quota, LevelOf, OtherWorkers
<1>8. CASE Over(k, s)
  <2>1. Charged(k, s, Open(k, s))' \subseteq Charged(k, s, Open(k, s))
    BY <1>3, <1>5, <1>8 DEF Charged, Places, Open
  <2>2. IsFiniteSet(Charged(k, s, Open(k, s)))
    BY <1>3, <1>4
  <2>3. Cardinality(Charged(k, s, Open(k, s))') <= Quota(k) + 2 * OtherWorkers
    <3>1. /\ Cardinality(Charged(k, s, Open(k, s))') <= Cardinality(Charged(k, s, Open(k, s)))
          /\ Cardinality(Charged(k, s, Open(k, s))') \in Nat
          /\ Cardinality(Charged(k, s, Open(k, s))) \in Nat
      BY <2>1, <2>2, FS_Subset, FS_CardinalityType
    <3> QED
      BY <1>1, <1>8, <3>1 DEF Over
  <2>4. now' > s + Window(k)
    BY <1>1, <1>8 DEF Over, Typed, TypeOK
  <2> QED
    BY <2>3, <2>4 DEF Over, Quota, Window, LevelOf, OtherWorkers
<1> QED
  BY <1>7, <1>8

\* The places in a window stay accounted for, whatever interleaves with the pipelines.
LEMMA AccountedStep ==
  ASSUME Timeout <= Buffer
  PROVE  Typed /\ Timely /\ KeysLast /\ Accounted /\ Typed' /\ Timely' /\ [Next]_vars => Accounted'
<1> SUFFICES ASSUME Typed, Timely, KeysLast, Accounted, Typed', Timely', [Next]_vars,
                    NEW k \in (Checked \ spoiled)', NEW s \in Nat
             PROVE  Remembered(k, s)' \/ Over(k, s)'
  BY DEF Accounted
<1> USE DEF Goto
<1>1. /\ k \in Keys /\ k \in Checked
      /\ Quota(k) \in Nat \ {0} /\ Window(k) \in Nat /\ Buffer \in Nat /\ Timeout \in Nat
  BY RedisAssumption DEF Checked, Quota, Window, Limit
<1>2. IsFiniteSet(Workers) /\ Cardinality(Workers) \in Nat \ {0} /\ OtherWorkers \in Nat
  BY RedisAssumption, FS_CardinalityType, FS_EmptySet DEF OtherWorkers
<1>3. spoiled \subseteq spoiled'
  BY DEF Next, AllowRequest, Arrive, ReadClock, Trim, Count, Add, Decide, FailsOpen, AnswersLost,
         Return, ResetKey, Tick, vars
<1>4. OutlivesItsUsers(k) /\ (Remembered(k, s) \/ Over(k, s))
  BY <1>1, <1>3 DEF KeysLast, Accounted, Typed, TypeOK
<1>5. /\ now \in Nat /\ now' \in Nat /\ stamp \in [Workers -> Nat] /\ stamp' \in [Workers -> Nat]
      /\ pc \in [Workers -> Stage] /\ ahead \in [Workers -> Seq(Checked)]
      /\ count \in [Workers -> Nat] /\ members \in [Keys -> SUBSET Nat]
      /\ passed \in [Keys -> SUBSET Nat] /\ expires \in [Keys -> Nat]
  BY DEF Typed, TypeOK
<1>6. IsFiniteSet(Passed(k, s)) /\ IsFiniteSet(Passed(k, s)')
  BY <1>1, BoundedIsFinite DEF Passed, Typed, TypeOK, Timely
<1>7. /\ Open(k, s) \subseteq Workers /\ MayPass(k, s) \subseteq Workers
      /\ Open(k, s)' \subseteq Workers /\ MayPass(k, s)' \subseteq Workers
  BY DEF Open, MayPass
<1>8. \A ws \in SUBSET Workers : Cardinality(ws) \in Nat /\ Cardinality(ws) <= OtherWorkers + 1
  BY <1>2, FS_Subset, FS_CardinalityType DEF OtherWorkers
\* Any worker may pass while there is room.
<1>9. ASSUME Passed(k, s)' \subseteq members'[k], Cardinality(Passed(k, s)') < Quota(k)
      PROVE  Remembered(k, s)'
  <2>1. Cardinality(Charged(k, s, MayPass(k, s))') <= Cardinality(Passed(k, s)') + Cardinality(MayPass(k, s)')
    BY <1>6, <1>7, PlacesTaken DEF Charged
  <2>2. Cardinality(Charged(k, s, MayPass(k, s))') \in Nat /\ Cardinality(Passed(k, s)') \in Nat
    BY <1>6, <1>7, PlacesTaken DEF Charged
  <2>3. Cardinality(Charged(k, s, MayPass(k, s))') <= Quota(k) + OtherWorkers
    BY <1>1, <1>2, <1>7, <1>8, <1>9, <2>1, <2>2
  <2> QED
    BY <1>9, <2>3 DEF Remembered, Quota, LevelOf, OtherWorkers
<1>10. ASSUME Passed(k, s)' = {} PROVE Remembered(k, s)'
  BY <1>1, <1>9, <1>10, FS_EmptySet
<1>11. ASSUME NEW w \in Workers, now' >= now,
              \A v \in Workers \ {w} : /\ pc'[v] = pc[v] /\ ahead'[v] = ahead[v]
                                       /\ stamp'[v] = stamp[v] /\ count'[v] = count[v],
              passed'[k] = passed[k], members'[k] = members[k], w \notin Open(k, s)'
       PROVE  Remembered(k, s)' \/ Over(k, s)'
  <2>1. Passed(k, s)' = Passed(k, s)
    BY <1>11 DEF Passed, Window, LevelOf
  <2>2. w \notin MayPass(k, s)'
    BY <1>11 DEF MayPass
  <2> QED
    BY <1>1, <1>4, <1>11, <2>1, <2>2, OneWorkerSteps DEF Charged, Remembered
<1>12. ASSUME NEW w \in Workers, Arrive(w) \/ Return(w) \/ Decide(w) \/ FailsOpen(w) \/ AnswersLost(w)
       PROVE  Remembered(k, s)' \/ Over(k, s)'
  <2>1. /\ now' = now /\ members' = members /\ passed' = passed
        /\ \A v \in Workers \ {w} : /\ pc'[v] = pc[v] /\ ahead'[v] = ahead[v]
                                    /\ stamp'[v] = stamp[v] /\ count'[v] = count[v]
    BY <1>5, <1>12 DEF Arrive, Return, Decide, FailsOpen, AnswersLost, Advance, store
  <2>2. pc'[w] \in {"idle", "next", "refused"}
    BY <1>5, <1>12 DEF Arrive, Return, Decide, FailsOpen, AnswersLost, Advance, Stage
  <2>3. w \notin Open(k, s)'
    BY <2>2 DEF Open, At
  <2> QED
    BY <1>5, <1>11, <2>1, <2>3
<1>13. ASSUME NEW w \in Workers, ReadClock(w) PROVE Remembered(k, s)' \/ Over(k, s)'
  <2>1. /\ now' = now /\ members' = members /\ passed' = passed /\ ahead' = ahead /\ count' = count
        /\ stamp' = [stamp EXCEPT ![w] = now] /\ pc' = [pc EXCEPT ![w] = "trim"]
    BY <1>13 DEF ReadClock, store
  <2>2. CASE w \notin Open(k, s)'
    BY <1>5, <1>11, <2>1, <2>2
  <2>3. CASE w \in Open(k, s)'
    <3>1. Remembered(k, s)
      BY <1>1, <1>4, <1>5, <2>1, <2>3 DEF Over, Open, Window, LevelOf
    <3>2. Passed(k, s)' = Passed(k, s) /\ Passed(k, s)' \subseteq members'[k]
      BY <2>1, <3>1 DEF Passed, Remembered, Window, LevelOf
    <3>3. ~Over(k, s)
      BY <1>1, <1>5, <2>1, <2>3 DEF Over, Open, Window, LevelOf
    <3>4. CASE w \in MayPass(k, s)'
      <4>1. PassedUntil(k, s, now) = Passed(k, s)
        BY <1>1 DEF PassedUntil, Passed, Timely
      <4>2. Cardinality(PassedUntil(k, s, now)') < Quota(k)
        BY <1>5, <2>1, <3>4 DEF MayPass, PassedUntil, Quota, LevelOf
      <4>3. PassedUntil(k, s, now)' = Passed(k, s)'
        BY <2>1, <3>2, <4>1 DEF PassedUntil
      <4> QED
        BY <1>9, <3>2, <4>2, <4>3
    <3>5. CASE w \notin MayPass(k, s)'
      <4>1. \A v \in Workers \ {w} : /\ pc'[v] = pc[v] /\ ahead'[v] = ahead[v]
                                     /\ stamp'[v] = stamp[v] /\ count'[v] = count[v]
        BY <1>5, <2>1
      <4>2. Passed(k, s)' \subseteq Charged(k, s, MayPass(k, s)) /\ Passed(k, s) \subseteq Passed(k, s)'
        BY <3>2 DEF Charged
      <4>3. now' >= now
        BY <1>5, <2>1
      <4> QED
        BY <1>1, <3>1, <3>2, <3>3, <3>5, <4>1, <4>2, <4>3, OneWorkerSteps
    <3> QED
      BY <3>4, <3>5
  <2> QED
    BY <2>2, <2>3
\* A command that keeps the key of w, and w among the undecided.
<1>14. ASSUME NEW w \in Workers, pc[w] \in {"trim", "count", "add"}, now' = now,
              stamp' = stamp, ahead' = ahead,
              \A v \in Workers \ {w} : pc'[v] = pc[v] /\ count'[v] = count[v],
              Passed(k, s) \subseteq Passed(k, s)',
              Remembered(k, s) =>
                /\ Passed(k, s)' \subseteq members'[k]
                /\ w \in MayPass(k, s)' => w \in MayPass(k, s)
                /\ Passed(k, s)' \subseteq Charged(k, s, MayPass(k, s)),
              Over(k, s) => Passed(k, s)' \subseteq Charged(k, s, Open(k, s))
       PROVE  Remembered(k, s)' \/ Over(k, s)'
  <2>1. w \in Open(k, s)' => w \in Open(k, s)
    BY <1>14 DEF Open, At, Key, Window, LevelOf
  <2>2. \A v \in Workers \ {w} : /\ pc'[v] = pc[v] /\ ahead'[v] = ahead[v]
                                 /\ stamp'[v] = stamp[v] /\ count'[v] = count[v]
    BY <1>14
  <2>3. now' >= now /\ stamp'[w] = stamp[w]
    BY <1>5, <1>14
  <2>4. Remembered(k, s) =>
          /\ Passed(k, s)' \subseteq members'[k]
          /\ w \in MayPass(k, s)' => w \in MayPass(k, s) /\ stamp'[w] = stamp[w]
          /\ Passed(k, s)' \subseteq Charged(k, s, MayPass(k, s))
    BY <1>14, <2>3
  <2>5. Over(k, s) =>
          /\ w \in Open(k, s)' => w \in Open(k, s) /\ stamp'[w] = stamp[w]
          /\ Passed(k, s)' \subseteq Charged(k, s, Open(k, s))
    BY <1>14, <2>1, <2>3
  <2>6. Passed(k, s) \subseteq Passed(k, s)'
    BY <1>14
  <2> QED
    BY <1>1, <1>4, <2>2, <2>3, <2>4, <2>5, <2>6, OneWorkerSteps
<1>15. ASSUME NEW w \in Workers, Count(w) PROVE Remembered(k, s)' \/ Over(k, s)'
  <2>1. /\ now' = now /\ members' = members /\ passed' = passed /\ ahead' = ahead /\ stamp' = stamp
        /\ count' = [count EXCEPT ![w] = Cardinality(InWindow(w, members[Key(w)]))]
        /\ pc[w] = "count" /\ pc' = [pc EXCEPT ![w] = "add"]
    BY <1>15 DEF Count, store
  <2>2. Passed(k, s)' = Passed(k, s)
    BY <2>1 DEF Passed, Window, LevelOf
  <2>3. ASSUME Remembered(k, s), w \in MayPass(k, s)' PROVE w \in MayPass(k, s)
    <3>1. /\ Key(w) = k /\ s < stamp[w] /\ stamp[w] <= s + Window(k) /\ w \in Open(k, s)
          /\ Cardinality(InWindow(w, members[k])) < Quota(k)
      BY <1>5, <2>1, <2>3 DEF MayPass, Open, At, Key, HasRoom, Quota, LevelOf, Window
    <3>2. PassedUntil(k, s, stamp[w]) \subseteq InWindow(w, members[k])
      BY <1>1, <1>5, <2>3, <3>1 DEF PassedUntil, InWindow, Remembered, Passed
    <3>3. IsFiniteSet(InWindow(w, members[k]))
      BY <1>1, FS_Subset DEF InWindow, Typed
    <3>4. /\ Cardinality(PassedUntil(k, s, stamp[w])) \in Nat
          /\ Cardinality(InWindow(w, members[k])) \in Nat
          /\ Cardinality(PassedUntil(k, s, stamp[w])) <= Cardinality(InWindow(w, members[k]))
      BY <3>2, <3>3, FS_Subset, FS_CardinalityType
    <3>5. Cardinality(PassedUntil(k, s, stamp[w])) < Quota(k)
      BY <1>1, <3>1, <3>4
    <3> QED
      BY <2>1, <3>1, <3>5 DEF MayPass
  <2> QED
    BY <1>5, <1>14, <2>1, <2>2, <2>3 DEF Charged, Remembered
<1>16. ASSUME NEW w \in Workers, Add(w) PROVE Remembered(k, s)' \/ Over(k, s)'
  <2>1. /\ now' = now /\ ahead' = ahead /\ stamp' = stamp /\ count' = count
        /\ pc[w] = "add" /\ pc' = [pc EXCEPT ![w] = "expire"]
        /\ members' = [members EXCEPT ![Key(w)] = @ \cup {stamp[w]}]
        /\ passed' = [passed EXCEPT ![Key(w)] = IF HasRoom(w) THEN @ \cup {stamp[w]} ELSE @]
    BY <1>16 DEF Add
  <2>2. Passed(k, s) \subseteq Passed(k, s)'
    BY <1>1, <1>5, <2>1 DEF Passed, Window, LevelOf
  <2>3. members[k] \subseteq members'[k]
    BY <1>1, <1>5, <2>1
  <2>4. ASSUME NEW t \in Passed(k, s)', t \notin Passed(k, s)
        PROVE  t = stamp[w] /\ w \in MayPass(k, s) /\ t \in members'[k]
    <3>1. t \in passed'[k] \ passed[k] /\ s < t /\ t <= s + Window(k)
      BY <2>4 DEF Passed, Window, LevelOf
    <3>2. Key(w) = k /\ HasRoom(w) /\ t = stamp[w]
      BY <1>1, <1>5, <2>1, <3>1
    <3> QED
      BY <1>1, <1>5, <2>1, <3>1, <3>2 DEF MayPass, Open, At
  <2>5. MayPass(k, s) \subseteq Open(k, s) /\ w \notin MayPass(k, s)'
    BY <1>5, <2>1 DEF MayPass, Open, At
  <2>6. Remembered(k, s) => Passed(k, s)' \subseteq members'[k]
    BY <2>3, <2>4 DEF Remembered
  <2>7. /\ Passed(k, s)' \subseteq Charged(k, s, MayPass(k, s))
        /\ Passed(k, s)' \subseteq Charged(k, s, Open(k, s))
    BY <2>4, <2>5 DEF Charged, Places
  <2> QED
    BY <1>5, <1>14, <2>1, <2>2, <2>5, <2>6, <2>7
<1>17. ASSUME NEW w \in Workers, Trim(w) PROVE Remembered(k, s)' \/ Over(k, s)'
  <2>1. /\ now' = now /\ passed' = passed /\ ahead' = ahead /\ stamp' = stamp /\ count' = count
        /\ members' = [members EXCEPT ![Key(w)] = Trimmed(w)]
        /\ pc[w] = "trim" /\ pc' = [pc EXCEPT ![w] = "count"]
    BY <1>17 DEF Trim
  <2>2. Passed(k, s)' = Passed(k, s)
    BY <2>1 DEF Passed, Window, LevelOf
  <2>3. w \in MayPass(k, s)' => w \in MayPass(k, s)
    BY <1>5, <2>1, <2>2 DEF MayPass, Open, At, Key, PassedUntil, Quota, Window, LevelOf
  <2>4. CASE Over(k, s) \/ Passed(k, s) \subseteq members'[k]
    <3>1. CASE Remembered(k, s) /\ Passed(k, s) \subseteq members'[k]
      BY <1>5, <1>14, <2>1, <2>2, <2>3, <3>1 DEF Charged
    <3>2. CASE Over(k, s)
      <4>1. now' > s + Window(k) /\ Open(k, s)' = Open(k, s)
        BY <1>5, <2>1, <3>2 DEF Over, Open, At, Key, Window, LevelOf
      <4>2. Charged(k, s, Open(k, s))' = Charged(k, s, Open(k, s))
        BY <2>1, <2>2, <4>1 DEF Charged, Places
      <4> QED
        BY <3>2, <4>1, <4>2 DEF Over, Quota, Window, LevelOf, OtherWorkers
    <3> QED
      BY <1>4, <2>4, <3>1, <3>2
  \* The clock of w is past the window, and the others that are in it are one fewer.
  <2>5. CASE Remembered(k, s) /\ ~(Passed(k, s) \subseteq members'[k])
    <3>1. PICK t \in Passed(k, s) : t \in members[k] /\ t \notin members'[k]
      BY <2>5 DEF Remembered
    <3>2. Key(w) = k /\ t <= stamp[w] - Window(k) /\ s < t /\ t \in Nat
      BY <1>1, <1>5, <2>1, <3>1 DEF Trimmed, Passed
    <3>3. stamp[w] > s + Window(k) /\ now' > s + Window(k)
      BY <1>1, <1>5, <2>1, <3>2 DEF Timely
    <3>4. Open(k, s)' \subseteq Workers \ {w}
      BY <1>1, <1>5, <1>7, <2>1, <3>3 DEF Open, Window, LevelOf
    <3>5. Cardinality(Open(k, s)') <= OtherWorkers
      <4>1. IsFiniteSet(Workers \ {w}) /\ Cardinality(Workers \ {w}) = Cardinality(Workers) - 1
        BY <1>2, FS_RemoveElement
      <4>2. Cardinality(Open(k, s)') <= Cardinality(Workers \ {w})
        BY <3>4, <4>1, FS_Subset
      <4> QED
        BY <4>1, <4>2 DEF OtherWorkers
    <3>6. Cardinality(Passed(k, s)) <= Quota(k) + OtherWorkers
      <4>1. IsFiniteSet(Charged(k, s, MayPass(k, s))) /\ Passed(k, s) \subseteq Charged(k, s, MayPass(k, s))
        BY <1>6, <1>7, PlacesTaken DEF Charged
      <4>2. /\ Cardinality(Passed(k, s)) <= Cardinality(Charged(k, s, MayPass(k, s)))
            /\ Cardinality(Passed(k, s)) \in Nat /\ Cardinality(Charged(k, s, MayPass(k, s))) \in Nat
        BY <1>6, <4>1, FS_Subset, FS_CardinalityType
      <4> QED
        BY <1>1, <1>2, <2>5, <4>2 DEF Remembered
    <3>7. /\ Cardinality(Charged(k, s, Open(k, s))') <= Cardinality(Passed(k, s)') + Cardinality(Open(k, s)')
          /\ Cardinality(Charged(k, s, Open(k, s))') \in Nat
          /\ Cardinality(Passed(k, s)') \in Nat /\ Cardinality(Open(k, s)') \in Nat
      BY <1>6, <1>7, PlacesTaken DEF Charged
    <3>8. Cardinality(Charged(k, s, Open(k, s))') <= Quota(k) + 2 * OtherWorkers
      BY <1>1, <1>2, <2>2, <3>5, <3>6, <3>7
    <3> QED
      BY <3>3, <3>8 DEF Over, Quota, Window, LevelOf, OtherWorkers
  <2> QED
    BY <1>4, <2>4, <2>5
<1>18. ASSUME UNCHANGED locals, now' >= now, passed'[k] = passed[k],
              Remembered(k, s) => Passed(k, s) \subseteq members'[k]
       PROVE  Remembered(k, s)' \/ Over(k, s)'
  <2>1. pc' = pc /\ ahead' = ahead /\ stamp' = stamp /\ count' = count /\ Passed(k, s)' = Passed(k, s)
    BY <1>18 DEF locals, Passed, Window, LevelOf
  <2>2. Open(k, s)' = Open(k, s)
    BY <2>1 DEF Open, At, Key, Window, LevelOf
  <2>3. MayPass(k, s)' = MayPass(k, s)
    BY <2>1, <2>2 DEF MayPass, PassedUntil, HasRoom, Key, Quota, LevelOf
  <2>4. /\ Charged(k, s, Open(k, s))' = Charged(k, s, Open(k, s))
        /\ Charged(k, s, MayPass(k, s))' = Charged(k, s, MayPass(k, s))
    BY <2>1, <2>2, <2>3 DEF Charged, Places
  <2>5. CASE Remembered(k, s)
    BY <1>18, <2>1, <2>4, <2>5 DEF Remembered, Quota, LevelOf, OtherWorkers
  <2>6. CASE Over(k, s)
    <3>1. now' > s + Window(k)
      BY <1>1, <1>5, <1>18, <2>6 DEF Over
    <3> QED
      BY <2>4, <2>6, <3>1 DEF Over, Quota, Window, LevelOf, OtherWorkers
  <2> QED
    BY <1>4, <2>5, <2>6
<1>19. ASSUME NEW c \in Given, ResetKey(c) PROVE Remembered(k, s)' \/ Over(k, s)'
  <2>1. CASE k = c
    <3>1. passed'[k] = {}
      BY <1>1, <1>5, <1>19, <2>1 DEF ResetKey
    <3> QED
      BY <1>10, <3>1 DEF Passed
  <2>2. CASE k # c
    <3>1. passed'[k] = passed[k] /\ members'[k] = members[k] /\ now' >= now /\ UNCHANGED locals
      BY <1>1, <1>5, <1>19, <2>2 DEF ResetKey
    <3> QED
      BY <1>18, <3>1 DEF Remembered
  <2> QED
    BY <2>1, <2>2
<1>20. CASE Tick
  <2>1. /\ now' = now + 1 /\ UNCHANGED locals /\ passed' = passed
        /\ \A w \in Workers : InPipeline(w) => now < stamp[w] + Timeout
    BY <1>20 DEF Tick
  <2>2. now' >= now /\ Passed(k, s)' = Passed(k, s)
    BY <1>5, <2>1 DEF Passed, Window, LevelOf
  <2>3. CASE k \notin Dropped
    BY <1>1, <1>18, <1>20, <2>1, <2>2, <2>3 DEF Tick, Remembered
  <2>4. CASE Passed(k, s) = {}
    BY <1>10, <2>2, <2>4
  \* A key that is dropped has outlived the window, and nobody is undecided in it.
  <2>5. CASE k \in Dropped /\ Remembered(k, s) /\ Passed(k, s) # {}
    <3>1. expires[k] # Never /\ expires[k] <= now + 1 /\ expires[k] \in Nat
      BY <1>1, <1>5, <2>5 DEF Dropped
    <3>2. ASSUME NEW w \in Workers, InPipeline(w) PROVE now + 1 <= stamp[w] + Buffer
      BY <1>1, <1>5, <2>1, <3>2
    <3>3. ASSUME NEW w \in Workers, At(w, k, {"count", "add", "expire"}) PROVE FALSE
      <4>1. expires[k] > stamp[w] + Buffer \/ Renewed(k)
        BY <1>4, <3>1, <3>3 DEF OutlivesItsUsers
      <4>2. PICK v \in Workers : InPipeline(v) /\ expires[k] > stamp[v] + Buffer
        BY <3>3, <4>1 DEF Renewed, At, InPipeline
      <4> QED
        BY <1>1, <1>5, <3>1, <3>2, <4>2
    <3>4. PICK t \in Passed(k, s) : t \in members[k] /\ t \in Nat /\ s < t
      BY <1>1, <1>5, <2>5 DEF Remembered, Passed
    <3>5. expires[k] >= t + Lifetime(k)
      BY <1>4, <3>1, <3>3, <3>4 DEF OutlivesItsUsers, At
    <3>6. now + 1 > s + Window(k) + Buffer
      BY <1>1, <1>5, <3>1, <3>4, <3>5 DEF Lifetime
    <3>7. Open(k, s)' = {}
      <4>1. \A w \in Workers : w \in Open(k, s)' => InPipeline(w) /\ stamp[w] <= s + Window(k)
        BY <2>1 DEF Open, At, InPipeline, locals, Window, LevelOf
      <4>2. \A w \in Workers : w \notin Open(k, s)'
        BY <1>1, <1>5, <3>2, <3>6, <4>1
      <4> QED
        BY <1>7, <4>2
    <3>8. Charged(k, s, Open(k, s))' = Passed(k, s)
      BY <2>2, <3>7 DEF Charged, Places
    <3>9. Cardinality(Passed(k, s)) <= Quota(k) + 2 * OtherWorkers
      <4>1. /\ IsFiniteSet(Charged(k, s, MayPass(k, s)))
            /\ Passed(k, s) \subseteq Charged(k, s, MayPass(k, s))
        BY <1>6, <1>7, PlacesTaken DEF Charged
      <4>2. /\ Cardinality(Passed(k, s)) <= Cardinality(Charged(k, s, MayPass(k, s)))
            /\ Cardinality(Passed(k, s)) \in Nat /\ Cardinality(Charged(k, s, MayPass(k, s))) \in Nat
        BY <1>6, <4>1, FS_Subset, FS_CardinalityType
      <4> QED
        BY <1>1, <1>2, <2>5, <4>2 DEF Remembered
    <3>10. now' > s + Window(k)
      BY <1>1, <1>5, <2>1, <3>6
    <3> QED
      BY <3>8, <3>9, <3>10 DEF Over, Quota, Window, LevelOf, OtherWorkers
  <2>6. CASE ~Remembered(k, s)
    BY <1>18, <2>1, <2>2, <2>6
  <2> QED
    BY <2>3, <2>4, <2>5, <2>6
<1>21. CASE UNCHANGED vars
  BY <1>5, <1>18, <1>21 DEF vars, store, Remembered
<1> QED
  BY <1>12, <1>13, <1>15, <1>16, <1>17, <1>19, <1>20, <1>21 DEF Next, AllowRequest

(***************************************************************************)
(* Provided a pipeline ends before the second is over by which a key       *)
(* outlives its window: no window admits more than its quota and two       *)
(* requests for every other worker, for any number of instances, with      *)
(* their commands, calls that fail, keys that expire and resets in any     *)
(* order.                                                                  *)
(***************************************************************************)
THEOREM WindowsAreBounded ==
  ASSUME Timeout <= Buffer
  PROVE  Spec => []WindowBound
<1> DEFINE IInv == Timely /\ KeysLast /\ Accounted
<1>1. Init /\ Typed => IInv
  <2> SUFFICES ASSUME Init, Typed PROVE IInv
    OBVIOUS
  <2>1. Timely /\ KeysLast
    BY DEF Init, Timely, KeysLast, OutlivesItsUsers, Checked
  <2>2. ASSUME NEW k \in Checked, NEW s \in Nat PROVE Remembered(k, s)
    <3>1. Passed(k, s) = {} /\ MayPass(k, s) = {}
      BY <2>2 DEF Init, Passed, MayPass, Open, At, Checked
    <3>2. Charged(k, s, MayPass(k, s)) = {}
      BY <3>1 DEF Charged, Places
    <3>3. OtherWorkers \in Nat
      BY RedisAssumption, FS_CardinalityType, FS_EmptySet DEF OtherWorkers
    <3>4. Quota(k) + OtherWorkers >= 0
      BY <3>3, LimitType
    <3> QED
      BY <3>1, <3>2, <3>4, FS_EmptySet DEF Remembered
  <2> QED
    BY <2>1, <2>2 DEF Accounted
<1>2. Typed /\ Typed' /\ IInv /\ [Next]_vars => IInv'
  BY TimelyStep, KeysLastStep, AccountedStep
<1>3. Typed /\ IInv => WindowBound
  <2> SUFFICES ASSUME Typed, IInv, NEW k \in Checked \ spoiled, NEW s \in 0..MaxTime
               PROVE  Cardinality(Passed(k, s)) <= Quota(k) + 2 * (Cardinality(Workers) - 1)
    BY DEF WindowBound
  <2>1. k \in Keys /\ s \in Nat /\ (Remembered(k, s) \/ Over(k, s))
    BY RedisAssumption DEF Accounted, Checked
  <2>2. Quota(k) \in Nat /\ OtherWorkers \in Nat /\ OtherWorkers = Cardinality(Workers) - 1
    BY RedisAssumption, FS_CardinalityType, FS_EmptySet DEF Checked, Quota, Limit, OtherWorkers
  <2>3. IsFiniteSet(Passed(k, s))
    BY <2>1, BoundedIsFinite DEF Passed, Typed, TypeOK, Timely
  <2>4. ASSUME NEW ws \in SUBSET Workers,
               Cardinality(Charged(k, s, ws)) <= Quota(k) + 2 * OtherWorkers
        PROVE  Cardinality(Passed(k, s)) <= Quota(k) + 2 * OtherWorkers
    <3>1. IsFiniteSet(Charged(k, s, ws)) /\ Passed(k, s) \subseteq Charged(k, s, ws)
      BY <2>3, PlacesTaken DEF Charged
    <3>2. /\ Cardinality(Passed(k, s)) <= Cardinality(Charged(k, s, ws))
          /\ Cardinality(Passed(k, s)) \in Nat /\ Cardinality(Charged(k, s, ws)) \in Nat
      BY <2>3, <3>1, FS_Subset, FS_CardinalityType
    <3> QED
      BY <2>2, <2>4, <3>2
  <2>5. CASE Remembered(k, s)
    <3>1. MayPass(k, s) \subseteq Workers /\ IsFiniteSet(Charged(k, s, MayPass(k, s)))
      BY <2>3, PlacesTaken DEF Charged, MayPass, Open
    <3>2. Cardinality(Charged(k, s, MayPass(k, s))) <= Quota(k) + 2 * OtherWorkers
      BY <2>2, <2>5, <3>1, FS_CardinalityType DEF Remembered
    <3> QED
      BY <2>2, <2>4, <3>1, <3>2
  <2>6. CASE Over(k, s)
    BY <2>2, <2>4, <2>6 DEF Over, Open
  <2> QED
    BY <2>1, <2>5, <2>6
<1> QED
  BY <1>1, <1>2, <1>3, TypeInductive, PTL DEF Spec
=============================================================================
