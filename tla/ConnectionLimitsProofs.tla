----------------------- MODULE ConnectionLimitsProofs -----------------------
(***************************************************************************)
(* The admission counters for every number of threads, clients and limits, *)
(* also where max_connections_ lets the maps of SecurityValidator grow so  *)
(* far that the cleanup drops clients in flight.                           *)
(***************************************************************************)
EXTENDS ConnectionLimits, FiniteSetTheorems, TLAPS

\* What each helper set of threads is, as a finite set of the pool's threads.
LEMMA FiniteThreadSets ==
  ASSUME NEW S, S \subseteq Threads
  PROVE  IsFiniteSet(S) /\ Cardinality(S) \in Nat
BY LimitsAssumption, FS_Subset, FS_CardinalityType

\* The types of the variables: no counter of a client ever goes below 0.
THEOREM TypeCorrect == Spec => []TypeOK
<1>1. Init => TypeOK
  BY LimitsAssumption DEF Init, TypeOK, Stage
<1>2. TypeOK /\ [Next]_vars => TypeOK'
  <2> SUFFICES ASSUME TypeOK, [Next]_vars PROVE TypeOK'
    OBVIOUS
  <2> USE LimitsAssumption DEF TypeOK, Stage, Goto
  <2>1. ASSUME NEW t \in Threads, NEW ip \in IPs, Arrive(t, ip) PROVE TypeOK'
    BY <2>1 DEF Arrive, perIP, config
  <2>2. ASSUME NEW t \in Threads, TurnAway(t) PROVE TypeOK'
    BY <2>2 DEF TurnAway, perIP, config
  <2>3. ASSUME NEW t \in Threads, Allow(t) PROVE TypeOK'
    <3>1. \A i \in IPs : CountOf(i) \in Nat
      BY DEF CountOf
    <3>2. Kept \subseteq IPs
      BY DEF Kept
    <3> QED
      BY <2>3, <3>1, <3>2 DEF Allow, Stale, config
  <2>4. ASSUME NEW t \in Threads, Deny(t) PROVE TypeOK'
    <3>1. \A i \in IPs : CountOf(i) \in Nat
      BY DEF CountOf
    <3>2. Kept \subseteq IPs
      BY DEF Kept
    <3> QED
      BY <2>4, <3>1, <3>2 DEF Deny, Stale, config
  <2>5. ASSUME NEW t \in Threads, Release(t) PROVE TypeOK'
    <3>1. CASE client[t] \in tracked /\ connection_count[client[t]] > 0
      BY <2>5, <3>1 DEF Release, Remembered, Decrement, config
    <3>2. CASE ~(client[t] \in tracked /\ connection_count[client[t]] > 0)
      BY <2>5, <3>2 DEF Release, Remembered, perIP, config
    <3> QED
      BY <3>1, <3>2
  <2>6. ASSUME NEW t \in Threads, Leave(t) PROVE TypeOK'
    BY <2>6 DEF Leave, perIP, config
  <2>7. ASSUME NEW n \in Limits, SetLimit(n) PROVE TypeOK'
    BY <2>7 DEF SetLimit, perIP
  <2>8. CASE Stop
    BY <2>8 DEF Stop, perIP
  <2>9. CASE Tick
    BY <2>9 DEF Tick, Aged, config
  <2>10. CASE UNCHANGED vars
    BY <2>10 DEF vars, perIP, config
  <2> QED
    BY <2>1, <2>2, <2>3, <2>4, <2>5, <2>6, <2>7, <2>8, <2>9, <2>10 DEF Next, Handle
<1> QED
  BY <1>1, <1>2, PTL DEF Spec

-----------------------------------------------------------------------------
(***************************************************************************)
(* The global counter. A step of a thread adds it to the server, or takes  *)
(* it out, and moves the counter by one the same way; a thread is admitted *)
(* only when the counter, hence the number of threads in the server, and   *)
(* so of admitted ones, is below the maximum.                              *)
(***************************************************************************)
GlobalInv == GlobalCountExact /\ AdmittedWithinMaximum

\* The counter and the maximum are kept by every step of a request.
LEMMA GlobalInvariant == Spec => []GlobalInv
<1>1. Init => GlobalInv
  <2> SUFFICES ASSUME Init PROVE GlobalInv
    OBVIOUS
  <2>1. InServer = {} /\ Admitted = {}
    BY DEF Init, InServer, Admitted
  <2> QED
    BY <2>1, FS_EmptySet, LimitsAssumption
       DEF GlobalInv, GlobalCountExact, AdmittedWithinMaximum, Init
<1>2. TypeOK /\ GlobalInv /\ [Next]_vars => GlobalInv'
  <2> SUFFICES ASSUME TypeOK, GlobalInv, [Next]_vars PROVE GlobalInv'
    OBVIOUS
  <2> USE LimitsAssumption DEF GlobalInv, GlobalCountExact, AdmittedWithinMaximum
  <2>0. /\ IsFiniteSet(InServer) /\ Cardinality(InServer) \in Nat
        /\ IsFiniteSet(Admitted) /\ Cardinality(Admitted) \in Nat
        /\ Admitted \subseteq InServer
    BY FiniteThreadSets DEF InServer, Admitted
  <2>1. ASSUME NEW t \in Threads, NEW ip \in IPs, Arrive(t, ip) PROVE GlobalInv'
    <3>1. InServer' = InServer \cup {t} /\ t \notin InServer
      BY <2>1 DEF Arrive, Goto, InServer, TypeOK
    <3>2. GlobalCountExact'
      BY <2>0, <2>1, <3>1, FS_AddElement DEF Arrive
    <3>3. CASE AtCapacity
      <4>1. Admitted' = Admitted
        BY <2>1, <3>3 DEF Arrive, Goto, Admitted, TypeOK
      <4> QED
        BY <3>2, <4>1
    <3>4. CASE ~AtCapacity
      <4>1. Admitted' = Admitted \cup {t} /\ t \notin Admitted
        BY <2>1, <3>4 DEF Arrive, Goto, Admitted, TypeOK
      <4>2. Cardinality(Admitted') = Cardinality(Admitted) + 1
        BY <2>0, <4>1, FS_AddElement
      <4>3. Cardinality(Admitted) <= Cardinality(InServer)
        BY <2>0, FS_Subset
      <4> QED
        BY <2>0, <3>2, <3>4, <4>2, <4>3 DEF AtCapacity
    <3> QED
      BY <3>3, <3>4
  <2>2. ASSUME NEW t \in Threads, TurnAway(t) PROVE GlobalInv'
    <3>1. InServer' = InServer \ {t} /\ t \in InServer /\ Admitted' = Admitted
      BY <2>2 DEF TurnAway, Goto, InServer, Admitted, TypeOK
    <3> QED
      BY <2>0, <2>2, <3>1, FS_RemoveElement DEF TurnAway
  <2>3. ASSUME NEW t \in Threads, Leave(t) PROVE GlobalInv'
    <3>1. /\ InServer' = InServer \ {t} /\ t \in InServer
          /\ Admitted' = Admitted \ {t} /\ t \in Admitted
      BY <2>3 DEF Leave, Goto, InServer, Admitted, TypeOK
    <3>2. /\ Cardinality(InServer') = Cardinality(InServer) - 1
          /\ Cardinality(Admitted') = Cardinality(Admitted) - 1
      BY <2>0, <3>1, FS_RemoveElement
    <3> QED
      BY <2>0, <2>3, <3>2 DEF Leave
  <2>4. ASSUME NEW t \in Threads, Allow(t) \/ Deny(t) \/ Release(t) PROVE GlobalInv'
    <3>1. InServer' = InServer /\ Admitted' = Admitted
      BY <2>4 DEF Allow, Deny, Release, Goto, InServer, Admitted, TypeOK
    <3>2. active_connections' = active_connections
      BY <2>4 DEF Allow, Deny, Release
    <3> QED
      BY <3>1, <3>2
  <2>5. ASSUME UNCHANGED <<pc, active_connections>> PROVE GlobalInv'
    BY <2>5 DEF InServer, Admitted
  <2> QED
    BY <2>1, <2>2, <2>3, <2>4, <2>5 DEF Next, Handle, SetLimit, Stop, Tick, vars
<1> QED
  BY <1>1, <1>2, TypeCorrect, PTL DEF Spec

\* active_connections_ is exactly the number of requests that have taken and
\* not yet returned an increment, over all interleavings of the handlers.
THEOREM GlobalCountIsExact == Spec => []GlobalCountExact
BY GlobalInvariant, PTL DEF GlobalInv

\* At most max_connections_ requests are past the global limit at a time.
THEOREM MaximumIsKept == Spec => []AdmittedWithinMaximum
BY GlobalInvariant, PTL DEF GlobalInv

-----------------------------------------------------------------------------
(***************************************************************************)
(* The per-client counts. The cleanup inside allowConnection only ever     *)
(* takes counts away, and notes whose; a release takes one away too, if    *)
(* there is one. So no count is above the number of requests being served, *)
(* and it meets that number again when the last of them is released, which *)
(* finds a count of 1 or, if the cleanup took it, of 0.                    *)
(***************************************************************************)
\* How the requests of a client being served are counted.
LEMMA ServingFacts ==
  ASSUME TypeOK, NEW ip \in IPs
  PROVE  /\ IsFiniteSet(Serving(ip)) /\ Cardinality(Serving(ip)) \in Nat
         /\ Cardinality(Serving(ip)) = 0 <=> Serving(ip) = {}
BY FiniteThreadSets, FS_EmptySet DEF Serving

\* What allowConnection's cleanup leaves of a client's count and entry.
LEMMA CleanupFacts ==
  ASSUME TypeOK, PerIPCountExact, NEW ip \in IPs
  PROVE  /\ CountOf(ip) \in Nat
         /\ CountOf(ip) <= Cardinality(Serving(ip))
         /\ ip \notin forgotten \cup Stale => CountOf(ip) = Cardinality(Serving(ip))
         /\ ip \in Kept <=> CountOf(ip) > 0
<1>1. /\ connection_count[ip] \in Nat
      /\ connection_count[ip] <= Cardinality(Serving(ip))
      /\ ip \notin forgotten => connection_count[ip] = Cardinality(Serving(ip))
      /\ ip \in tracked <=> connection_count[ip] > 0
  BY DEF PerIPCountExact, TypeOK
<1> QED
  BY <1>1, ServingFacts DEF CountOf, Kept

(***************************************************************************)
(* For any limits and any size at which the cleanup sets in, the count of  *)
(* a client is never above the number of its requests being served, and is *)
(* exactly that number unless the cleanup has dropped it while some of     *)
(* them were, and they have not all gone since.                            *)
(***************************************************************************)
THEOREM PerIPCountIsExact == Spec => []PerIPCountExact
<1> DEFINE Exact(ip) ==
      /\ connection_count[ip] <= Cardinality(Serving(ip))
      /\ ip \notin forgotten => connection_count[ip] = Cardinality(Serving(ip))
      /\ ip \in tracked <=> connection_count[ip] > 0
<1>1. Init => PerIPCountExact
  <2> SUFFICES ASSUME Init, NEW ip \in IPs PROVE Exact(ip)
    BY DEF PerIPCountExact
  <2>1. Serving(ip) = {}
    BY DEF Init, Serving
  <2> QED
    BY <2>1, FS_EmptySet DEF Init
<1>2. TypeOK /\ TypeOK' /\ PerIPCountExact /\ [Next]_vars => PerIPCountExact'
  <2> SUFFICES ASSUME TypeOK, TypeOK', PerIPCountExact, [Next]_vars, NEW ip \in IPs
               PROVE  Exact(ip)'
    BY DEF PerIPCountExact
  <2>0. Exact(ip)
    BY DEF PerIPCountExact
  <2>1. ASSUME NEW t \in Threads, Allow(t) PROVE Exact(ip)'
    <3>1. CASE ip = client[t]
      <4>1. Serving(ip)' = Serving(ip) \cup {t} /\ t \notin Serving(ip)
        BY <2>1, <3>1 DEF Allow, Goto, Serving, TypeOK
      <4>2. Cardinality(Serving(ip)') = Cardinality(Serving(ip)) + 1
        BY <4>1, ServingFacts, FS_AddElement
      <4>3. connection_count'[ip] = CountOf(ip) + 1 /\ ip \in tracked'
        BY <2>1, <3>1 DEF Allow
      <4>4. forgotten' = forgotten \cup Stale
        BY <2>1 DEF Allow
      <4> QED
        BY <4>2, <4>3, <4>4, CleanupFacts, ServingFacts
    <3>2. CASE ip # client[t]
      <4>1. Serving(ip)' = Serving(ip)
        BY <2>1, <3>2 DEF Allow, Goto, Serving, TypeOK
      <4>2. /\ connection_count'[ip] = CountOf(ip)
            /\ ip \in tracked' <=> ip \in Kept
            /\ forgotten' = forgotten \cup Stale
        BY <2>1, <3>2 DEF Allow
      <4> QED
        BY <4>1, <4>2, CleanupFacts
    <3> QED
      BY <3>1, <3>2
  <2>2. ASSUME NEW t \in Threads, Deny(t) PROVE Exact(ip)'
    <3>1. Serving(ip)' = Serving(ip)
      BY <2>2 DEF Deny, Goto, Serving, TypeOK
    <3>2. /\ connection_count'[ip] = CountOf(ip)
          /\ tracked' = Kept
          /\ forgotten' = forgotten \cup Stale
      BY <2>2 DEF Deny
    <3> QED
      BY <3>1, <3>2, CleanupFacts
  <2>3. ASSUME NEW t \in Threads, Release(t) PROVE Exact(ip)'
    <3> DEFINE c == client[t]
    <3>1. c \in IPs /\ t \in Serving(c) /\ connection_count[ip] \in Nat
      BY <2>3 DEF Release, Serving, TypeOK
    <3>2. CASE ip = c
      <4>1. Serving(ip)' = Serving(ip) \ {t}
        BY <2>3, <3>2 DEF Release, Goto, Serving, TypeOK
      <4>2. Cardinality(Serving(ip)') = Cardinality(Serving(ip)) - 1
        BY <3>1, <3>2, <4>1, ServingFacts, FS_RemoveElement
      <4>3. Serving(ip) = {t} <=> Cardinality(Serving(ip)') = 0
        <5>1. IsFiniteSet(Serving(ip)')
          BY <4>1, ServingFacts, FS_RemoveElement
        <5>2. Cardinality(Serving(ip)') = 0 <=> Serving(ip)' = {}
          BY <5>1, FS_EmptySet
        <5> QED
          BY <3>1, <3>2, <4>1, <5>2
      <4>4. ip \in forgotten' <=> ip \in forgotten /\ Serving(ip) # {t}
        BY <2>3, <3>2 DEF Release, Remembered
      <4>5. CASE ip \in tracked
        <5>1. Decrement(ip) /\ connection_count[ip] > 0
          BY <2>0, <2>3, <3>2, <4>5 DEF Release
        <5>2. connection_count'[ip] = connection_count[ip] - 1
          BY <5>1 DEF Decrement, TypeOK
        <5>3. ip \in tracked' <=> connection_count[ip] # 1
          BY <4>5, <5>1 DEF Decrement
        <5> QED
          BY <2>0, <3>1, <4>2, <4>3, <4>4, <5>1, <5>2, <5>3, ServingFacts
      <4>6. CASE ip \notin tracked
        <5>1. connection_count[ip] = 0 /\ UNCHANGED <<connection_count, tracked>>
          BY <2>0, <2>3, <3>1, <3>2, <4>6 DEF Release, perIP
        <5>2. ip \in forgotten
          BY <2>0, <3>1, <3>2, <5>1, ServingFacts
        <5> QED
          BY <2>0, <4>2, <4>3, <4>4, <4>6, <5>1, <5>2, <3>1, <3>2, ServingFacts
      <4> QED
        BY <4>5, <4>6
    <3>3. CASE ip # c
      <4>1. Serving(ip)' = Serving(ip)
        BY <2>3, <3>3 DEF Release, Goto, Serving, TypeOK
      <4>2. ip \in forgotten' <=> ip \in forgotten
        BY <2>3, <3>3 DEF Release, Remembered
      <4>3. connection_count'[ip] = connection_count[ip]
            /\ (ip \in tracked' <=> ip \in tracked)
        BY <2>3, <3>3 DEF Release, Decrement, TypeOK, perIP
      <4> QED
        BY <2>0, <4>1, <4>2, <4>3
    <3> QED
      BY <3>2, <3>3
  <2>4. ASSUME Serving(ip)' = Serving(ip),
               UNCHANGED <<connection_count, tracked, forgotten>>
        PROVE  Exact(ip)'
    BY <2>0, <2>4
  <2>5. ASSUME NEW t \in Threads,
               TurnAway(t) \/ Leave(t) \/ \E i \in IPs : Arrive(t, i)
        PROVE  /\ Serving(ip)' = Serving(ip)
               /\ UNCHANGED <<connection_count, tracked, forgotten>>
    BY <2>5 DEF TurnAway, Leave, Arrive, Goto, Serving, TypeOK, perIP
  <2>6. ASSUME Stop \/ Tick \/ UNCHANGED vars \/ \E n \in Limits : SetLimit(n)
        PROVE  /\ Serving(ip)' = Serving(ip)
               /\ UNCHANGED <<connection_count, tracked, forgotten>>
    BY <2>6 DEF Stop, Tick, SetLimit, vars, perIP, Serving
  <2> QED
    BY <2>1, <2>2, <2>3, <2>4, <2>5, <2>6 DEF Next, Handle
<1> QED
  BY <1>1, <1>2, TypeCorrect, PTL DEF Spec

(***************************************************************************)
(* For any limits and any size at which the cleanup sets in: a request is  *)
(* refused only at the limit in force, and admitted only below it, unless  *)
(* the cleanup dropped the client's count in flight.                       *)
(***************************************************************************)
THEOREM PerIPLimitIsKept == Spec => AdmitsBelowPerIPLimit /\ RefusesOnlyAtPerIPLimit
<1> DEFINE Admits(t) ==
             pc[t] = "counted" /\ pc'[t] = "serving" /\ client[t] \notin forgotten'
               => Cardinality(Serving(client[t])) < max_connections_per_ip
           Refuses(t) ==
             pc[t] = "counted" /\ pc'[t] = "denied"
               => Cardinality(Serving(client[t])) >= max_connections_per_ip
<1>1. /\ TypeOK /\ PerIPCountExact /\ [Next]_vars
      => [\A t \in Threads : Admits(t) /\ Refuses(t)]_vars
  <2> SUFFICES ASSUME TypeOK, PerIPCountExact, Next,
                      NEW t \in Threads, pc[t] = "counted",
                      pc'[t] \in {"serving", "denied"}
               PROVE  Admits(t) /\ Refuses(t)
    BY DEF vars
  <2>1. /\ CountOf(client[t]) \in Nat
        /\ CountOf(client[t]) <= Cardinality(Serving(client[t]))
        /\ client[t] \notin forgotten \cup Stale
             => CountOf(client[t]) = Cardinality(Serving(client[t]))
        /\ Cardinality(Serving(client[t])) \in Nat
    BY CleanupFacts, ServingFacts DEF TypeOK
  <2>2. Allow(t) \/ Deny(t)
    BY DEF Next, Handle, Arrive, TurnAway, Allow, Deny, Release, Leave, SetLimit,
           Stop, Tick, Goto, TypeOK
  <2>3. max_connections_per_ip \in Nat
    BY LimitsAssumption DEF TypeOK
  <2>4. CASE Allow(t)
    BY <2>1, <2>4 DEF Allow, HasRoom, Goto, TypeOK
  <2>5. CASE Deny(t)
    BY <2>1, <2>3, <2>5 DEF Deny, HasRoom, Goto, TypeOK
  <2> QED
    BY <2>2, <2>4, <2>5
<1>2. [\A t \in Threads : Admits(t) /\ Refuses(t)]_vars => [\A t \in Threads : Admits(t)]_vars
  OBVIOUS
<1>3. [\A t \in Threads : Admits(t) /\ Refuses(t)]_vars => [\A t \in Threads : Refuses(t)]_vars
  OBVIOUS
<1> QED
  BY <1>1, <1>2, <1>3, TypeCorrect, PerIPCountIsExact, PTL
     DEF Spec, AdmitsBelowPerIPLimit, RefusesOnlyAtPerIPLimit
=============================================================================
