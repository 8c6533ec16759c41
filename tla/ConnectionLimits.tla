-------------------------- MODULE ConnectionLimits --------------------------
(***************************************************************************)
(* Admission of requests in HttpServer::handleRequest: the global counter  *)
(* active_connections_, a bare atomic, and the per-client counts of        *)
(* SecurityValidator, a pair of maps under connection_mutex_. A request    *)
(* takes one step per atomic access; the two RAII guards release what was  *)
(* taken on every way out of the handler, the inner one (per client)       *)
(* first. A request to /health, /metrics or /admin/, or from a filtered    *)
(* address, returns before it touches either counter and is not modelled.  *)
(*                                                                         *)
(* A definition that nothing uses, just before the one it varies, is a     *)
(* faulty variant: README.md says which property rejects it.               *)
(***************************************************************************)
EXTENDS Integers, FiniteSets

CONSTANTS
  Threads,         \* threads of the HTTP library's pool
  IPs,             \* client addresses
  MaxConnections,  \* max_connections_
  Limits,          \* values max_connections_per_ip_ is configured to
  CleanupSize,     \* entries above which allowConnection drops stale ones (1000)
  StaleAfter       \* seconds without an admission that make one stale (300)

(***************************************************************************)
(* per_ip_connections is read unchecked; 0 would reject every request and  *)
(* is taken for a configuration error.                                     *)
(***************************************************************************)
ASSUME LimitsAssumption ==
  /\ IsFiniteSet(Threads)
  /\ IsFiniteSet(IPs)
  /\ MaxConnections \in Nat
  /\ Limits \subseteq Nat \ {0}
  /\ CleanupSize \in Nat
  /\ StaleAfter \in Nat

VARIABLES
  pc,                     \* pc[t]: where t is in handleRequest
  client,                 \* client[t]: the address t serves, or last served
  active_connections,     \* the global atomic counter
  tracked,                \* keys of connection_count_ and connection_last_seen_
  connection_count,       \* connection_count_, 0 for an absent key
  last_seen,              \* seconds since connection_last_seen_, saturating
  max_connections_per_ip, \* the configured limit
  accepting,              \* the server listens: stop() has not been called
  forgotten               \* history: clients whose count the cleanup dropped
                          \* while they were served, until none of their
                          \* requests is

perIP == <<tracked, connection_count, last_seen>>
config == <<max_connections_per_ip, accepting>>
vars == <<pc, client, active_connections, perIP, config, forgotten>>

(***************************************************************************)
(* "counted": passed the global limit; "over": failed it and has not yet   *)
(* taken its increment back; "denied": refused by allowConnection;         *)
(* "serving": in the rest of the handler; "leaving": between the           *)
(* destructors of the two guards.                                          *)
(***************************************************************************)
Stage == {"idle", "over", "counted", "denied", "serving", "leaving"}

InServer    == {t \in Threads : pc[t] # "idle"}
Admitted    == {t \in Threads : pc[t] \in {"counted", "denied", "serving", "leaving"}}
Serving(ip) == {t \in Threads : pc[t] = "serving" /\ client[t] = ip}

Goto(t, stage) == pc' = [pc EXCEPT ![t] = stage]

-----------------------------------------------------------------------------
Init ==
  /\ pc = [t \in Threads |-> "idle"]
  /\ client \in [Threads -> IPs]
  /\ active_connections = 0
  /\ tracked = {}
  /\ connection_count = [ip \in IPs |-> 0]
  /\ last_seen = [ip \in IPs |-> 0]
  /\ max_connections_per_ip \in Limits
  /\ accepting = TRUE
  /\ forgotten = {}

AtCapacityOffByOne == active_connections > MaxConnections

\* What fetch_add returned is at the limit.
AtCapacity == active_connections >= MaxConnections

\* fetch_add(1) and the test of the value it returned.
Arrive(t, ip) ==
  /\ accepting
  /\ pc[t] = "idle"
  /\ client' = [client EXCEPT ![t] = ip]
  /\ active_connections' = active_connections + 1
  /\ Goto(t, IF AtCapacity THEN "over" ELSE "counted")
  /\ UNCHANGED <<perIP, config, forgotten>>

\* "Server at maximum capacity": the increment is taken back.
TurnAway(t) ==
  /\ pc[t] = "over"
  /\ active_connections' = active_connections - 1
  /\ Goto(t, "idle")
  /\ UNCHANGED <<client, perIP, config, forgotten>>

-----------------------------------------------------------------------------
\* The entries allowConnection drops before it looks at the client's own: a
\* full map loses those not admitted for long, in flight or not.
Stale ==
  {ip \in tracked : Cardinality(tracked) > CleanupSize /\ last_seen[ip] > StaleAfter}

\* The client's count as allowConnection reads it.
CountOf(ip) == IF ip \in Stale THEN 0 ELSE connection_count[ip]

\* What the maps hold without the stale entries, and with ip counted once more.
Kept == tracked \ Stale

HasRoomOffByOne(ip) == CountOf(ip) <= max_connections_per_ip
HasRoom(ip) == CountOf(ip) < max_connections_per_ip

\* allowConnection, under connection_mutex_: admitted.
Allow(t) ==
  LET ip == client[t] IN
  /\ pc[t] = "counted"
  /\ HasRoom(ip)
  /\ tracked' = Kept \cup {ip}
  /\ connection_count' = [i \in IPs |-> IF i = ip THEN CountOf(i) + 1 ELSE CountOf(i)]
  /\ last_seen' = [i \in IPs |-> IF i \in Kept \ {ip} THEN last_seen[i] ELSE 0]
  /\ forgotten' = forgotten \cup Stale
  /\ Goto(t, "serving")
  /\ UNCHANGED <<client, active_connections, config>>

DenyCounted(t) ==
  LET ip == client[t] IN
  /\ pc[t] = "counted"
  /\ ~HasRoom(ip)
  /\ tracked' = Kept
  /\ connection_count' = [i \in IPs |-> IF i = ip THEN CountOf(i) + 1 ELSE CountOf(i)]
  /\ last_seen' = [i \in IPs |-> IF i \in Kept THEN last_seen[i] ELSE 0]
  /\ forgotten' = forgotten \cup Stale
  /\ Goto(t, "denied")
  /\ UNCHANGED <<client, active_connections, config>>

\* allowConnection, under connection_mutex_: refused. With a positive limit
\* the client has a count, hence an entry, already.
Deny(t) ==
  LET ip == client[t] IN
  /\ pc[t] = "counted"
  /\ ~HasRoom(ip)
  /\ tracked' = Kept
  /\ connection_count' = [i \in IPs |-> CountOf(i)]
  /\ last_seen' = [i \in IPs |-> IF i \in Kept THEN last_seen[i] ELSE 0]
  /\ forgotten' = forgotten \cup Stale
  /\ Goto(t, "denied")
  /\ UNCHANGED <<client, active_connections, config>>

\* The count of a tracked client goes down; at 0 its entries are erased.
Decrement(ip) ==
  /\ connection_count' = [connection_count EXCEPT ![ip] = @ - 1]
  /\ tracked' = IF connection_count[ip] = 1 THEN tracked \ {ip} ELSE tracked
  /\ last_seen' = IF connection_count[ip] = 1
                  THEN [last_seen EXCEPT ![ip] = 0] ELSE last_seen

\* No request of a client is forgotten any more once the last one has gone.
Remembered(t) ==
  forgotten' = IF Serving(client[t]) = {t} THEN forgotten \ {client[t]} ELSE forgotten

ReleaseUnchecked(t) ==
  /\ pc[t] = "serving"
  /\ Decrement(client[t])
  /\ Remembered(t)
  /\ Goto(t, "leaving")
  /\ UNCHANGED <<client, active_connections, config>>

\* ~ConnectionGuard: releaseConnection, under connection_mutex_.
Release(t) ==
  LET ip == client[t] IN
  /\ pc[t] = "serving"
  /\ \/ ip \in tracked /\ connection_count[ip] > 0 /\ Decrement(ip)
     \/ ~(ip \in tracked /\ connection_count[ip] > 0) /\ UNCHANGED perIP
  /\ Remembered(t)
  /\ Goto(t, "leaving")
  /\ UNCHANGED <<client, active_connections, config>>

LeaveAfterServing(t) ==
  /\ pc[t] \in {"denied", "leaving"}
  /\ active_connections' =
       IF pc[t] = "leaving" THEN active_connections - 1 ELSE active_connections
  /\ Goto(t, "idle")
  /\ UNCHANGED <<client, perIP, config, forgotten>>

\* ~GlobalConnGuard: after a refusal and after the handler alike.
Leave(t) ==
  /\ pc[t] \in {"denied", "leaving"}
  /\ active_connections' = active_connections - 1
  /\ Goto(t, "idle")
  /\ UNCHANGED <<client, perIP, config, forgotten>>

-----------------------------------------------------------------------------
\* setMaxConnectionsPerIP, from the admin API while requests are in flight.
SetLimit(n) ==
  /\ max_connections_per_ip' = n
  /\ UNCHANGED <<pc, client, active_connections, perIP, accepting, forgotten>>

\* HttpServer::stop: the library accepts no more, the threads finish.
Stop ==
  /\ accepting
  /\ accepting' = FALSE
  /\ UNCHANGED <<pc, client, active_connections, perIP, max_connections_per_ip, forgotten>>

\* A second older; an age beyond StaleAfter makes no further difference.
Aged(age) == IF age <= StaleAfter THEN age + 1 ELSE age

Tick ==
  /\ last_seen' = [ip \in IPs |-> IF ip \in tracked THEN Aged(last_seen[ip]) ELSE last_seen[ip]]
  /\ UNCHANGED <<pc, client, active_connections, tracked, connection_count,
                 config, forgotten>>

Handle(t) == TurnAway(t) \/ Allow(t) \/ Deny(t) \/ Release(t) \/ Leave(t)

Next ==
  \/ \E t \in Threads : (\E ip \in IPs : Arrive(t, ip)) \/ Handle(t)
  \/ \E n \in Limits : SetLimit(n)
  \/ Stop
  \/ Tick

Spec == Init /\ [][Next]_vars

(***************************************************************************)
(* A request in the server gets out of it: the mutex is held briefly and   *)
(* every blocking call in the handler has a timeout.                       *)
(***************************************************************************)
FairSpec == Spec /\ \A t \in Threads : WF_vars(Handle(t))

-----------------------------------------------------------------------------
\* Every variable keeps its type: no per-client count falls below 0, although
\* requests are released whose count the cleanup has dropped.
TypeOK ==
  /\ pc \in [Threads -> Stage]
  /\ client \in [Threads -> IPs]
  /\ active_connections \in Int
  /\ tracked \in SUBSET IPs
  /\ connection_count \in [IPs -> Nat]
  /\ last_seen \in [IPs -> 0..(StaleAfter + 1)]
  /\ max_connections_per_ip \in Limits
  /\ accepting \in BOOLEAN
  /\ forgotten \in SUBSET IPs

(***************************************************************************)
(* The global counter is exactly the number of requests between their      *)
(* increment and their decrement: no way out of the handler leaks one or   *)
(* returns it twice.                                                       *)
(***************************************************************************)
GlobalCountExact == active_connections = Cardinality(InServer)

(***************************************************************************)
(* HttpServer.h: "Maximum concurrent connections". Although rejected       *)
(* requests push the counter past the maximum before they take their       *)
(* increment back, at most MaxConnections requests are past the test.      *)
(***************************************************************************)
AdmittedWithinMaximum == Cardinality(Admitted) <= MaxConnections

(***************************************************************************)
(* The count of a client is the number of its requests being served, and   *)
(* it has an entry just while it has a count. The cleanup may drop the     *)
(* entry of a client in flight: its count is then too low, never too high, *)
(* until none of its requests is served any more, and no other client's    *)
(* count is touched by what releasing the forgotten requests does.         *)
(***************************************************************************)
PerIPCountExact ==
  \A ip \in IPs :
    /\ connection_count[ip] <= Cardinality(Serving(ip))
    /\ ip \notin forgotten => connection_count[ip] = Cardinality(Serving(ip))
    /\ ip \in tracked <=> connection_count[ip] > 0

(***************************************************************************)
(* Every admission of a client's request finds fewer of its requests being *)
(* served than the limit in force, which the admin API may have lowered    *)
(* below the number already in flight, unless this admission or one before *)
(* it has dropped the count of the client in flight.                       *)
(***************************************************************************)
AdmitsBelowPerIPLimit ==
  [][\A t \in Threads :
       pc[t] = "counted" /\ pc'[t] = "serving" /\ client[t] \notin forgotten'
         => Cardinality(Serving(client[t])) < max_connections_per_ip]_vars

(***************************************************************************)
(* A client is refused only while it really has the limit's number of      *)
(* requests in flight, whatever the cleanup has dropped.                   *)
(***************************************************************************)
RefusesOnlyAtPerIPLimit ==
  [][\A t \in Threads :
       pc[t] = "counted" /\ pc'[t] = "denied"
         => Cardinality(Serving(client[t])) >= max_connections_per_ip]_vars

(***************************************************************************)
(* A server that has been stopped drains: the counter returns to 0 and no  *)
(* per-client entry is left behind.                                        *)
(***************************************************************************)
Drained == InServer = {} /\ active_connections = 0 /\ tracked = {}
StoppedServerDrains == ~accepting ~> Drained
=============================================================================
