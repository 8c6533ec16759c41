--------------------------- MODULE CircuitBreaker ---------------------------
(***************************************************************************)
(* ProxyManager (src/src/router/ProxyManager.cpp): one circuit breaker per *)
(* backend, shared by the threads of the HTTP server. forwardRequest takes *)
(* the backend's lock twice, to decide whether to send and to record the   *)
(* outcome, and holds no lock while the request is in flight, so any       *)
(* number of admissions, outcomes, health checks and seconds may fall      *)
(* between the two.                                                        *)
(*                                                                         *)
(* circuit_opened_at is kept as the whole seconds elapsed since then,      *)
(* which is all shouldAttemptRecovery looks at; it saturates at            *)
(* RecoveryTimeout because the code only asks whether it is that large.    *)
(* failure_count saturates at FailureCap: it is only compared with the     *)
(* threshold and set to 0.                                                 *)
(*                                                                         *)
(* Init, Next, Spec and TypeOK are prefixed, since ProxyProofs speaks of   *)
(* this module and of WebSocketProxy at once.                              *)
(*                                                                         *)
(* A definition that nothing uses, just before the one it varies, is a     *)
(* faulty variant: README.md says which property rejects it.               *)
(***************************************************************************)
EXTENDS Naturals

CONSTANTS
  Requests,          \* threads of the server's pool, one request at a time
  Backends,          \* backend URLs: the keys of backend_health_
  FailureThreshold,  \* failure_threshold_
  RecoveryTimeout,   \* recovery_timeout_, in seconds
  FailureCap,        \* bound on failure_count
  Methods            \* HTTP methods the clients use, of those validateMethod
                     \* lets through

(***************************************************************************)
(* main.cpp passes backends.circuit_breaker to the constructor unchecked;  *)
(* a threshold below 1 or a negative timeout is a configuration error.     *)
(***************************************************************************)
ASSUME BreakerAssumption ==
  /\ FailureThreshold \in Nat \ {0}
  /\ RecoveryTimeout \in Nat
  /\ FailureCap \in Nat
  /\ FailureCap >= FailureThreshold

VARIABLES
  circuit_state,  \* circuit_state[b]
  failure_count,  \* failure_count[b]
  status,         \* status[b]: what isHealthy and the health check see
  opened_for,     \* opened_for[b]: seconds since circuit_opened_at
  place,          \* place[r]: where thread r is in forwardRequest
  target,         \* target[r]: the backend r is, or last was, about
  up,             \* up[b]: whether the backend serves requests (environment)
  quiet_for,      \* quiet_for[b]: seconds since the last recorded failure
  at_fault        \* backends that have failed a request (history)

breaker == <<circuit_state, failure_count, status, opened_for>>
history == <<quiet_for, at_fault>>
breakerVars == <<breaker, place, target, up, history>>

CircuitState == {"CLOSED", "OPEN", "HALF_OPEN"}
HealthStatus == {"HEALTHY", "UNHEALTHY", "UNKNOWN"}

\* "sent": inside makeRequest; "succeeded"/"failed": makeRequest has returned
\* and the outcome is not recorded yet; "refused": answered 503.
Place == {"idle", "sent", "succeeded", "failed", "refused"}

InFlight(b) ==
  {r \in Requests : place[r] \in {"sent", "succeeded", "failed"} /\ target[r] = b}

IsFree(r) == place[r] \in {"idle", "refused"}

\* The methods makeRequest can send; HEAD passes validateMethod, reaches the
\* GET handler of the HTTP library, and ends here as "Unsupported HTTP method".
Sendable == {"GET", "POST", "PUT", "DELETE", "PATCH"}

\* n + 1, saturating at cap.
Capped(n, cap) == IF n < cap THEN n + 1 ELSE cap

-----------------------------------------------------------------------------
BreakerInit ==
  /\ circuit_state = [b \in Backends |-> "CLOSED"]
  /\ failure_count = [b \in Backends |-> 0]
  /\ status        = [b \in Backends |-> "UNKNOWN"]
  /\ opened_for    = [b \in Backends |-> 0]
  /\ place         = [r \in Requests |-> "idle"]
  /\ target        \in [Requests -> Backends]
  /\ up            \in [Backends -> BOOLEAN]
  /\ quiet_for     = [b \in Backends |-> RecoveryTimeout]
  /\ at_fault      = {}

\* shouldAttemptRecovery: the open circuit has rested long enough.
Rested(b) == opened_for[b] >= RecoveryTimeout

\* What an admission does to the circuit: a rested open one is half-opened.
HalfOpen(b) ==
  circuit_state' = [circuit_state EXCEPT
                      ![b] = IF @ = "OPEN" THEN "HALF_OPEN" ELSE @]

\* forwardRequest, first critical section: the request is sent.
Admit(r, b) ==
  /\ IsFree(r)
  /\ circuit_state[b] = "OPEN" => Rested(b)
  /\ HalfOpen(b)
  /\ place'  = [place EXCEPT ![r] = "sent"]
  /\ target' = [target EXCEPT ![r] = b]
  /\ UNCHANGED <<failure_count, status, opened_for, up, history>>

RefuseAndRestartRest(r, b) ==
  /\ IsFree(r)
  /\ circuit_state[b] = "OPEN"
  /\ ~Rested(b)
  /\ place'      = [place EXCEPT ![r] = "refused"]
  /\ target'     = [target EXCEPT ![r] = b]
  /\ opened_for' = [opened_for EXCEPT ![b] = 0]
  /\ UNCHANGED <<circuit_state, failure_count, status, up, history>>

\* forwardRequest, first critical section: "Circuit breaker open".
RefuseOpen(r, b) ==
  /\ IsFree(r)
  /\ circuit_state[b] = "OPEN"
  /\ ~Rested(b)
  /\ place'  = [place EXCEPT ![r] = "refused"]
  /\ target' = [target EXCEPT ![r] = b]
  /\ UNCHANGED <<breaker, up, history>>

\* makeRequest returns, without any lock: an answer below 500 from a backend
\* that is up; a 5xx, a refused connection or a timeout from one that is not.
Answer(r) ==
  LET b == target[r] IN
  /\ place[r] = "sent"
  /\ \E m \in Methods \cap Sendable : TRUE
  /\ place' = [place EXCEPT ![r] = IF up[b] THEN "succeeded" ELSE "failed"]
  /\ at_fault' = IF up[b] THEN at_fault ELSE at_fault \cup {b}
  /\ UNCHANGED <<breaker, target, up, quiet_for>>

\* makeRequest returns without having sent anything.
NotSendable(r) ==
  /\ place[r] = "sent"
  /\ \E m \in Methods : m \notin Sendable
  /\ place' = [place EXCEPT ![r] = "failed"]
  /\ UNCHANGED <<breaker, target, up, history>>

-----------------------------------------------------------------------------
ClosesFromOpenToo == {"HALF_OPEN", "OPEN"}
ClosesFromNone == {}

\* The states from which a success closes the circuit.
ClosesFrom == {"HALF_OPEN"}

RecordSuccessClosesOnly(r) ==
  LET b == target[r] IN
  /\ place[r] = "succeeded"
  /\ failure_count' = [failure_count EXCEPT
                         ![b] = IF circuit_state[b] \in ClosesFrom THEN @ ELSE 0]
  /\ status'        = [status EXCEPT ![b] = "HEALTHY"]
  /\ circuit_state' = [circuit_state EXCEPT
                         ![b] = IF @ \in ClosesFrom THEN "CLOSED" ELSE @]
  /\ place' = [place EXCEPT ![r] = "idle"]
  /\ UNCHANGED <<opened_for, target, up, history>>

\* recordSuccess.
RecordSuccess(r) ==
  LET b == target[r] IN
  /\ place[r] = "succeeded"
  /\ failure_count' = [failure_count EXCEPT ![b] = 0]
  /\ status'        = [status EXCEPT ![b] = "HEALTHY"]
  /\ circuit_state' = [circuit_state EXCEPT
                         ![b] = IF @ \in ClosesFrom THEN "CLOSED" ELSE @]
  /\ place' = [place EXCEPT ![r] = "idle"]
  /\ UNCHANGED <<opened_for, target, up, history>>

TripsOnceOnly(count) == count = FailureThreshold

\* Whether a failure that brings the count to this value opens the circuit.
Trips(count) == count >= FailureThreshold

\* recordFailure, the failure that only counts.
CountFailure(r) ==
  LET b == target[r]
      count == Capped(failure_count[b], FailureCap) IN
  /\ place[r] = "failed"
  /\ ~Trips(count)
  /\ failure_count' = [failure_count EXCEPT ![b] = count]
  /\ status'        = [status EXCEPT ![b] = "UNHEALTHY"]
  /\ place'     = [place EXCEPT ![r] = "idle"]
  /\ quiet_for' = [quiet_for EXCEPT ![b] = 0]
  /\ UNCHANGED <<circuit_state, opened_for, target, up, at_fault>>

\* circuit_opened_at = now().
StartRest(b) == opened_for' = [opened_for EXCEPT ![b] = 0]

\* recordFailure, the failure that opens the circuit, or makes it rest anew.
OpenCircuit(r) ==
  LET b == target[r]
      count == Capped(failure_count[b], FailureCap) IN
  /\ place[r] = "failed"
  /\ Trips(count)
  /\ failure_count' = [failure_count EXCEPT ![b] = count]
  /\ status'        = [status EXCEPT ![b] = "UNHEALTHY"]
  /\ circuit_state' = [circuit_state EXCEPT ![b] = "OPEN"]
  /\ StartRest(b)
  /\ place'     = [place EXCEPT ![r] = "idle"]
  /\ quiet_for' = [quiet_for EXCEPT ![b] = 0]
  /\ UNCHANGED <<target, up, at_fault>>

\* performHealthCheck, from the health-check thread: it never touches the
\* circuit, and its outcome is that of a HEAD /health sent earlier.
HealthCheck(b) ==
  /\ status' \in {[status EXCEPT ![b] = s] : s \in {"HEALTHY", "UNHEALTHY"}}
  /\ UNCHANGED <<circuit_state, failure_count, opened_for, place, target, up, history>>

-----------------------------------------------------------------------------
\* A second passes on the steady clock.
Tick ==
  /\ \E b \in Backends : opened_for[b] < RecoveryTimeout \/ quiet_for[b] < RecoveryTimeout
  /\ opened_for' = [b \in Backends |-> Capped(opened_for[b], RecoveryTimeout)]
  /\ quiet_for'  = [b \in Backends |-> Capped(quiet_for[b], RecoveryTimeout)]
  /\ UNCHANGED <<circuit_state, failure_count, status, place, target, up, at_fault>>

\* The backend goes down or comes back.
Toggle(b) ==
  /\ up' = [up EXCEPT ![b] = ~@]
  /\ UNCHANGED <<breaker, place, target, history>>

Forward(r) ==
  \/ \E b \in Backends : Admit(r, b) \/ RefuseOpen(r, b)
  \/ Answer(r)
  \/ NotSendable(r)
  \/ RecordSuccess(r)
  \/ CountFailure(r)
  \/ OpenCircuit(r)

BreakerNext ==
  \/ \E r \in Requests : Forward(r)
  \/ \E b \in Backends : HealthCheck(b) \/ Toggle(b)
  \/ Tick

BreakerSpec == BreakerInit /\ [][BreakerNext]_breakerVars

(***************************************************************************)
(* Fairness. A thread inside forwardRequest always finishes: makeRequest   *)
(* has connection, read and write timeouts and the critical sections do    *)
(* not block. Time passes. Clients keep sending requests for each backend, *)
(* which is an assumption about them: a breaker nobody calls stays OPEN.   *)
(***************************************************************************)
BreakerFairness ==
  /\ WF_breakerVars(Tick)
  /\ \A r \in Requests :
       WF_breakerVars(Answer(r)) /\ WF_breakerVars(RecordSuccess(r))
         /\ WF_breakerVars(CountFailure(r)) /\ WF_breakerVars(OpenCircuit(r))
  /\ \A b \in Backends : SF_breakerVars(\E r \in Requests : Admit(r, b))

FairBreakerSpec == BreakerSpec /\ BreakerFairness

-----------------------------------------------------------------------------
\* Every variable keeps its type; the failure count saturates at its bound, the
\* times at the recovery timeout.
BreakerTypeOK ==
  /\ circuit_state \in [Backends -> CircuitState]
  /\ failure_count \in [Backends -> 0..FailureCap]
  /\ status        \in [Backends -> HealthStatus]
  /\ opened_for    \in [Backends -> 0..RecoveryTimeout]
  /\ place         \in [Requests -> Place]
  /\ target        \in [Requests -> Backends]
  /\ up            \in [Backends -> BOOLEAN]
  /\ quiet_for     \in [Backends -> 0..RecoveryTimeout]
  /\ at_fault      \in SUBSET Backends

(***************************************************************************)
(* A closed circuit has counted fewer than FailureThreshold failures,      *)
(* whatever order outcomes of concurrent requests are recorded in: the     *)
(* count is not reset when the circuit half-opens, and a success of a      *)
(* request sent long ago may zero it while the circuit is open.            *)
(***************************************************************************)
ClosedBelowThreshold ==
  \A b \in Backends :
    circuit_state[b] = "CLOSED" => failure_count[b] < FailureThreshold

(***************************************************************************)
(* An open circuit counts its rest from a failure: the rest is never       *)
(* shorter than the time without failures. (A late failure may leave the   *)
(* rest alone, when a late success has zeroed the count meanwhile.)        *)
(***************************************************************************)
RestCoversQuiet ==
  \A b \in Backends :
    circuit_state[b] = "OPEN" => quiet_for[b] <= opened_for[b]

(***************************************************************************)
(* A request is refused only if a failure of its backend was recorded less *)
(* than RecoveryTimeout seconds ago: a backend that has not failed for     *)
(* that long is never cut off, in whatever order late outcomes arrive.     *)
(***************************************************************************)
RefusalNeedsRecentFailure ==
  [][\A r \in Requests :
       place[r] # "refused" /\ place'[r] = "refused"
         => quiet_for[target'[r]] < RecoveryTimeout]_breakerVars

(***************************************************************************)
(* ProxyManager.h: "OPEN // Failing, reject requests". While a circuit     *)
(* stays open no request joins those already in flight to its backend.     *)
(***************************************************************************)
OpenShedsLoad ==
  [][\A b \in Backends :
       circuit_state[b] = "OPEN" /\ circuit_state'[b] = "OPEN"
         => InFlight(b)' \subseteq InFlight(b)]_breakerVars

\* The breaker keeps the promise of CircuitPolicy.
Policy == INSTANCE CircuitPolicy
  WITH mode <- circuit_state, streak <- failure_count, rest <- opened_for
ImplementsPolicy == Policy!Spec

(***************************************************************************)
(* A backend whose requests stop failing is in the end always served: its  *)
(* circuit closes and stays closed. Failures recorded late only delay it.  *)
(***************************************************************************)
Failing(b) == \E r \in Requests : target[r] = b /\ place[r] = "failed"

RecoveredBackendIsServed ==
  \A b \in Backends : <>[]~Failing(b) => <>[](circuit_state[b] = "CLOSED")

(***************************************************************************)
(* A backend that stays down is cut off again and again, even when a late  *)
(* success has zeroed the count and left the circuit HALF_OPEN below the   *)
(* threshold.                                                              *)
(***************************************************************************)
DeadBackendIsCutOff ==
  \A b \in Backends : <>[]~up[b] => []<>(circuit_state[b] = "OPEN")

(***************************************************************************)
(* ProxyManager.h: "OPEN // Failing, reject requests". A circuit opens     *)
(* only for a backend that has failed a request. It holds when clients use *)
(* the methods makeRequest can send, and not otherwise.                    *)
(***************************************************************************)
OpensOnlyForFailingBackend ==
  \A b \in Backends : circuit_state[b] # "CLOSED" => b \in at_fault
=============================================================================
