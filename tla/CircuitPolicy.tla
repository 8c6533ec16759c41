--------------------------- MODULE CircuitPolicy ---------------------------
(***************************************************************************)
(* What the circuit breaker of a backend promises to the callers of        *)
(* ProxyManager (README.md: "Circuit breaker with configurable failure     *)
(* threshold and recovery timeout"), without requests, threads or locks:   *)
(*   - it opens only on the FailureThreshold-th failure since the last     *)
(*     success, and starts a full rest when it does;                       *)
(*   - an open circuit never closes directly: it is first half-opened,     *)
(*     and only after it has rested for RecoveryTimeout seconds;           *)
(*   - it closes only from HALF_OPEN, on a success, with no failure        *)
(*     counted.                                                            *)
(* CircuitBreaker implements this specification.                           *)
(***************************************************************************)
EXTENDS Naturals

CONSTANTS
  Backends,          \* backend URLs
  FailureThreshold,  \* failures before the circuit opens
  RecoveryTimeout,   \* seconds an open circuit rests
  FailureCap         \* where the count of failures saturates

VARIABLES
  mode,      \* mode[b]: CLOSED, OPEN or HALF_OPEN
  streak,    \* streak[b]: failures since the last success
  rest       \* rest[b]: seconds since the circuit last opened, saturating

policyVars == <<mode, streak, rest>>

Capped(n, cap) == IF n < cap THEN n + 1 ELSE cap

Init ==
  /\ mode   = [b \in Backends |-> "CLOSED"]
  /\ streak = [b \in Backends |-> 0]
  /\ rest   = [b \in Backends |-> 0]

Succeed(b) ==
  /\ streak' = [streak EXCEPT ![b] = 0]
  /\ mode'   = [mode EXCEPT ![b] = IF @ = "HALF_OPEN" THEN "CLOSED" ELSE @]
  /\ UNCHANGED rest

\* A failure that leaves the circuit as it is.
Endure(b) ==
  /\ Capped(streak[b], FailureCap) < FailureThreshold
  /\ streak' = [streak EXCEPT ![b] = Capped(@, FailureCap)]
  /\ UNCHANGED <<mode, rest>>

\* A failure that opens the circuit, or makes an open one rest anew.
Trip(b) ==
  /\ Capped(streak[b], FailureCap) >= FailureThreshold
  /\ streak' = [streak EXCEPT ![b] = Capped(@, FailureCap)]
  /\ mode'   = [mode EXCEPT ![b] = "OPEN"]
  /\ rest'   = [rest EXCEPT ![b] = 0]

Probe(b) ==
  /\ mode[b] = "OPEN"
  /\ rest[b] = RecoveryTimeout
  /\ mode' = [mode EXCEPT ![b] = "HALF_OPEN"]
  /\ UNCHANGED <<streak, rest>>

Second ==
  /\ rest' = [b \in Backends |-> Capped(rest[b], RecoveryTimeout)]
  /\ UNCHANGED <<mode, streak>>

Next ==
  \/ Second
  \/ \E b \in Backends : Succeed(b) \/ Endure(b) \/ Trip(b) \/ Probe(b)

Spec == Init /\ [][Next]_policyVars
=============================================================================
