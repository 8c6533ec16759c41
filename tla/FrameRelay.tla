----------------------------- MODULE FrameRelay -----------------------------
(***************************************************************************)
(* What WebSocketProxy promises to the two sides of its connections        *)
(* (it "relays raw WebSocket frames bidirectionally between the client and *)
(* backend", WebSocketProxy.h), without threads, sockets or descriptors:   *)
(*   - frames pass from one end to the other only while their connection   *)
(*     is open, in the order in which they were written, each one once;    *)
(*   - what has passed may be lost only with the end it was meant for;     *)
(*   - the proxy has stopped once every connection is over, and then       *)
(*     nothing begins.                                                     *)
(* WebSocketProxy implements this specification.                           *)
(***************************************************************************)
EXTENDS Naturals, Sequences

CONSTANTS
  Clients,  \* each makes one connection
  Ends      \* <<c, "client">> and <<c, "backend">> of each client c

VARIABLES
  stopped,   \* whether stopListener has returned
  phase,     \* phase[c]: away, open or over
  written,   \* written[e]: how many frames e has sent, numbered from 1
  passed,    \* passed[e]: how many of them are with the far end
  received   \* received[e]: those the far end has read

relayVars == <<stopped, phase, written, passed, received>>

Init ==
  /\ stopped = FALSE
  /\ phase = [c \in Clients |-> "away"]
  /\ written = [e \in Ends |-> 0]
  /\ passed = [e \in Ends |-> 0]
  /\ received = [e \in Ends |-> <<>>]

Open(c) ==
  /\ ~stopped
  /\ phase[c] = "away"
  /\ phase' = [phase EXCEPT ![c] = "open"]
  /\ UNCHANGED <<stopped, written, passed, received>>

\* The frames that have not passed are dropped.
End(c) ==
  /\ phase[c] = "open"
  /\ phase' = [phase EXCEPT ![c] = "over"]
  /\ UNCHANGED <<stopped, written, passed, received>>

Stop ==
  /\ \A c \in Clients : phase[c] # "open"
  /\ stopped' = TRUE
  /\ UNCHANGED <<phase, written, passed, received>>

Write(e) ==
  /\ phase[e[1]] = "open"
  /\ written' = [written EXCEPT ![e] = @ + 1]
  /\ UNCHANGED <<stopped, phase, passed, received>>

Pass(e) ==
  /\ phase[e[1]] = "open"
  /\ passed[e] < written[e]
  /\ passed' = [passed EXCEPT ![e] = @ + 1]
  /\ UNCHANGED <<stopped, phase, written, received>>

Receive(e) ==
  /\ Len(received[e]) < passed[e]
  /\ received' = [received EXCEPT ![e] = Append(@, Len(@) + 1)]
  /\ UNCHANGED <<stopped, phase, written, passed>>

\* The far end of e closes; what it has not read is lost.
Lose(e) ==
  /\ passed' = [passed EXCEPT ![e] = Len(received[e])]
  /\ UNCHANGED <<stopped, phase, written, received>>

Next ==
  \/ Stop
  \/ \E c \in Clients : Open(c) \/ End(c)
  \/ \E e \in Ends : Write(e) \/ Pass(e) \/ Receive(e) \/ Lose(e)

Spec == Init /\ [][Next]_relayVars
=============================================================================
