-------------------------- MODULE MCWebSocketProxy --------------------------
(* TLC instances of WebSocketProxy. *)
EXTENDS WebSocketProxy

CONSTANTS c1, c2

\* c1 talks, c2 only connects and leaves.
OneTalks ==
  [e \in Ends |-> IF e = <<c1, "client">> THEN 2 ELSE IF e = <<c1, "backend">> THEN 1 ELSE 0]

AllTalk == [e \in Ends |-> 2]
=============================================================================
