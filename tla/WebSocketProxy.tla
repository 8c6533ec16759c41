--------------------------- MODULE WebSocketProxy ---------------------------
(***************************************************************************)
(* WebSocketProxy: a listener of its own, one thread per accepted client,  *)
(* each of which upgrades both sides and then relays bytes between them,   *)
(* and stopListener, which ends and joins them all while they run. The     *)
(* process's descriptor table is part of the state: a number closed by one *)
(* thread is at once handed out to another.                                *)
(*                                                                         *)
(* External: the sockets (a bounded first-in first-out buffer each way on  *)
(* both sides), the clients and backends, and the router that resolves a   *)
(* path. SIGPIPE is ignored, as the HTTP library sees to.                  *)
(*                                                                         *)
(* A definition that nothing uses, just before the one it varies, is a     *)
(* faulty variant: README.md says which property rejects it.               *)
(***************************************************************************)
EXTENDS Integers, Sequences

CONSTANTS
  Clients,             \* each makes one connection
  FDs,                 \* descriptor numbers
  Frames,              \* how many frames each end of a connection sends
  InboxSize,           \* frames a socket holds that the gateway has not read
  OutboxSize,          \* frames a socket holds that the far end has not read
  BackendSpeaksFirst,  \* a backend may send before it has received a frame
  ClientsKeepReading   \* clients read what they are sent (fairness only)

Ends == Clients \X {"client", "backend"}
C(c) == <<c, "client">>
B(c) == <<c, "backend">>

ASSUME ProxyAssumption ==
  /\ FDs \subseteq Nat
  /\ Frames \in [Ends -> Nat]
  /\ InboxSize \in Nat \ {0}
  /\ OutboxSize \in Nat \ {0}
  /\ BackendSpeaksFirst \in BOOLEAN
  /\ ClientsKeepReading \in BOOLEAN

None == -1
Listener == <<"listener">>
Free == <<>>

VARIABLES
  running,            \* the atomic flag running_
  listen_fd,          \* listen_fd_
  main,               \* where the main thread is: start, serve, stopListener
  acceptor,           \* where the listener thread is in acceptLoop
  connection_threads, \* connection_threads_: the clients whose thread is in it
  pc,                 \* pc[c]: where the thread of c is in handleConnection
  fd,                 \* client_fd and backend_fd of each thread
  active_connections, \* active_connections_
  table,              \* the process's descriptor table
  ready,              \* ready[c]: the sockets select found readable
  client,             \* client[c]: how far the client has come
  backend,            \* backend[c]: what the backend has said
  gone,               \* the ends that have closed their side
  stream              \* stream[e]: the frames e sends, on their way

listening == <<running, listen_fd, main, acceptor>>
threads == <<connection_threads, pc, fd, active_connections, ready>>
peers == <<client, backend, gone>>
vars == <<listening, threads, table, peers, stream>>

(***************************************************************************)
(* sent: frames written so far, numbered from 1; inbox: in the gateway's   *)
(* socket; held: in the thread's buf, from total_sent on; outbox: in the   *)
(* far end's socket; got: read by the far end.                             *)
(***************************************************************************)
Empty == [sent |-> 0, inbox |-> <<>>, held |-> <<>>, outbox |-> <<>>, got |-> <<>>]

Stage == {"none", "accepted", "start", "parse", "connect", "upgrade", "select",
          "fromClient", "toBackend", "fromBackend", "toClient", "leave", "done"}

Goto(c, stage) == pc' = [pc EXCEPT ![c] = stage]

\* socket and accept take the lowest free number, and fail when there is none.
IsNext(f) == table[f] = Free /\ \A g \in FDs : table[g] = Free => f <= g
Exhausted == \A f \in FDs : table[f] # Free
IsOpen(socket) == \E f \in FDs : table[f] = socket

Init ==
  /\ running = FALSE
  /\ listen_fd = None
  /\ main = "off"
  /\ acceptor = "none"
  /\ connection_threads = {}
  /\ pc = [c \in Clients |-> "none"]
  /\ fd = [e \in Ends |-> None]
  /\ active_connections = 0
  /\ table = [f \in FDs |-> Free]
  /\ ready = [c \in Clients |-> {}]
  /\ client = [c \in Clients |-> "away"]
  /\ backend = [c \in Clients |-> "none"]
  /\ gone = {}
  /\ stream = [e \in Ends |-> Empty]

-----------------------------------------------------------------------------
\* startListener: bound and listening, the thread of acceptLoop created.
Start ==
  /\ main = "off"
  /\ main' = "serving"
  /\ running' = TRUE
  /\ \E f \in FDs :
       /\ IsNext(f)
       /\ listen_fd' = f
       /\ table' = [table EXCEPT ![f] = Listener]
  /\ acceptor' = "check"
  /\ UNCHANGED <<threads, peers, stream>>

\* startListener: socket, bind or listen fails; main goes on without it.
StartFails ==
  /\ main = "off"
  /\ main' = "serving"
  /\ UNCHANGED <<running, listen_fd, acceptor, threads, table, peers, stream>>

\* stopListener, up to the store to running_.
Stop ==
  /\ main = "serving"
  /\ main' = "unlisten"
  /\ running' = FALSE
  /\ UNCHANGED <<listen_fd, acceptor, threads, table, peers, stream>>

(***************************************************************************)
(* shutdown, close and the assignment of -1. listen_fd_ is read by the     *)
(* listener thread without synchronisation: it may go on with the number   *)
(* closed here, but whatever it reads, accept fails (AcceptFails).         *)
(***************************************************************************)
Unlisten ==
  /\ main = "unlisten"
  /\ main' = "joinListener"
  /\ listen_fd' = None
  /\ table' = [f \in FDs |-> IF f = listen_fd THEN Free ELSE table[f]]
  /\ UNCHANGED <<running, acceptor, threads, peers, stream>>

JoinListenerAtOnce ==
  /\ main = "joinListener"
  /\ main' = "joinConnections"
  /\ UNCHANGED <<running, listen_fd, acceptor, threads, table, peers, stream>>

\* listener_thread_.join(), if it is joinable; then threads_mutex_ is taken.
JoinListener ==
  /\ main = "joinListener"
  /\ acceptor \in {"none", "exited"}
  /\ main' = "joinConnections"
  /\ UNCHANGED <<running, listen_fd, acceptor, threads, table, peers, stream>>

DetachConnections ==
  /\ main = "joinConnections"
  /\ main' = "stopped"
  /\ connection_threads' = {}
  /\ UNCHANGED <<running, listen_fd, acceptor, pc, fd, active_connections, ready,
                 table, peers, stream>>

\* Every thread in the vector joined, and the vector cleared.
JoinConnections ==
  /\ main = "joinConnections"
  /\ \A c \in connection_threads : pc[c] = "done"
  /\ main' = "stopped"
  /\ connection_threads' = {}
  /\ UNCHANGED <<running, listen_fd, acceptor, pc, fd, active_connections, ready,
                 table, peers, stream>>

StopListener == Unlisten \/ JoinListener \/ JoinConnections

-----------------------------------------------------------------------------
CheckRunning ==
  /\ acceptor = "check"
  /\ acceptor' = IF running THEN "accept" ELSE "exited"
  /\ UNCHANGED <<running, listen_fd, main, threads, table, peers, stream>>

Accept(c) ==
  /\ acceptor = "accept"
  /\ listen_fd # None
  /\ client[c] = "waiting"
  /\ \E f \in FDs :
       /\ IsNext(f)
       /\ fd' = [fd EXCEPT ![C(c)] = f]
       /\ table' = [table EXCEPT ![f] = C(c)]
  /\ client' = [client EXCEPT ![c] = "connected"]
  /\ Goto(c, "accepted")
  /\ acceptor' = "spawn"
  /\ UNCHANGED <<running, listen_fd, main, connection_threads, active_connections, ready,
                 backend, gone, stream>>

(***************************************************************************)
(* accept returns an error: the listening socket is shut down, or there is *)
(* no descriptor for a new one, and then the loop spins until there is.    *)
(***************************************************************************)
AcceptFails ==
  /\ acceptor = "accept"
  /\ listen_fd = None \/ Exhausted
  /\ acceptor' = "check"
  /\ UNCHANGED <<running, listen_fd, main, threads, table, peers, stream>>

(***************************************************************************)
(* The new thread joins the vector under threads_mutex_. The clean-up      *)
(* before it removes nothing: a thread that has finished is still          *)
(* joinable, so the vector grows until the proxy stops.                    *)
(***************************************************************************)
Spawn(c) ==
  /\ acceptor = "spawn"
  /\ pc[c] = "accepted"
  /\ main # "joinConnections"
  /\ connection_threads' = connection_threads \cup {c}
  /\ Goto(c, "start")
  /\ acceptor' = "check"
  /\ UNCHANGED <<running, listen_fd, main, fd, active_connections, ready, table, peers, stream>>

AcceptLoop == CheckRunning \/ AcceptFails \/ \E c \in Clients : Accept(c) \/ Spawn(c)
-----------------------------------------------------------------------------
\* What a step of one connection's thread leaves alone beside its own place.
shared == <<listening, connection_threads, table, peers, stream>>
locals == <<fd, active_connections, ready>>

CountedNever == active_connections' = active_connections

\* handleConnection counts itself in.
Counted == active_connections' = active_connections + 1

Enter(c) ==
  /\ pc[c] = "start"
  /\ Counted
  /\ Goto(c, "parse")
  /\ UNCHANGED <<shared, fd, ready>>

\* parseUpgradeRequest found a path and a key, route_resolver_ a backend for it.
ParseUpgradeRequest(c) ==
  /\ pc[c] = "parse"
  /\ client[c] = "asked"
  /\ Goto(c, "connect")
  /\ UNCHANGED <<shared, locals>>

\* connectToBackend, and the upgrade request upgradeBackend sends.
ConnectToBackend(c) ==
  /\ pc[c] = "connect"
  /\ \E f \in FDs :
       /\ IsNext(f)
       /\ fd' = [fd EXCEPT ![B(c)] = f]
       /\ table' = [table EXCEPT ![f] = B(c)]
  /\ backend' = [backend EXCEPT ![c] = "asked"]
  /\ Goto(c, "upgrade")
  /\ UNCHANGED <<listening, connection_threads, active_connections, ready, client, gone,
                 stream>>

(***************************************************************************)
(* The rest of upgradeBackend: what has arrived is received up to the end  *)
(* of the response's head, and frames that came with it are dropped with   *)
(* the local buffers. "101" is looked for anywhere in it, so that another  *)
(* response may pass for an upgrade ("mistaken"). Then handleConnection    *)
(* sends "101 Switching Protocols" to the client.                          *)
(***************************************************************************)
UpgradeBackend(c) ==
  /\ pc[c] = "upgrade"
  /\ backend[c] \in {"switched", "mistaken"}
  /\ stream' = [stream EXCEPT ![B(c)].inbox = <<>>]
  /\ client' = [client EXCEPT ![c] = "switched"]
  /\ Goto(c, "select")
  /\ UNCHANGED <<listening, connection_threads, locals, table, backend, gone>>

(***************************************************************************)
(* The ways out before the relay, with a 400, 404 or 502 to the client: no *)
(* upgrade request within five seconds, or no route for it; no connection  *)
(* to the backend; no "101" from it within five seconds.                   *)
(***************************************************************************)
Refuse(c) ==
  /\ \/ pc[c] \in {"parse", "connect"}
     \/ pc[c] = "upgrade" /\ backend[c] \in {"asked", "refused"}
  /\ client' = [client EXCEPT ![c] = "refused"]
  /\ Goto(c, "leave")
  /\ UNCHANGED <<listening, connection_threads, locals, table, backend, gone, stream>>

-----------------------------------------------------------------------------
KeepsRelaying == TRUE

\* The loop condition of relayFrames.
StillRunning == running

IsReadable(e) == stream[e].inbox # <<>> \/ e \in gone

ReadableEndsWithoutBackend(c) == {e \in {C(c)} : IsReadable(e)}

\* Data, or the end of the stream.
ReadableEnds(c) == {e \in {C(c), B(c)} : IsReadable(e)}

(***************************************************************************)
(* running_ is read; while it is set, select. A select that finds nothing  *)
(* returns after a second to read running_ again: no change of state.      *)
(***************************************************************************)
Select(c) ==
  /\ pc[c] = "select"
  /\ StillRunning
  /\ ReadableEnds(c) # {}
  /\ ready' = [ready EXCEPT ![c] = ReadableEnds(c)]
  /\ Goto(c, IF C(c) \in ReadableEnds(c) THEN "fromClient" ELSE "fromBackend")
  /\ UNCHANGED <<shared, fd, active_connections>>

Source(c) == IF pc[c] \in {"fromClient", "toBackend"} THEN C(c) ELSE B(c)
Target(c) == IF pc[c] \in {"fromClient", "toBackend"} THEN B(c) ELSE C(c)

\* After the client's turn comes the backend's, if select found it readable.
NextTurn(c) ==
  IF Source(c) = C(c) /\ B(c) \in ready[c] THEN "fromBackend" ELSE "select"

\* recv with data: all that has arrived is in buf.
Receive(c) ==
  LET e == Source(c) IN
  /\ pc[c] \in {"fromClient", "fromBackend"}
  /\ stream[e].inbox # <<>>
  /\ stream' = [stream EXCEPT ![e].held = stream[e].inbox, ![e].inbox = <<>>]
  /\ Goto(c, IF e = C(c) THEN "toBackend" ELSE "toClient")
  /\ UNCHANGED <<listening, connection_threads, locals, table, peers>>

\* running_ is cleared, or recv returns 0 or an error.
EndRelay(c) ==
  /\ \/ pc[c] = "select" /\ ~StillRunning
     \/ pc[c] \in {"fromClient", "fromBackend"} /\ stream[Source(c)].inbox = <<>>
  /\ Goto(c, "leave")
  /\ UNCHANGED <<shared, locals>>

UnsentFromTheStart(held) == SubSeq(held, 1, Len(held) - 1)

\* What remains after a send that took one frame.
Unsent(held) == Tail(held)

\* One send: to the far end or, once that has closed, nowhere.
Send(c) ==
  LET e == Source(c)
      s == stream[e]
      t == [s EXCEPT !.held = Unsent(@),
                     !.outbox = IF Target(c) \in gone THEN <<>> ELSE Append(@, Head(s.held))]
  IN
  /\ pc[c] \in {"toBackend", "toClient"}
  /\ Target(c) \in gone \/ Len(s.outbox) < OutboxSize
  /\ stream' = [stream EXCEPT ![e] = t]
  /\ Goto(c, IF t.held = <<>> THEN NextTurn(c) ELSE pc[c])
  /\ UNCHANGED <<listening, connection_threads, locals, table, peers>>

(***************************************************************************)
(* close(backend_fd) and close(client_fd): whatever the two numbers stand  *)
(* for by now.                                                             *)
(***************************************************************************)
Closed(c) ==
  [f \in FDs |-> IF f \in {fd[C(c)], fd[B(c)]} THEN Free ELSE table[f]]

WriteErrorCloses(c) ==
  /\ table' = Closed(c)
  /\ Goto(c, "leave")

\* send failed: relayFrames returns and leaves the closing to its caller.
WriteError(c) ==
  /\ Goto(c, "leave")
  /\ UNCHANGED table

(***************************************************************************)
(* The far end has closed, or is a backend whose buffer has been full for  *)
(* the five seconds of SO_SNDTIMEO. The client's socket has no such limit: *)
(* a send to a client that does not read waits for ever.                   *)
(***************************************************************************)
SendFails(c) ==
  /\ pc[c] \in {"toBackend", "toClient"}
  /\ \/ Target(c) \in gone
     \/ pc[c] = "toBackend" /\ Len(stream[C(c)].outbox) >= OutboxSize
  /\ WriteError(c)
  /\ UNCHANGED <<listening, connection_threads, locals, peers, stream>>

\* What is left of a stream once the gateway's socket and buf are gone.
Abandoned(s) == [s EXCEPT !.inbox = <<>>, !.held = <<>>]

(***************************************************************************)
(* The last lines of handleConnection, on every way out of it. The locals  *)
(* go with it, and whether an end has closed matters no more.              *)
(***************************************************************************)
Leave(c) ==
  /\ pc[c] = "leave"
  /\ table' = Closed(c)
  /\ active_connections' = active_connections - 1
  /\ fd' = [fd EXCEPT ![C(c)] = None, ![B(c)] = None]
  /\ ready' = [ready EXCEPT ![c] = {}]
  /\ stream' = [stream EXCEPT ![C(c)] = Abandoned(@), ![B(c)] = Abandoned(@)]
  /\ gone' = gone \ {C(c), B(c)}
  /\ Goto(c, "done")
  /\ UNCHANGED <<listening, connection_threads, client, backend>>

Relay(c) == Select(c) \/ Receive(c) \/ EndRelay(c) \/ Send(c) \/ SendFails(c)

HandleConnection(c) ==
  \/ Enter(c) \/ ParseUpgradeRequest(c) \/ ConnectToBackend(c) \/ UpgradeBackend(c) \/ Refuse(c)
  \/ Relay(c)
  \/ Leave(c)

-----------------------------------------------------------------------------
\* A client enters the listening socket's backlog.
ClientConnects(c) ==
  /\ client[c] = "away"
  /\ IsOpen(Listener)
  /\ client' = [client EXCEPT ![c] = "waiting"]
  /\ UNCHANGED <<listening, threads, table, backend, gone, stream>>

ClientAsks(c) ==
  /\ client[c] = "connected"
  /\ C(c) \notin gone
  /\ client' = [client EXCEPT ![c] = "asked"]
  /\ UNCHANGED <<listening, threads, table, backend, gone, stream>>

BackendAnswers(c) ==
  /\ backend[c] = "asked"
  /\ B(c) \notin gone
  /\ \E answer \in {"switched", "mistaken", "refused"} :
       backend' = [backend EXCEPT ![c] = answer]
  /\ UNCHANGED <<listening, threads, table, client, gone, stream>>

MaySend(e) ==
  LET c == e[1] IN
  IF e = C(c) THEN client[c] = "switched"
              ELSE backend[c] = "switched" /\ (BackendSpeaksFirst \/ stream[C(c)].got # <<>>)

\* An end writes its next frame.
Writes(e) ==
  /\ IsOpen(e)
  /\ e \notin gone
  /\ MaySend(e)
  /\ stream[e].sent < Frames[e]
  /\ Len(stream[e].inbox) < InboxSize
  /\ stream' = [stream EXCEPT ![e].sent = @ + 1, ![e].inbox = Append(@, stream[e].sent + 1)]
  /\ UNCHANGED <<listening, threads, table, peers>>

FarEnd(e) == IF e = C(e[1]) THEN B(e[1]) ELSE C(e[1])

\* The far end of e reads the next frame from e.
Reads(e) ==
  /\ FarEnd(e) \notin gone
  /\ stream[e].outbox # <<>>
  /\ stream' = [stream EXCEPT ![e].got = Append(@, Head(stream[e].outbox)),
                              ![e].outbox = Tail(@)]
  /\ UNCHANGED <<listening, threads, table, peers>>

\* An end closes; what was sent to it and not read is lost.
Closes(e) ==
  /\ IsOpen(e)
  /\ e \notin gone
  /\ gone' = gone \cup {e}
  /\ stream' = [stream EXCEPT ![FarEnd(e)].outbox = <<>>]
  /\ UNCHANGED <<listening, threads, table, client, backend>>

Peers ==
  \/ \E c \in Clients : ClientConnects(c) \/ ClientAsks(c) \/ BackendAnswers(c)
  \/ \E e \in Ends : Writes(e) \/ Reads(e) \/ Closes(e)

-----------------------------------------------------------------------------
Next ==
  \/ Start \/ StartFails \/ Stop \/ StopListener
  \/ AcceptLoop
  \/ \E c \in Clients : HandleConnection(c)
  \/ Peers

Spec == Init /\ [][Next]_vars

(***************************************************************************)
(* Threads are scheduled; accept fails once the socket is shut down, and   *)
(* every blocking call but a send to the client has a timeout. Backends    *)
(* owe nothing. Whether clients read is a parameter.                       *)
(***************************************************************************)
Fairness ==
  /\ WF_vars(StopListener)
  /\ WF_vars(AcceptLoop)
  /\ \A c \in Clients : WF_vars(HandleConnection(c))
  /\ ClientsKeepReading => \A c \in Clients : WF_vars(Reads(B(c)))

FairSpec == Spec /\ Fairness

-----------------------------------------------------------------------------
Numbered(s) == \A i \in DOMAIN s : s[i] \in Nat \ {0}

\* Every variable keeps its type, the count of connections is never negative, and
\* no socket holds more than its buffers.
TypeOK ==
  /\ running \in BOOLEAN
  /\ listen_fd \in FDs \cup {None}
  /\ main \in {"off", "serving", "unlisten", "joinListener", "joinConnections", "stopped"}
  /\ acceptor \in {"none", "check", "accept", "spawn", "exited"}
  /\ connection_threads \subseteq Clients
  /\ pc \in [Clients -> Stage]
  /\ fd \in [Ends -> FDs \cup {None}]
  /\ active_connections \in Nat
  /\ table \in [FDs -> Ends \cup {Listener, Free}]
  /\ \A c \in Clients : ready[c] \subseteq {C(c), B(c)}
  /\ client \in [Clients -> {"away", "waiting", "connected", "asked", "switched", "refused"}]
  /\ backend \in [Clients -> {"none", "asked", "switched", "mistaken", "refused"}]
  /\ gone \subseteq Ends
  /\ \A e \in Ends :
       /\ stream[e].sent \in 0..Frames[e]
       /\ Len(stream[e].inbox) <= InboxSize /\ Len(stream[e].outbox) <= OutboxSize
       /\ Numbered(stream[e].inbox \o stream[e].held \o stream[e].outbox \o stream[e].got)

(***************************************************************************)
(* A thread that runs holds its own sockets and no other's: no number it   *)
(* will pass to recv, send, select or close has meanwhile been closed and  *)
(* given to another connection, and no socket is open under a number that  *)
(* no thread will close.                                                   *)
(***************************************************************************)
Holds(c, e) ==
  /\ pc[c] \notin {"none", "done"}
  /\ e = C(c) \/ fd[e] # None

DescriptorsAreOwn ==
  \A c \in Clients, e \in Ends :
    e \in {C(c), B(c)} =>
      IF Holds(c, e) THEN {f \in FDs : table[f] = e} = {fd[e]} ELSE ~IsOpen(e)

(***************************************************************************)
(* Once stopListener has returned nothing of the proxy is left: no thread, *)
(* no open socket, no connection counted, whatever the connections were    *)
(* doing when it was called.                                               *)
(***************************************************************************)
NothingOutlivesStop ==
  main = "stopped" =>
    /\ acceptor \in {"none", "exited"}
    /\ \A c \in Clients : pc[c] \in {"none", "done"}
    /\ \A f \in FDs : table[f] = Free
    /\ active_connections = 0

(***************************************************************************)
(* Relayed "bidirectionally between the client and backend" (WebSocketProxy.h): *)
(* what an end has received is the first frames the other sent, in order,  *)
(* none missing, none twice.                                               *)
(***************************************************************************)
RelaysInOrder ==
  \A e \in Ends : stream[e].got = [i \in DOMAIN stream[e].got |-> i]

(***************************************************************************)
(* The whole of what the proxy promises, in the terms of its users: each   *)
(* step of a thread, a peer or stopListener is one of FrameRelay, or none  *)
(* of its concern. So no frame passes that was not written, nothing that   *)
(* was handed over is lost while the end it is for stays, a connection     *)
(* that is over begins no more, and stopListener returns after the last.   *)
(***************************************************************************)
Phase(place) == IF place = "none" THEN "away" ELSE IF place = "done" THEN "over" ELSE "open"

Phases == [c \in Clients |-> Phase(pc[c])]
Written == [e \in Ends |-> stream[e].sent]
Passed == [e \in Ends |-> Len(stream[e].got) + Len(stream[e].outbox)]
Received == [e \in Ends |-> stream[e].got]

Promise == INSTANCE FrameRelay WITH
  stopped <- (main = "stopped"),
  phase <- Phases, written <- Written, passed <- Passed, received <- Received

ImplementsRelay == Promise!Spec

(***************************************************************************)
(* stopListener returns, provided clients read what they are sent: no join *)
(* waits for a thread that waits for something that never comes.           *)
(***************************************************************************)
StopReturns == main = "unlisten" ~> main = "stopped"

(***************************************************************************)
(* While a connection lasts, every frame that has reached the gateway is   *)
(* handed to the other side.                                               *)
(***************************************************************************)
Over(c) == pc[c] = "done"
FramesGoThrough ==
  \A e \in Ends : \A n \in 1..Frames[e] :
    stream[e].sent >= n
      ~> \/ Len(stream[e].got) + Len(stream[e].outbox) >= n
         \/ Over(e[1])
=============================================================================
