---------------------------- MODULE ProxyProofs ----------------------------
(***************************************************************************)
(* What holds of the gateway's two ways to a backend: of WebSocketProxy,   *)
(* for every number of clients, descriptors and frames and every buffer    *)
(* size; and of ProxyManager's circuit breaker, for every number of        *)
(* threads and backends, every threshold and every recovery timeout.       *)
(*                                                                         *)
(* The two share no state, and no name but those of the standard modules.  *)
(***************************************************************************)
EXTENDS WebSocketProxy, CircuitBreaker, FiniteSetTheorems, TLAPS

-----------------------------------------------------------------------------
(***************************************************************************)
(* The ends of a connection, the frames of a stream, and what each action  *)
(* does to the stream it is about.                                         *)
(***************************************************************************)
\* The two ends of each connection are told apart, and from what else a
\* descriptor can stand for.
LEMMA EndFacts ==
  /\ \A c \in Clients : C(c) \in Ends /\ B(c) \in Ends /\ C(c)[1] = c /\ B(c)[1] = c
  /\ \A c, d : C(c) # B(d)
  /\ \A c, d : (C(c) = C(d) => c = d) /\ (B(c) = B(d) => c = d)
  /\ \A c \in Clients : FarEnd(C(c)) = B(c) /\ FarEnd(B(c)) = C(c)
  /\ \A e \in Ends : e[1] \in Clients /\ (e = C(e[1]) \/ e = B(e[1])) /\ FarEnd(e) \in Ends
<1>1. \A c \in Clients : C(c) \in Ends /\ B(c) \in Ends /\ C(c)[1] = c /\ B(c)[1] = c
  BY DEF C, B, Ends
<1>2. /\ \A c, d : C(c) # B(d)
      /\ \A c, d : (C(c) = C(d) => c = d) /\ (B(c) = B(d) => c = d)
  BY DEF C, B
<1>3. \A e \in Ends : e[1] \in Clients /\ (e = C(e[1]) \/ e = B(e[1]))
  BY DEF C, B, Ends
<1> QED
  BY <1>1, <1>2, <1>3 DEF FarEnd

\* No end of a connection is mistaken for the listening socket or for nothing.
LEMMA EndsAreSockets == Listener # Free /\ Listener \notin Ends /\ Free \notin Ends
<1>1. Len(Listener) = 1 /\ Len(Free) = 0
  BY DEF Listener, Free
<1>2. \A e \in Ends : e = <<e[1], e[2]>>
  BY DEF Ends
<1>3. \A e \in Ends : Len(e) = 2
  BY <1>2
<1> QED
  BY <1>1, <1>3

Frame == Nat \ {0}
Stream == [sent : Nat, inbox : Seq(Frame), held : Seq(Frame), outbox : Seq(Frame),
           got : Seq(Frame)]

\* The frames of a stream are numbered from 1.
LEMMA StreamIsNumbered ==
  ASSUME NEW s \in Stream
  PROVE  Numbered(s.inbox \o s.held \o s.outbox \o s.got)
<1> DEFINE q == s.inbox \o s.held \o s.outbox \o s.got
<1>1. /\ s.inbox \in Seq(Frame) /\ s.held \in Seq(Frame)
      /\ s.outbox \in Seq(Frame) /\ s.got \in Seq(Frame)
  BY DEF Stream
<1>2. q \in Seq(Frame)
  BY <1>1
<1>3. \A i \in DOMAIN q : q[i] \in Frame
  <2> HIDE DEF q, Frame
  <2> QED
    BY <1>2
<1> QED
  BY <1>3 DEF Numbered, Frame

\* The updates the actions make keep a stream a stream.
LEMMA StreamUpdates ==
  ASSUME NEW s \in Stream, NEW n \in Nat, NEW p \in Seq(Frame), NEW q \in Seq(Frame)
  PROVE  /\ [s EXCEPT !.inbox = p] \in Stream
         /\ [s EXCEPT !.outbox = p] \in Stream
         /\ [s EXCEPT !.held = p, !.inbox = q] \in Stream
         /\ [s EXCEPT !.inbox = p, !.held = q] \in Stream
         /\ [s EXCEPT !.held = p, !.outbox = q] \in Stream
         /\ [s EXCEPT !.got = p, !.outbox = q] \in Stream
         /\ [s EXCEPT !.sent = n, !.inbox = p] \in Stream
BY DEF Stream

\* Sequences of frames, shortened and lengthened by one.
LEMMA FrameSequences ==
  /\ <<>> \in Seq(Frame) /\ Len(<<>>) = 0
  /\ \A s \in Seq(Frame) :
       /\ Len(s) \in Nat
       /\ s # <<>> => Head(s) \in Frame /\ Tail(s) \in Seq(Frame) /\ Len(Tail(s)) = Len(s) - 1
       /\ \A m \in Frame : Append(s, m) \in Seq(Frame) /\ Len(Append(s, m)) = Len(s) + 1
OBVIOUS

\* The fields of a stream have their types.
LEMMA StreamFields ==
  ASSUME NEW s \in Stream
  PROVE  /\ s.sent \in Nat
         /\ s.inbox \in Seq(Frame) /\ s.held \in Seq(Frame)
         /\ s.outbox \in Seq(Frame) /\ s.got \in Seq(Frame)
BY DEF Stream

Streams == stream \in [Ends -> Stream]

\* What a step that changes only the stream of e leaves.
OnlyStreamOf(e) == Streams' /\ \A d \in Ends : d # e => stream'[d] = stream[d]

Replaces(e, t) == stream' = [stream EXCEPT ![e] = t]

\* A stream is replaced as a whole.
LEMMA StreamReplaced ==
  ASSUME Streams, NEW e \in Ends, NEW t \in Stream, Replaces(e, t)
  PROVE  OnlyStreamOf(e) /\ stream'[e] = t
BY DEF Streams, OnlyStreamOf, Replaces

\* upgradeBackend empties the backend's socket.
LEMMA UpgradeBackendStream ==
  ASSUME Streams, NEW c \in Clients, UpgradeBackend(c)
  PROVE  LET s == stream[B(c)]
             t == stream'[B(c)]
         IN  /\ OnlyStreamOf(B(c))
             /\ t.sent = s.sent /\ t.inbox = <<>> /\ t.held = s.held
             /\ t.outbox = s.outbox /\ t.got = s.got
<1> DEFINE t == [stream[B(c)] EXCEPT !.inbox = <<>>]
<1>1. B(c) \in Ends /\ stream[B(c)] \in Stream
  BY EndFacts DEF Streams
<1>2. Replaces(B(c), t)
  BY DEF UpgradeBackend, Replaces
<1>3. t \in Stream
  BY <1>1, FrameSequences, StreamUpdates
<1>4. OnlyStreamOf(B(c)) /\ stream'[B(c)] = t
  <2> HIDE DEF t
  <2> QED
    BY <1>1, <1>2, <1>3, StreamReplaced
<1> QED
  BY <1>1, <1>4 DEF Stream

\* recv moves what has arrived into buf.
LEMMA ReceiveStream ==
  ASSUME Streams, NEW c \in Clients, Receive(c)
  PROVE  LET s == stream[Source(c)]
             t == stream'[Source(c)]
         IN  /\ Source(c) \in Ends
             /\ OnlyStreamOf(Source(c))
             /\ t.sent = s.sent /\ t.inbox = <<>> /\ t.held = s.inbox
             /\ t.outbox = s.outbox /\ t.got = s.got
<1> DEFINE e == Source(c)
           t == [stream[e] EXCEPT !.held = stream[e].inbox, !.inbox = <<>>]
<1>1. e \in Ends
  BY EndFacts DEF Source
<1>2. stream[e] \in Stream
  BY <1>1 DEF Streams
<1>3. Replaces(e, t)
  BY DEF Receive, Replaces
<1>4. t \in Stream
  BY <1>2, FrameSequences, StreamUpdates, StreamFields
<1> HIDE DEF e
<1>5. OnlyStreamOf(e) /\ stream'[e] = t
  <2> HIDE DEF t
  <2> QED
    BY <1>1, <1>3, <1>4, StreamReplaced
<1>6. t.sent = stream[e].sent /\ t.inbox = <<>> /\ t.held = stream[e].inbox
      /\ t.outbox = stream[e].outbox /\ t.got = stream[e].got
  BY <1>2 DEF Stream
<1> QED
  BY <1>1, <1>5, <1>6 DEF e

\* A send hands on the first frame held, unless the far end has closed.
LEMMA SendStream ==
  ASSUME Streams, NEW c \in Clients, Send(c), stream[Source(c)].held # <<>>
  PROVE  LET s == stream[Source(c)]
             t == stream'[Source(c)]
         IN  /\ Source(c) \in Ends
             /\ OnlyStreamOf(Source(c))
             /\ t.sent = s.sent /\ t.inbox = s.inbox /\ t.held = Tail(s.held)
             /\ Target(c) \in gone => t.outbox = <<>>
             /\ Target(c) \notin gone => t.outbox = Append(s.outbox, Head(s.held))
             /\ t.got = s.got
<1> DEFINE e == Source(c)
           o == IF Target(c) \in gone THEN <<>> ELSE Append(stream[e].outbox, Head(stream[e].held))
           t == [stream[e] EXCEPT !.held = Tail(stream[e].held), !.outbox = o]
<1>1. e \in Ends
  BY EndFacts DEF Source
<1>2. stream[e] \in Stream
  BY <1>1 DEF Streams
<1>3. Replaces(e, t)
  BY DEF Send, Replaces, Unsent
<1>4. o \in Seq(Frame) /\ Tail(stream[e].held) \in Seq(Frame)
  BY <1>2, FrameSequences, StreamFields
<1>5. /\ Target(c) \in gone => o = <<>>
      /\ Target(c) \notin gone => o = Append(stream[e].outbox, Head(stream[e].held))
  OBVIOUS
<1> HIDE DEF e, o
<1>6. t \in Stream
  BY <1>2, <1>4, StreamUpdates
<1>7. OnlyStreamOf(e) /\ stream'[e] = t
  <2> HIDE DEF t
  <2> QED
    BY <1>1, <1>3, <1>6, StreamReplaced
<1>8. t.sent = stream[e].sent /\ t.inbox = stream[e].inbox /\ t.held = Tail(stream[e].held)
      /\ t.outbox = o /\ t.got = stream[e].got
  BY <1>2 DEF Stream
<1> QED
  BY <1>1, <1>5, <1>7, <1>8 DEF e

\* An end that writes adds its next number to the gateway's socket.
LEMMA WritesStream ==
  ASSUME Streams, NEW e \in Ends, Writes(e)
  PROVE  LET s == stream[e]
             t == stream'[e]
         IN  /\ OnlyStreamOf(e)
             /\ t.sent = s.sent + 1 /\ t.inbox = Append(s.inbox, s.sent + 1)
             /\ t.held = s.held /\ t.outbox = s.outbox /\ t.got = s.got
<1> DEFINE n == stream[e].sent + 1
           q == Append(stream[e].inbox, n)
           t == [stream[e] EXCEPT !.sent = n, !.inbox = q]
<1>1. stream[e] \in Stream
  BY DEF Streams
<1>2. Replaces(e, t)
  BY DEF Writes, Replaces
<1>3. n \in Frame /\ n \in Nat
  BY <1>1, StreamFields DEF Frame
<1>4. q \in Seq(Frame)
  BY <1>1, <1>3, FrameSequences, StreamFields
<1>5. n = stream[e].sent + 1 /\ q = Append(stream[e].inbox, stream[e].sent + 1)
  OBVIOUS
<1> HIDE DEF n, q
<1>6. t \in Stream
  BY <1>1, <1>3, <1>4, StreamUpdates
<1>7. OnlyStreamOf(e) /\ stream'[e] = t
  <2> HIDE DEF t
  <2> QED
    BY <1>2, <1>6, StreamReplaced
<1>8. t.sent = n /\ t.inbox = q /\ t.held = stream[e].held
      /\ t.outbox = stream[e].outbox /\ t.got = stream[e].got
  BY <1>1 DEF Stream
<1> QED
  BY <1>5, <1>7, <1>8

\* The far end takes the first frame of its socket.
LEMMA ReadsStream ==
  ASSUME Streams, NEW e \in Ends, Reads(e)
  PROVE  LET s == stream[e]
             t == stream'[e]
         IN  /\ OnlyStreamOf(e)
             /\ s.outbox # <<>>
             /\ t.sent = s.sent /\ t.inbox = s.inbox /\ t.held = s.held
             /\ t.outbox = Tail(s.outbox) /\ t.got = Append(s.got, Head(s.outbox))
<1> DEFINE p == Append(stream[e].got, Head(stream[e].outbox))
           q == Tail(stream[e].outbox)
           t == [stream[e] EXCEPT !.got = p, !.outbox = q]
<1>1. stream[e] \in Stream /\ stream[e].outbox # <<>>
  BY DEF Streams, Reads
<1>2. Replaces(e, t)
  BY DEF Reads, Replaces
<1>3. p \in Seq(Frame) /\ q \in Seq(Frame)
  BY <1>1, FrameSequences, StreamFields
<1>4. p = Append(stream[e].got, Head(stream[e].outbox)) /\ q = Tail(stream[e].outbox)
  OBVIOUS
<1> HIDE DEF p, q
<1>5. t \in Stream
  BY <1>1, <1>3, StreamUpdates
<1>6. OnlyStreamOf(e) /\ stream'[e] = t
  <2> HIDE DEF t
  <2> QED
    BY <1>2, <1>5, StreamReplaced
<1>7. t.sent = stream[e].sent /\ t.inbox = stream[e].inbox /\ t.held = stream[e].held
      /\ t.outbox = q /\ t.got = p
  BY <1>1 DEF Stream
<1> QED
  BY <1>1, <1>4, <1>6, <1>7

\* What was sent to an end that closes is lost.
LEMMA ClosesStream ==
  ASSUME Streams, NEW e \in Ends, Closes(e)
  PROVE  LET s == stream[FarEnd(e)]
             t == stream'[FarEnd(e)]
         IN  /\ FarEnd(e) \in Ends
             /\ OnlyStreamOf(FarEnd(e))
             /\ t.sent = s.sent /\ t.inbox = s.inbox /\ t.held = s.held
             /\ t.outbox = <<>> /\ t.got = s.got
<1> DEFINE g == FarEnd(e)
           t == [stream[g] EXCEPT !.outbox = <<>>]
<1>1. g \in Ends
  BY EndFacts
<1>2. stream[g] \in Stream
  BY <1>1 DEF Streams
<1>3. Replaces(g, t)
  BY DEF Closes, Replaces
<1> HIDE DEF g
<1>4. t \in Stream
  BY <1>2, FrameSequences, StreamUpdates
<1>5. OnlyStreamOf(g) /\ stream'[g] = t
  <2> HIDE DEF t
  <2> QED
    BY <1>1, <1>3, <1>4, StreamReplaced
<1>6. t.sent = stream[g].sent /\ t.inbox = stream[g].inbox /\ t.held = stream[g].held
      /\ t.outbox = <<>> /\ t.got = stream[g].got
  BY <1>2 DEF Stream
<1> QED
  BY <1>1, <1>5, <1>6 DEF g

\* What is left of a stream when its connection ends.
LEMMA AbandonedStream ==
  ASSUME NEW s \in Stream
  PROVE  LET t == Abandoned(s)
         IN  /\ t \in Stream
             /\ t.sent = s.sent /\ t.inbox = <<>> /\ t.held = <<>>
             /\ t.outbox = s.outbox /\ t.got = s.got
<1>1. [s EXCEPT !.inbox = <<>>, !.held = <<>>] \in Stream
  BY FrameSequences, StreamUpdates
<1>2. LET t == [s EXCEPT !.inbox = <<>>, !.held = <<>>]
      IN  /\ t.sent = s.sent /\ t.inbox = <<>> /\ t.held = <<>>
          /\ t.outbox = s.outbox /\ t.got = s.got
  BY DEF Stream
<1> QED
  BY <1>1, <1>2 DEF Abandoned

\* Both streams of a connection are abandoned when its thread leaves.
LEMMA LeaveStreams ==
  ASSUME Streams, NEW c \in Clients, Leave(c)
  PROVE  /\ Streams'
         /\ \A e \in Ends : stream'[e] = IF e \in {C(c), B(c)} THEN Abandoned(stream[e])
                                                              ELSE stream[e]
<1>1. C(c) \in Ends /\ B(c) \in Ends /\ C(c) # B(c)
  BY EndFacts
<1>2. \A e \in Ends : stream[e] \in Stream /\ Abandoned(stream[e]) \in Stream
  BY AbandonedStream DEF Streams
<1> QED
  BY <1>1, <1>2 DEF Leave, Streams

\* Every other step leaves the streams alone.
LEMMA OtherStreams ==
  ASSUME Streams, [Next]_vars,
         \A c \in Clients : ~(UpgradeBackend(c) \/ Receive(c) \/ Send(c) \/ Leave(c)),
         \A e \in Ends : ~(Writes(e) \/ Reads(e) \/ Closes(e))
  PROVE  stream' = stream
BY DEF Next, Start, StartFails, Stop, StopListener, Unlisten, JoinListener, JoinConnections,
       AcceptLoop, CheckRunning, Accept, AcceptFails, Spawn, HandleConnection, Enter,
       ParseUpgradeRequest, ConnectToBackend, Refuse, Relay, Select, EndRelay, SendFails,
       Peers, ClientConnects, ClientAsks, BackendAnswers, vars, shared, peers
-----------------------------------------------------------------------------
Inside == {c \in Clients : pc[c] \notin {"none", "accepted", "start", "done"}}
Count ==
  /\ IsFiniteSet(Inside)
  /\ active_connections = Cardinality(Inside)

Arrived == \A c \in Clients : client[c] \in {"away", "waiting"} <=> pc[c] = "none"

Before == {"none", "accepted", "start", "parse", "connect", "upgrade"}
BuffersOf(c) ==
  /\ pc[c] \in Before => client[c] # "switched" /\ stream[C(c)] = Empty
  /\ pc[c] \in Before /\ ~BackendSpeaksFirst => stream[B(c)] = Empty
  /\ pc[c] = "toBackend" => stream[C(c)].held # <<>>
  /\ pc[c] = "toClient" => stream[B(c)].held # <<>>
  /\ pc[c] \notin {"toBackend", "leave"} => stream[C(c)].held = <<>>
  /\ pc[c] \notin {"toClient", "leave"} => stream[B(c)].held = <<>>
Buffers == \A c \in Clients : BuffersOf(c)

Sizes ==
  \A e \in Ends :
    /\ stream[e].sent \in 0..Frames[e]
    /\ Len(stream[e].inbox) <= InboxSize /\ Len(stream[e].outbox) <= OutboxSize
    /\ Numbered(stream[e].inbox \o stream[e].held \o stream[e].outbox \o stream[e].got)

Typed ==
  /\ TypeOK
  /\ Streams
  /\ ready \in [Clients -> SUBSET Ends]
  /\ Count
  /\ Arrived
  /\ Buffers

\* A thread sends only what it holds.
LEMMA SendsWhatItHolds ==
  ASSUME Buffers, NEW c \in Clients, Send(c)
  PROVE  stream[Source(c)].held # <<>>
BY DEF Send, Source, Buffers, BuffersOf

LEMMA StreamsStaySized ==
  ASSUME ProxyAssumption, Typed, [Next]_vars
  PROVE  Streams' /\ Sizes'
<1> DEFINE Sized(e, s) ==
             /\ s.sent \in 0..Frames[e]
             /\ Len(s.inbox) <= InboxSize
             /\ Len(s.outbox) <= OutboxSize
           Fits == \A e \in Ends : Sized(e, stream[e])
<1>1. Streams /\ Fits /\ Buffers
  BY DEF Typed, TypeOK
<1>2. \A e \in Ends :
        /\ stream[e] \in Stream /\ stream[e].sent \in Nat
        /\ stream[e].inbox \in Seq(Frame) /\ stream[e].outbox \in Seq(Frame)
        /\ Frames[e] \in Nat /\ InboxSize \in Nat /\ OutboxSize \in Nat
  BY <1>1, StreamFields, ProxyAssumption DEF Streams
<1>3. ASSUME NEW e \in Ends, OnlyStreamOf(e), Sized(e, stream'[e])
      PROVE  Streams' /\ Fits'
  BY <1>1, <1>3 DEF OnlyStreamOf
<1> HIDE DEF Fits
<1>4. ASSUME NEW c \in Clients, UpgradeBackend(c) PROVE Streams' /\ Fits'
  <2>1. B(c) \in Ends
    BY EndFacts
  <2>2. Sized(B(c), stream'[B(c)])
    BY <1>1, <1>2, <1>4, <2>1, UpgradeBackendStream, FrameSequences DEF Fits
  <2> QED
    BY <1>1, <1>3, <1>4, <2>1, <2>2, UpgradeBackendStream
<1>5. ASSUME NEW c \in Clients, Receive(c) PROVE Streams' /\ Fits'
  <2>1. Source(c) \in Ends
    BY <1>1, <1>5, ReceiveStream
  <2>2. Sized(Source(c), stream'[Source(c)])
    BY <1>1, <1>2, <1>5, <2>1, ReceiveStream, FrameSequences DEF Fits
  <2> QED
    BY <1>1, <1>3, <1>5, <2>1, <2>2, ReceiveStream
<1>6. ASSUME NEW c \in Clients, Send(c) PROVE Streams' /\ Fits'
  <2>1. stream[Source(c)].held # <<>>
    BY <1>1, <1>6, SendsWhatItHolds
  <2>2. Source(c) \in Ends
    BY <1>1, <1>6, <2>1, SendStream
  <2>3. /\ stream'[Source(c)].sent = stream[Source(c)].sent
        /\ stream'[Source(c)].inbox = stream[Source(c)].inbox
    BY <1>1, <1>6, <2>1, SendStream
  <2>4. Len(stream'[Source(c)].outbox) <= OutboxSize
    <3>1. CASE Target(c) \in gone
      BY <1>1, <1>2, <1>6, <2>1, <2>2, <3>1, SendStream, FrameSequences
    <3>2. CASE Target(c) \notin gone
      <4>1. Len(stream[Source(c)].outbox) < OutboxSize
        BY <1>6, <3>2 DEF Send
      <4>2. Head(stream[Source(c)].held) \in Frame
        BY <1>2, <2>1, <2>2, FrameSequences, StreamFields
      <4>3. stream'[Source(c)].outbox
              = Append(stream[Source(c)].outbox, Head(stream[Source(c)].held))
        BY <1>1, <1>6, <2>1, <3>2, SendStream
      <4> QED
        BY <1>2, <2>2, <4>1, <4>2, <4>3, FrameSequences
    <3> QED
      BY <3>1, <3>2
  <2>5. Sized(Source(c), stream'[Source(c)])
    BY <1>1, <2>2, <2>3, <2>4 DEF Fits
  <2> QED
    BY <1>1, <1>3, <1>6, <2>1, <2>2, <2>5, SendStream
<1>7. ASSUME NEW c \in Clients, Leave(c) PROVE Streams' /\ Fits'
  <2>1. \A e \in Ends : stream'[e] \in {stream[e], Abandoned(stream[e])}
    BY <1>1, <1>7, LeaveStreams
  <2>2. \A e \in Ends : Sized(e, stream'[e])
    BY <1>1, <1>2, <2>1, AbandonedStream, FrameSequences DEF Fits
  <2> QED
    BY <1>1, <1>7, <2>2, LeaveStreams DEF Fits
<1>8. ASSUME NEW e \in Ends, Writes(e) PROVE Streams' /\ Fits'
  <2>1. stream[e].sent + 1 \in Frame /\ stream[e].sent < Frames[e]
        /\ Len(stream[e].inbox) < InboxSize
    BY <1>2, <1>8 DEF Frame, Writes
  <2>2. Len(stream'[e].inbox) <= InboxSize
    BY <1>1, <1>2, <1>8, <2>1, WritesStream, FrameSequences
  <2>3. Sized(e, stream'[e])
    BY <1>1, <1>2, <1>8, <2>1, <2>2, WritesStream DEF Fits
  <2> QED
    BY <1>1, <1>3, <1>8, <2>3, WritesStream
<1>9. ASSUME NEW e \in Ends, Reads(e) PROVE Streams' /\ Fits'
  <2>1. Len(stream'[e].outbox) <= OutboxSize
    <3>1. stream'[e].outbox = Tail(stream[e].outbox) /\ stream[e].outbox # <<>>
      BY <1>1, <1>9, ReadsStream
    <3>2. Len(stream'[e].outbox) = Len(stream[e].outbox) - 1 /\ Len(stream[e].outbox) \in Nat
      BY <1>2, <3>1, FrameSequences
    <3> QED
      BY <1>1, <1>2, <3>2 DEF Fits
  <2>2. Sized(e, stream'[e])
    BY <1>1, <1>2, <1>9, <2>1, ReadsStream DEF Fits
  <2> QED
    BY <1>1, <1>3, <1>9, <2>2, ReadsStream
<1>10. ASSUME NEW e \in Ends, Closes(e) PROVE Streams' /\ Fits'
  <2>1. FarEnd(e) \in Ends
    BY EndFacts
  <2>2. Sized(FarEnd(e), stream'[FarEnd(e)])
    BY <1>1, <1>2, <1>10, <2>1, ClosesStream, FrameSequences DEF Fits
  <2> QED
    BY <1>1, <1>3, <1>10, <2>1, <2>2, ClosesStream
<1>11. ASSUME stream' = stream PROVE Streams' /\ Fits'
  <2>1. Fits'
    BY <1>1, <1>11 DEF Fits
  <2> QED
    BY <1>1, <1>11, <2>1 DEF Streams
<1>12. Streams' /\ Fits'
  <2>1. CASE \E c \in Clients : UpgradeBackend(c) \/ Receive(c) \/ Send(c) \/ Leave(c)
    BY <2>1, <1>4, <1>5, <1>6, <1>7
  <2>2. CASE \E e \in Ends : Writes(e) \/ Reads(e) \/ Closes(e)
    BY <2>2, <1>8, <1>9, <1>10
  <2> QED
    BY <2>1, <2>2, <1>1, <1>11, OtherStreams
<1>13. \A e \in Ends : stream'[e] \in Stream
  BY <1>12 DEF Streams
<1> QED
  BY <1>12, <1>13, StreamIsNumbered DEF Fits, Sizes

\* A thread that stays on the same side of its two counts leaves Inside alone.
LEMMA InsideKept ==
  ASSUME pc \in [Clients -> Stage], NEW c \in Clients, NEW stage \in Stage, Goto(c, stage),
         c \in Inside <=> stage \notin {"none", "accepted", "start", "done"}
  PROVE  Inside' = Inside
BY DEF Inside, Goto

\* active_connections_ counts the threads inside handleConnection.
LEMMA CountKept ==
  ASSUME Typed, [Next]_vars
  PROVE  Count' /\ active_connections' \in Nat
<1>1. pc \in [Clients -> Stage] /\ Count /\ Arrived
  BY DEF Typed, TypeOK
<1>2. Count' => active_connections' \in Nat
  BY FS_CardinalityType DEF Count
<1>3. ASSUME Inside' = Inside, active_connections' = active_connections PROVE Count'
  BY <1>1, <1>3 DEF Count
<1>4. ASSUME NEW c \in Clients, Enter(c) PROVE Count'
  <2>1. Inside' = Inside \cup {c} /\ c \notin Inside
    BY <1>1, <1>4 DEF Enter, Goto, Inside, Stage
  <2>2. active_connections' = active_connections + 1
    BY <1>4 DEF Enter, Counted
  <2> HIDE DEF Inside
  <2> QED
    BY <1>1, <2>1, <2>2, FS_AddElement DEF Count
<1>5. ASSUME NEW c \in Clients, Leave(c) PROVE Count'
  <2>1. Inside' = Inside \ {c} /\ c \in Inside
    BY <1>1, <1>5 DEF Leave, Goto, Inside, Stage
  <2>2. active_connections' = active_connections - 1
    BY <1>5 DEF Leave
  <2> QED
    BY <1>1, <2>1, <2>2, FS_RemoveElement DEF Count
<1>6. ASSUME NEW c \in Clients,
             \/ Accept(c) \/ Spawn(c) \/ ParseUpgradeRequest(c) \/ ConnectToBackend(c)
             \/ UpgradeBackend(c) \/ Refuse(c) \/ Select(c) \/ Receive(c) \/ EndRelay(c)
             \/ Send(c) \/ SendFails(c)
      PROVE  Count'
  <2>1. CASE Accept(c) \/ Spawn(c)
    <3>1. c \notin Inside
      BY <1>1, <2>1 DEF Arrived, Accept, Spawn, Inside
    <3>2. \E stage \in {"accepted", "start"} : Goto(c, stage)
      BY <2>1 DEF Accept, Spawn
    <3>3. Inside' = Inside
      BY <1>1, <3>1, <3>2, InsideKept DEF Stage
    <3> QED
      BY <1>3, <2>1, <3>3 DEF Accept, Spawn
  <2>2. CASE ParseUpgradeRequest(c) \/ ConnectToBackend(c) \/ UpgradeBackend(c) \/ Refuse(c)
             \/ Select(c) \/ Receive(c) \/ EndRelay(c) \/ Send(c) \/ SendFails(c)
    <3>1. c \in Inside
      BY <2>2 DEF ParseUpgradeRequest, ConnectToBackend, UpgradeBackend, Refuse, Select, Receive,
         EndRelay, Send, SendFails, Inside
    <3>2. \E stage \in Stage \ {"none", "accepted", "start", "done"} : Goto(c, stage)
      <4>1. CASE Send(c)
        BY <4>1 DEF Send, NextTurn, Stage
      <4>2. CASE ~Send(c)
        BY <2>2, <4>2 DEF ParseUpgradeRequest, ConnectToBackend, UpgradeBackend, Refuse, Select,
           Receive, EndRelay, SendFails, WriteError, Stage
      <4> QED
        BY <4>1, <4>2
    <3>3. Inside' = Inside
      BY <1>1, <3>1, <3>2, InsideKept
    <3> QED
      BY <1>3, <2>2, <3>3 DEF ParseUpgradeRequest, ConnectToBackend, UpgradeBackend, Refuse,
         Select, Receive, EndRelay, Send, SendFails, locals
  <2> QED
    BY <1>6, <2>1, <2>2
<1>7. ASSUME pc' = pc, active_connections' = active_connections PROVE Count'
  <2>1. Inside' = Inside
    BY <1>7 DEF Inside
  <2> QED
    BY <1>3, <1>7, <2>1
<1> QED
  BY <1>2, <1>4, <1>5, <1>6, <1>7
     DEF Next, Start, StartFails, Stop, StopListener, Unlisten, JoinListener, JoinConnections,
         AcceptLoop, CheckRunning, AcceptFails, HandleConnection, Relay,
         Peers, ClientConnects, ClientAsks, BackendAnswers, Writes, Reads, Closes, vars, threads

\* The types of the other variables, step by step.
LEMMA TypesKept ==
  ASSUME ProxyAssumption, Typed, [Next]_vars
  PROVE  TypeOK' /\ (ready \in [Clients -> SUBSET Ends])'
<1> DEFINE Goal == TypeOK' /\ ready' \in [Clients -> SUBSET Ends]
<1>1. /\ TypeOK
      /\ ready \in [Clients -> SUBSET Ends]
      /\ Sizes'
      /\ active_connections' \in Nat
  BY StreamsStaySized, CountKept DEF Typed
<1>2. \A c \in Clients : C(c) \in Ends /\ B(c) \in Ends
  BY EndFacts
<1>3. CASE Start
  BY <1>1, <1>3 DEF Start, TypeOK, Sizes, threads, peers
<1>4. CASE StartFails \/ Stop \/ StopListener
  BY <1>1, <1>4 DEF StartFails, Stop, StopListener, Unlisten, JoinListener, JoinConnections,
     TypeOK, Sizes, threads, peers
<1>5. CASE CheckRunning \/ AcceptFails
  BY <1>1, <1>5 DEF CheckRunning, AcceptFails, TypeOK, Sizes, threads, peers
<1>6. ASSUME NEW c \in Clients, Accept(c) PROVE Goal
  BY <1>1, <1>2, <1>6 DEF Accept, Goto, TypeOK, Stage, Sizes
<1>7. ASSUME NEW c \in Clients, Spawn(c) PROVE Goal
  BY <1>1, <1>7 DEF Spawn, Goto, TypeOK, Stage, Sizes, peers
<1>8. ASSUME NEW c \in Clients, Enter(c) PROVE Goal
  BY <1>1, <1>8 DEF Enter, Goto, TypeOK, Stage, Sizes, shared, listening, peers
<1>9. ASSUME NEW c \in Clients, ParseUpgradeRequest(c) PROVE Goal
  BY <1>1, <1>9 DEF ParseUpgradeRequest, Goto, TypeOK, Stage, Sizes, shared, locals, listening,
     peers
<1>10. ASSUME NEW c \in Clients, ConnectToBackend(c) PROVE Goal
  BY <1>1, <1>2, <1>10 DEF ConnectToBackend, Goto, TypeOK, Stage, Sizes, listening
<1>11. ASSUME NEW c \in Clients, UpgradeBackend(c) PROVE Goal
  BY <1>1, <1>11 DEF UpgradeBackend, Goto, TypeOK, Stage, Sizes, locals, listening
<1>12. ASSUME NEW c \in Clients, Refuse(c) PROVE Goal
  BY <1>1, <1>12 DEF Refuse, Goto, TypeOK, Stage, Sizes, locals, listening
<1>13. ASSUME NEW c \in Clients, Select(c) PROVE Goal
  <2>1. ReadableEnds(c) \subseteq {C(c), B(c)} /\ ReadableEnds(c) \in SUBSET Ends
    BY <1>2 DEF ReadableEnds
  <2> QED
    BY <1>1, <1>13, <2>1 DEF Select, Goto, TypeOK, Stage, Sizes, shared, listening, peers
<1>14. ASSUME NEW c \in Clients, Receive(c) PROVE Goal
  BY <1>1, <1>14 DEF Receive, Goto, TypeOK, Stage, Sizes, locals, listening, peers
<1>15. ASSUME NEW c \in Clients, EndRelay(c) PROVE Goal
  BY <1>1, <1>15 DEF EndRelay, Goto, TypeOK, Stage, Sizes, shared, locals, listening, peers
<1>16. ASSUME NEW c \in Clients, Send(c) PROVE Goal
  <2>1. pc' \in [Clients -> Stage]
    BY <1>1, <1>16 DEF Send, NextTurn, Goto, TypeOK, Stage
  <2> QED
    BY <1>1, <1>16, <2>1 DEF Send, TypeOK, Sizes, locals, listening, peers
<1>17. ASSUME NEW c \in Clients, SendFails(c) PROVE Goal
  BY <1>1, <1>17 DEF SendFails, WriteError, Goto, TypeOK, Stage, Sizes, locals, listening, peers
<1>18. ASSUME NEW c \in Clients, Leave(c) PROVE Goal
  BY <1>1, <1>2, <1>18 DEF Leave, Closed, Goto, TypeOK, Stage, Sizes, listening
<1>19. ASSUME NEW c \in Clients, ClientConnects(c) \/ ClientAsks(c) \/ BackendAnswers(c)
       PROVE  Goal
  BY <1>1, <1>19 DEF ClientConnects, ClientAsks, BackendAnswers, TypeOK, Sizes, threads, listening
<1>20. ASSUME NEW e \in Ends, Writes(e) \/ Reads(e) \/ Closes(e) PROVE Goal
  BY <1>1, <1>20 DEF Writes, Reads, Closes, TypeOK, Sizes, threads, listening, peers
<1>21. CASE UNCHANGED vars
  BY <1>1, <1>21 DEF vars, TypeOK, Sizes, threads, listening, peers
<1> QED
  BY <1>3, <1>4, <1>5, <1>6, <1>7, <1>8, <1>9, <1>10, <1>11, <1>12, <1>13, <1>14, <1>15, <1>16,
     <1>17, <1>18, <1>19, <1>20, <1>21 DEF Next, AcceptLoop, HandleConnection, Relay, Peers

\* The listener accepts only a client that waits, and it waits until then.
LEMMA ArrivedKept ==
  ASSUME Typed, [Next]_vars
  PROVE  Arrived'
<1>1. /\ pc \in [Clients -> Stage]
      /\ client \in [Clients -> {"away", "waiting", "connected", "asked", "switched", "refused"}]
      /\ Arrived
  BY DEF Typed, TypeOK
<1>2. ASSUME NEW c \in Clients, Accept(c) PROVE Arrived'
  BY <1>1, <1>2 DEF Accept, Goto, Arrived
<1>3. ASSUME NEW c \in Clients, ClientConnects(c) \/ ClientAsks(c) PROVE Arrived'
  BY <1>1, <1>3 DEF ClientConnects, ClientAsks, threads, Arrived
<1>4. ASSUME NEW c \in Clients, UpgradeBackend(c) \/ Refuse(c) PROVE Arrived'
  BY <1>1, <1>4 DEF UpgradeBackend, Refuse, Goto, Arrived
<1>5. ASSUME client' = client, NEW c \in Clients, NEW stage \in Stage \ {"none"},
             pc[c] # "none", Goto(c, stage)
      PROVE  Arrived'
  BY <1>1, <1>5 DEF Goto, Arrived
<1>6. ASSUME NEW c \in Clients,
             \/ Spawn(c) \/ Enter(c) \/ ParseUpgradeRequest(c) \/ ConnectToBackend(c)
             \/ Select(c) \/ Receive(c) \/ EndRelay(c) \/ Send(c) \/ SendFails(c) \/ Leave(c)
      PROVE  Arrived'
  <2>1. client' = client /\ pc[c] # "none"
    BY <1>6 DEF Spawn, Enter, ParseUpgradeRequest, ConnectToBackend, Select, Receive, EndRelay,
       Send, SendFails, Leave, shared, peers
  <2>2. \E stage \in Stage \ {"none"} : Goto(c, stage)
    <3>1. CASE Send(c)
      BY <1>1, <3>1 DEF Send, NextTurn, Stage
    <3>2. CASE ~Send(c)
      BY <1>6, <3>2 DEF Spawn, Enter, ParseUpgradeRequest, ConnectToBackend, Select, Receive,
         EndRelay, SendFails, WriteError, Leave, Stage
    <3> QED
      BY <3>1, <3>2
  <2> QED
    BY <1>5, <2>1, <2>2
<1>7. CASE pc' = pc /\ client' = client
  BY <1>1, <1>7 DEF Arrived
<1> QED
  BY <1>2, <1>3, <1>4, <1>6, <1>7
     DEF Next, Start, StartFails, Stop, StopListener, Unlisten, JoinListener, JoinConnections,
         AcceptLoop, CheckRunning, AcceptFails, HandleConnection, Relay,
         Peers, BackendAnswers, Writes, Reads, Closes, vars, threads, peers


\* A stream with nothing on it is the empty one.
LEMMA EmptyStream ==
  ASSUME NEW s \in Stream, s.sent = 0, s.inbox = <<>>, s.held = <<>>, s.outbox = <<>>, s.got = <<>>
  PROVE  s = Empty
BY DEF Stream, Empty

\* The stages before the relay, and those of the relay's steps.
LEMMA SendPlace ==
  ASSUME Streams, NEW c \in Clients, Send(c)
  PROVE  /\ pc[c] \in {"toBackend", "toClient"}
         /\ Goto(c, IF Tail(stream[Source(c)].held) = <<>> THEN NextTurn(c) ELSE pc[c])
<1>1. Source(c) \in Ends
  BY EndFacts DEF Source
<1> DEFINE e == Source(c)
           o == IF Target(c) \in gone THEN <<>>
                ELSE Append(stream[e].outbox, Head(stream[e].held))
           t == [stream[e] EXCEPT !.held = Tail(stream[e].held), !.outbox = o]
<1>2. t.held = Tail(stream[e].held)
  <2> HIDE DEF o
  <2> QED
    BY <1>1 DEF Streams, Stream
<1>3. Goto(c, IF t.held = <<>> THEN NextTurn(c) ELSE pc[c]) /\ pc[c] \in {"toBackend", "toClient"}
  BY DEF Send, Unsent
<1> QED
  BY <1>2, <1>3

\* What another connection's thread leaves alone.
LEMMA OthersAreLeftAlone ==
  ASSUME Typed, NEW c \in Clients, NEW d \in Clients, d # c,
         Accept(d) \/ Spawn(d) \/ HandleConnection(d) \/ ClientConnects(d) \/ ClientAsks(d)
  PROVE  /\ pc'[c] = pc[c] /\ client'[c] = client[c]
         /\ stream'[C(c)] = stream[C(c)] /\ stream'[B(c)] = stream[B(c)]
<1>1. Streams /\ Buffers /\ pc \in [Clients -> Stage]
      /\ client \in [Clients -> {"away", "waiting", "connected", "asked", "switched", "refused"}]
  BY DEF Typed, TypeOK
<1>2. /\ C(c) \in Ends /\ B(c) \in Ends
      /\ C(c) \notin {C(d), B(d)} /\ B(c) \notin {C(d), B(d)}
  BY EndFacts
<1>3. pc'[c] = pc[c]
  BY <1>1 DEF Accept, Spawn, HandleConnection, Enter, ParseUpgradeRequest, ConnectToBackend,
     UpgradeBackend, Refuse, Relay, Select, Receive, EndRelay, Send, SendFails, WriteError, Leave,
     ClientConnects, ClientAsks, Goto, threads
<1>4. client'[c] = client[c]
  BY <1>1 DEF Accept, Spawn, HandleConnection, Enter, ParseUpgradeRequest, ConnectToBackend,
     UpgradeBackend, Refuse, Relay, Select, Receive, EndRelay, Send, SendFails, WriteError, Leave,
     ClientConnects, ClientAsks, shared, peers
<1>5. stream'[C(c)] = stream[C(c)] /\ stream'[B(c)] = stream[B(c)]
  <2>1. CASE UpgradeBackend(d)
    BY <1>1, <1>2, <2>1, UpgradeBackendStream DEF OnlyStreamOf
  <2>2. CASE Receive(d)
    BY <1>1, <1>2, <2>2, ReceiveStream DEF OnlyStreamOf, Source
  <2>3. CASE Send(d)
    BY <1>1, <1>2, <2>3, SendStream, SendsWhatItHolds DEF OnlyStreamOf, Source
  <2>4. CASE Leave(d)
    BY <1>1, <1>2, <2>4, LeaveStreams
  <2>5. CASE ~(UpgradeBackend(d) \/ Receive(d) \/ Send(d) \/ Leave(d))
    BY <2>5 DEF Accept, Spawn, HandleConnection, Enter, ParseUpgradeRequest, ConnectToBackend,
       Refuse, Relay, Select, EndRelay, SendFails, ClientConnects, ClientAsks, shared, peers
  <2> QED
    BY <2>1, <2>2, <2>3, <2>4, <2>5
<1> QED
  BY <1>3, <1>4, <1>5

LEMMA BuffersKept ==
  ASSUME Typed, [Next]_vars
  PROVE  Buffers'
<1>1. /\ pc \in [Clients -> Stage]
      /\ client \in [Clients -> {"away", "waiting", "connected", "asked", "switched", "refused"}]
      /\ Streams /\ Arrived /\ Buffers
  BY DEF Typed, TypeOK
<1>2. \A c \in Clients : BuffersOf(c)
  BY <1>1 DEF Buffers
<1>3. \A c \in Clients :
        /\ C(c) \in Ends /\ B(c) \in Ends /\ C(c) # B(c)
        /\ stream[C(c)] \in Stream /\ stream[B(c)] \in Stream
  BY <1>1, EndFacts DEF Streams
<1>4. SUFFICES ASSUME NEW c \in Clients PROVE BuffersOf(c)'
  BY DEF Buffers
<1>5. ASSUME pc'[c] = pc[c], client'[c] = client[c],
             stream'[C(c)] = stream[C(c)], stream'[B(c)] = stream[B(c)]
      PROVE  BuffersOf(c)'
  BY <1>2, <1>5 DEF BuffersOf
<1>6. CASE Accept(c) \/ Spawn(c) \/ Enter(c) \/ ParseUpgradeRequest(c) \/ ConnectToBackend(c)
  <2>1. stream' = stream /\ pc[c] \in Before /\ pc'[c] \in Before
    BY <1>1, <1>6 DEF Accept, Spawn, Enter, ParseUpgradeRequest, ConnectToBackend, Goto, Before,
       shared, Arrived
  <2>2. client'[c] = client[c] \/ client'[c] = "connected"
    BY <1>1, <1>6 DEF Accept, Spawn, Enter, ParseUpgradeRequest, ConnectToBackend, shared, peers
  <2> QED
    BY <1>2, <2>1, <2>2 DEF BuffersOf, Before
<1>7. CASE UpgradeBackend(c)
  <2>1. pc[c] = "upgrade" /\ pc'[c] = "select"
    BY <1>1, <1>7 DEF UpgradeBackend, Goto
  <2>2. stream'[C(c)] = stream[C(c)] /\ stream'[B(c)].held = stream[B(c)].held
    BY <1>1, <1>3, <1>7, UpgradeBackendStream DEF OnlyStreamOf
  <2> QED
    BY <1>2, <2>1, <2>2 DEF BuffersOf, Before
<1>8. CASE Refuse(c) \/ EndRelay(c) \/ SendFails(c)
  <2>1. pc'[c] = "leave"
    BY <1>1, <1>8 DEF Refuse, EndRelay, SendFails, WriteError, Goto
  <2> QED
    BY <2>1 DEF BuffersOf, Before
<1>9. CASE Select(c)
  <2>1. pc[c] = "select" /\ pc'[c] \in {"fromClient", "fromBackend"} /\ stream' = stream
    BY <1>1, <1>9 DEF Select, Goto, shared
  <2> QED
    BY <1>2, <2>1 DEF BuffersOf, Before
<1>10. CASE Receive(c)
  <2>1. CASE pc[c] = "fromClient"
    <3>1. pc'[c] = "toBackend" /\ stream[C(c)].inbox # <<>>
      BY <1>1, <1>10, <2>1 DEF Receive, Source, Goto
    <3>2. stream'[C(c)].held = stream[C(c)].inbox /\ stream'[B(c)] = stream[B(c)]
      BY <1>1, <1>3, <1>10, <2>1, ReceiveStream DEF Source, OnlyStreamOf
    <3> QED
      BY <1>2, <2>1, <3>1, <3>2 DEF BuffersOf, Before
  <2>2. CASE pc[c] = "fromBackend"
    <3>1. pc'[c] = "toClient" /\ stream[B(c)].inbox # <<>>
      BY <1>1, <1>3, <1>10, <2>2 DEF Receive, Source, Goto
    <3>2. stream'[B(c)].held = stream[B(c)].inbox /\ stream'[C(c)] = stream[C(c)]
      BY <1>1, <1>3, <1>10, <2>2, ReceiveStream DEF Source, OnlyStreamOf
    <3> QED
      BY <1>2, <2>2, <3>1, <3>2 DEF BuffersOf, Before
  <2> QED
    BY <1>10, <2>1, <2>2 DEF Receive
<1>11. CASE Send(c)
  <2> DEFINE rest == Tail(stream[Source(c)].held)
  <2>1. pc'[c] = IF rest = <<>> THEN NextTurn(c) ELSE pc[c]
    BY <1>1, <1>11, SendPlace DEF Goto
  <2>2. /\ OnlyStreamOf(Source(c))
        /\ stream'[Source(c)].held = rest
    BY <1>1, <1>11, SendStream, SendsWhatItHolds
  <2>3. NextTurn(c) \in {"fromBackend", "select"}
    BY DEF NextTurn
  <2>4. CASE pc[c] = "toBackend"
    <3>1. stream'[C(c)].held = rest /\ stream'[B(c)] = stream[B(c)]
      BY <1>3, <2>2, <2>4 DEF Source, OnlyStreamOf
    <3> QED
      BY <1>2, <2>1, <2>3, <2>4, <3>1 DEF BuffersOf, Before
  <2>5. CASE pc[c] = "toClient"
    <3>1. stream'[B(c)].held = rest /\ stream'[C(c)] = stream[C(c)]
      BY <1>3, <2>2, <2>5 DEF Source, OnlyStreamOf
    <3> QED
      BY <1>2, <2>1, <2>3, <2>5, <3>1 DEF BuffersOf, Before
  <2> QED
    BY <1>1, <1>11, <2>4, <2>5, SendPlace
<1>12. CASE Leave(c)
  <2>1. pc'[c] = "done"
    BY <1>1, <1>12 DEF Leave, Goto
  <2>2. stream'[C(c)].held = <<>> /\ stream'[B(c)].held = <<>>
    BY <1>1, <1>3, <1>12, LeaveStreams, AbandonedStream
  <2> QED
    BY <2>1, <2>2 DEF BuffersOf, Before
<1>13. CASE ClientConnects(c) \/ ClientAsks(c)
  <2>1. pc' = pc /\ stream' = stream /\ client'[c] # "switched"
    BY <1>1, <1>13 DEF ClientConnects, ClientAsks, threads
  <2> QED
    BY <1>2, <2>1 DEF BuffersOf
<1>14. ASSUME NEW d \in Clients, d # c,
              Accept(d) \/ Spawn(d) \/ HandleConnection(d) \/ ClientConnects(d) \/ ClientAsks(d)
       PROVE  BuffersOf(c)'
  BY <1>5, <1>14, OthersAreLeftAlone
<1>15. ASSUME NEW e \in Ends, Writes(e) PROVE BuffersOf(c)'
  <2>1. pc' = pc /\ client' = client
    BY <1>15 DEF Writes, threads, peers
  <2>2. OnlyStreamOf(e) /\ stream'[e].held = stream[e].held
    BY <1>1, <1>15, WritesStream
  <2>3. CASE e \notin {C(c), B(c)}
    BY <1>3, <1>5, <2>1, <2>2, <2>3 DEF OnlyStreamOf
  <2>4. CASE e = C(c)
    <3>1. client[c] = "switched"
      BY <1>15, <2>4, EndFacts DEF Writes, MaySend
    <3>2. pc[c] \notin Before
      BY <1>2, <3>1 DEF BuffersOf
    <3> QED
      BY <1>2, <1>3, <2>1, <2>2, <2>4, <3>2 DEF BuffersOf, OnlyStreamOf
  <2>5. CASE e = B(c)
    <3>1. BackendSpeaksFirst \/ stream[C(c)].got # <<>>
      BY <1>15, <2>5, EndFacts DEF Writes, MaySend
    <3>2. BackendSpeaksFirst \/ pc[c] \notin Before
      BY <1>2, <3>1 DEF BuffersOf, Empty
    <3> QED
      BY <1>2, <1>3, <2>1, <2>2, <2>5, <3>2 DEF BuffersOf, OnlyStreamOf
  <2> QED
    BY <2>3, <2>4, <2>5
<1>16. ASSUME NEW e \in Ends, Reads(e) PROVE BuffersOf(c)'
  <2>1. pc' = pc /\ client' = client
    BY <1>16 DEF Reads, threads, peers
  <2>2. OnlyStreamOf(e) /\ stream'[e].held = stream[e].held /\ stream[e].outbox # <<>>
    BY <1>1, <1>16, ReadsStream
  <2>3. stream[e] # Empty
    BY <2>2 DEF Empty
  <2>4. CASE e \notin {C(c), B(c)}
    BY <1>3, <1>5, <2>1, <2>2, <2>4 DEF OnlyStreamOf
  <2>5. CASE e \in {C(c), B(c)}
    BY <1>2, <1>3, <2>1, <2>2, <2>3, <2>5 DEF BuffersOf, OnlyStreamOf
  <2> QED
    BY <2>4, <2>5
<1>17. ASSUME NEW e \in Ends, Closes(e) PROVE BuffersOf(c)'
  <2>1. pc' = pc /\ client' = client
    BY <1>17 DEF Closes, threads
  <2> DEFINE g == FarEnd(e)
  <2>2. /\ g \in Ends /\ OnlyStreamOf(g) /\ stream'[g].held = stream[g].held
        /\ stream[g] = Empty => stream'[g] = Empty
    <3>1. LET s == stream[g]
              t == stream'[g]
          IN  /\ g \in Ends
              /\ OnlyStreamOf(g)
              /\ t.sent = s.sent /\ t.inbox = s.inbox /\ t.held = s.held
              /\ t.outbox = <<>> /\ t.got = s.got
      BY <1>1, <1>17, ClosesStream
    <3>2. stream'[g] \in Stream
      BY <3>1 DEF OnlyStreamOf, Streams
    <3>3. stream[g] = Empty => stream'[g] = Empty
      <4> HIDE DEF g
      <4> SUFFICES ASSUME stream[g] = Empty PROVE stream'[g] = Empty
        OBVIOUS
      <4>1. /\ stream[g].sent = 0 /\ stream[g].inbox = <<>> /\ stream[g].held = <<>>
            /\ stream[g].got = <<>>
        BY DEF Empty
      <4> QED
        BY <3>1, <3>2, <4>1, EmptyStream
    <3> QED
      BY <3>1, <3>3
  <2> HIDE DEF g
  <2>3. CASE g \notin {C(c), B(c)}
    BY <1>3, <1>5, <2>1, <2>2, <2>3 DEF OnlyStreamOf
  <2>4. CASE g = C(c)
    BY <1>2, <1>3, <2>1, <2>2, <2>4 DEF BuffersOf, OnlyStreamOf
  <2>5. CASE g = B(c)
    BY <1>2, <1>3, <2>1, <2>2, <2>5 DEF BuffersOf, OnlyStreamOf
  <2> QED
    BY <2>3, <2>4, <2>5
<1>18. CASE pc' = pc /\ client' = client /\ stream' = stream
  BY <1>5, <1>18
<1> QED
  BY <1>6, <1>7, <1>8, <1>9, <1>10, <1>11, <1>12, <1>13, <1>14, <1>15, <1>16, <1>17, <1>18
     DEF Next, Start, StartFails, Stop, StopListener, Unlisten, JoinListener, JoinConnections,
         AcceptLoop, CheckRunning, AcceptFails, HandleConnection, Relay,
         Peers, BackendAnswers, vars, threads, peers

\* Typed is an invariant: a thread's place, the count, and what its buffers hold
\* go together.
LEMMA TypedInvariant == Spec => []Typed
<1>1. Init => Typed
  <2> SUFFICES ASSUME Init PROVE Typed
    OBVIOUS
  <2>1. /\ Empty \in Stream
        /\ Empty.sent = 0 /\ Empty.inbox = <<>> /\ Empty.held = <<>> /\ Empty.outbox = <<>>
    BY FrameSequences DEF Empty, Stream
  <2>2. Streams /\ \A e \in Ends : stream[e] = Empty
    BY <2>1 DEF Init, Streams
  <2>3. Sizes
    <3>1. Len(Empty.inbox) = 0 /\ Len(Empty.outbox) = 0
      BY <2>1, FrameSequences
    <3>2. Numbered(Empty.inbox \o Empty.held \o Empty.outbox \o Empty.got)
      BY <2>1, StreamIsNumbered
    <3>3. \A e \in Ends : Empty.sent \in 0..Frames[e] /\ 0 <= InboxSize /\ 0 <= OutboxSize
      BY <2>1, ProxyAssumption
    <3> QED
      BY <2>2, <3>1, <3>2, <3>3 DEF Sizes
  <2>4. Count
    <3>1. Inside = {}
      BY DEF Init, Inside
    <3> QED
      BY <3>1, FS_EmptySet DEF Count, Init
  <2>5. Arrived
    BY DEF Init, Arrived
  <2>6. Buffers
    <3>1. \A c \in Clients : stream[C(c)] = Empty /\ stream[B(c)] = Empty
      BY <2>2, EndFacts
    <3> QED
      BY <2>1, <3>1 DEF Init, Buffers, BuffersOf, Before
  <2>7. TypeOK
    BY <2>3 DEF Init, TypeOK, Sizes, Stage
  <2>8. ready \in [Clients -> SUBSET Ends]
    BY DEF Init
  <2> QED
    BY <2>2, <2>4, <2>5, <2>6, <2>7, <2>8 DEF Typed
<1>2. Typed /\ [Next]_vars => Typed'
  BY StreamsStaySized, CountKept, TypesKept, ArrivedKept, BuffersKept, ProxyAssumption DEF Typed
<1> QED
  BY <1>1, <1>2, PTL DEF Spec

\* The types of the variables: the count of connections is never negative, and no
\* socket holds more than its buffers.
THEOREM TypeCorrect == Spec => []TypeOK
BY TypedInvariant, PTL DEF Typed

-----------------------------------------------------------------------------
(***************************************************************************)
(* The descriptor table and the numbers the threads keep say the same,     *)
(* whichever thread closes or opens next: closing frees what is recorded,  *)
(* and a number is handed out only once no record of it is left.           *)
(***************************************************************************)
Recorded ==
  /\ \A e \in Ends, f \in FDs : table[f] = e <=> fd[e] = f
  /\ \A f \in FDs : table[f] = Listener <=> listen_fd = f

Records(c) ==
  /\ fd[C(c)] = None <=> pc[c] \in {"none", "done"}
  /\ fd[C(c)] = None => fd[B(c)] = None
  /\ pc[c] \in {"accepted", "start", "parse", "connect"} => fd[B(c)] = None

Unlistened ==
  main \in {"off", "joinListener", "joinConnections", "stopped"} => listen_fd = None

Owned == Recorded /\ Unlistened /\ \A c \in Clients : Records(c)

\* None is no descriptor.
LEMMA NoneIsNoDescriptor == ASSUME ProxyAssumption PROVE None \notin FDs
BY DEF ProxyAssumption, None

\* The table follows what the threads record.
LEMMA RecordedKept ==
  ASSUME ProxyAssumption, Typed, Owned, [Next]_vars
  PROVE  Recorded'
<1>1. /\ pc \in [Clients -> Stage] /\ fd \in [Ends -> FDs \cup {None}]
      /\ table \in [FDs -> Ends \cup {Listener, Free}] /\ listen_fd \in FDs \cup {None}
      /\ None \notin FDs
      /\ Arrived /\ Recorded /\ Unlistened /\ \A c \in Clients : Records(c)
  BY NoneIsNoDescriptor DEF Typed, TypeOK, Owned
<1>2. /\ \A c \in Clients : C(c) \in Ends /\ B(c) \in Ends /\ C(c) # B(c)
      /\ Listener # Free /\ Listener \notin Ends /\ Free \notin Ends
  BY EndFacts, EndsAreSockets
<1>3. CASE Start
  <2>1. PICK f \in FDs : IsNext(f) /\ listen_fd' = f /\ table' = [table EXCEPT ![f] = Listener]
    BY <1>3 DEF Start
  <2>2. listen_fd = None /\ fd' = fd /\ table[f] = Free
    BY <1>1, <1>3, <2>1 DEF Start, Unlistened, threads, IsNext
  <2> QED
    BY <1>1, <1>2, <2>1, <2>2 DEF Recorded
<1>4. CASE Unlisten
  <2>1. /\ listen_fd' = None /\ fd' = fd
        /\ table' = [f \in FDs |-> IF f = listen_fd THEN Free ELSE table[f]]
    BY <1>4 DEF Unlisten, threads
  <2> QED
    BY <1>1, <1>2, <2>1 DEF Recorded
<1>5. ASSUME NEW e \in Ends, NEW f \in FDs, IsNext(f), fd[e] = None, listen_fd' = listen_fd,
             fd' = [fd EXCEPT ![e] = f], table' = [table EXCEPT ![f] = e]
      PROVE  Recorded'
  <2>1. table[f] = Free
    BY <1>5 DEF IsNext
  <2>2. ASSUME NEW d \in Ends, NEW g \in FDs PROVE table'[g] = d <=> fd'[d] = g
    BY <1>1, <1>2, <1>5, <2>1 DEF Recorded
  <2>3. ASSUME NEW g \in FDs PROVE table'[g] = Listener <=> listen_fd' = g
    BY <1>1, <1>2, <1>5, <2>1 DEF Recorded
  <2> QED
    BY <2>2, <2>3 DEF Recorded
<1>6. ASSUME NEW c \in Clients, Accept(c) PROVE Recorded'
  <2>1. fd[C(c)] = None
    BY <1>1, <1>6 DEF Accept, Arrived, Records
  <2>2. listen_fd' = listen_fd
    BY <1>6 DEF Accept
  <2> QED
    BY <1>2, <1>5, <1>6, <2>1, <2>2 DEF Accept
<1>7. ASSUME NEW c \in Clients, ConnectToBackend(c) PROVE Recorded'
  <2>1. fd[B(c)] = None
    BY <1>1, <1>7 DEF ConnectToBackend, Records
  <2>2. listen_fd' = listen_fd
    BY <1>7 DEF ConnectToBackend, listening
  <2> QED
    BY <1>2, <1>5, <1>7, <2>1, <2>2 DEF ConnectToBackend
<1>8. ASSUME NEW c \in Clients, Leave(c) PROVE Recorded'
  <2>1. /\ listen_fd' = listen_fd
        /\ fd' = [fd EXCEPT ![C(c)] = None, ![B(c)] = None]
        /\ table' = [f \in FDs |-> IF f \in {fd[C(c)], fd[B(c)]} THEN Free ELSE table[f]]
    BY <1>8 DEF Leave, Closed, listening
  <2>2. ASSUME NEW d \in Ends, NEW g \in FDs PROVE table'[g] = d <=> fd'[d] = g
    BY <1>1, <1>2, <2>1 DEF Recorded
  <2>3. ASSUME NEW g \in FDs PROVE table'[g] = Listener <=> listen_fd' = g
    BY <1>1, <1>2, <2>1 DEF Recorded
  <2> QED
    BY <2>2, <2>3 DEF Recorded
<1>9. CASE fd' = fd /\ table' = table /\ listen_fd' = listen_fd
  BY <1>1, <1>9 DEF Recorded
<1> QED
  BY <1>3, <1>4, <1>6, <1>7, <1>8, <1>9
     DEF Next, StartFails, Stop, StopListener, JoinListener, JoinConnections,
         AcceptLoop, CheckRunning, AcceptFails, Spawn, HandleConnection, Enter,
         ParseUpgradeRequest, UpgradeBackend, Refuse, Relay, Select, Receive, EndRelay, Send,
         SendFails, WriteError, Peers, ClientConnects, ClientAsks, BackendAnswers, Writes, Reads,
         Closes, vars, threads, shared, locals, listening

\* What a thread records goes with how far it has come.
LEMMA RecordsKept ==
  ASSUME ProxyAssumption, Typed, Owned, [Next]_vars, NEW c \in Clients
  PROVE  Records(c)'
<1>1. /\ pc \in [Clients -> Stage] /\ fd \in [Ends -> FDs \cup {None}]
      /\ None \notin FDs
      /\ Arrived /\ Records(c)
  BY NoneIsNoDescriptor DEF Typed, TypeOK, Owned
<1>2. C(c) \in Ends /\ B(c) \in Ends /\ C(c) # B(c)
  BY EndFacts
<1>3. CASE Accept(c)
  <2>1. pc[c] = "none" /\ pc'[c] = "accepted"
    BY <1>1, <1>3 DEF Accept, Arrived, Goto
  <2>2. fd'[C(c)] \in FDs /\ fd'[B(c)] = fd[B(c)]
    BY <1>1, <1>2, <1>3 DEF Accept
  <2> QED
    BY <1>1, <2>1, <2>2 DEF Records
<1>4. CASE ConnectToBackend(c)
  <2>1. pc[c] = "connect" /\ pc'[c] = "upgrade"
    BY <1>1, <1>4 DEF ConnectToBackend, Goto
  <2>2. fd'[C(c)] = fd[C(c)]
    BY <1>1, <1>2, <1>4 DEF ConnectToBackend
  <2> QED
    BY <1>1, <2>1, <2>2 DEF Records
<1>5. CASE Leave(c)
  <2>1. pc'[c] = "done" /\ fd'[C(c)] = None /\ fd'[B(c)] = None
    BY <1>1, <1>2, <1>5 DEF Leave, Goto
  <2> QED
    BY <2>1 DEF Records
<1>6. CASE Spawn(c) \/ Enter(c) \/ ParseUpgradeRequest(c)
  <2>1. /\ fd' = fd
        /\ pc[c] \in {"accepted", "start", "parse"} /\ pc'[c] \in {"start", "parse", "connect"}
    BY <1>1, <1>6 DEF Spawn, Enter, ParseUpgradeRequest, Goto, locals
  <2> QED
    BY <1>1, <2>1 DEF Records
<1>7. CASE UpgradeBackend(c) \/ Refuse(c) \/ Relay(c)
  <2>1. /\ fd' = fd /\ pc[c] \notin {"none", "done"}
    BY <1>7 DEF UpgradeBackend, Refuse, Relay, Select, Receive, EndRelay, Send, SendFails, locals
  <2>2. pc'[c] \notin {"none", "done", "accepted", "start", "parse", "connect"}
    <3>1. CASE Send(c)
      BY <1>1, <3>1 DEF Send, NextTurn, Goto
    <3>2. CASE \/ UpgradeBackend(c) \/ Refuse(c)
               \/ Select(c) \/ Receive(c) \/ EndRelay(c) \/ SendFails(c)
      BY <1>1, <3>2 DEF UpgradeBackend, Refuse, Select, Receive, EndRelay, SendFails,
         WriteError, Goto
    <3> QED
      BY <1>7, <3>1, <3>2 DEF Relay
  <2> QED
    BY <1>1, <2>1, <2>2 DEF Records
<1>8. ASSUME pc'[c] = pc[c], fd'[C(c)] = fd[C(c)], fd'[B(c)] = fd[B(c)] PROVE Records(c)'
  BY <1>1, <1>8 DEF Records
<1>9. ASSUME NEW d \in Clients, d # c, Accept(d) \/ Spawn(d) \/ HandleConnection(d)
      PROVE  Records(c)'
  <2>1. pc'[c] = pc[c]
    BY <1>9, OthersAreLeftAlone
  <2>2. C(c) \notin {C(d), B(d)} /\ B(c) \notin {C(d), B(d)}
    BY <1>9, EndFacts
  <2>3. fd'[C(c)] = fd[C(c)] /\ fd'[B(c)] = fd[B(c)]
    BY <1>1, <1>2, <1>9, <2>2
       DEF Accept, Spawn, HandleConnection, Enter, ParseUpgradeRequest, ConnectToBackend,
           UpgradeBackend, Refuse, Relay, Select, Receive, EndRelay, Send, SendFails, Leave, locals
  <2> QED
    BY <1>8, <2>1, <2>3
<1>10. CASE pc' = pc /\ fd' = fd
  BY <1>8, <1>10
<1> QED
  BY <1>3, <1>4, <1>5, <1>6, <1>7, <1>9, <1>10
     DEF Next, Start, StartFails, Stop, StopListener, Unlisten, JoinListener, JoinConnections,
         AcceptLoop, CheckRunning, AcceptFails, HandleConnection,
         Peers, ClientConnects, ClientAsks, BackendAnswers, Writes, Reads, Closes, vars, threads

\* Closing and opening keep the table and the records together.
LEMMA OwnedInvariant == Spec => []Owned
<1>1. Init => Owned
  <2> SUFFICES ASSUME Init PROVE Owned
    OBVIOUS
  <2>1. None \notin FDs /\ Listener # Free /\ Free \notin Ends
    BY NoneIsNoDescriptor, EndsAreSockets, ProxyAssumption
  <2>2. \A c \in Clients : C(c) \in Ends /\ B(c) \in Ends
    BY EndFacts
  <2>3. Recorded
    BY <2>1 DEF Init, Recorded
  <2>4. \A c \in Clients : Records(c)
    BY <2>2 DEF Init, Records
  <2> QED
    BY <2>3, <2>4 DEF Init, Owned, Unlistened
<1>2. Typed /\ Owned /\ [Next]_vars => Owned'
  <2> SUFFICES ASSUME Typed, Owned, [Next]_vars PROVE Owned'
    OBVIOUS
  <2>1. Unlistened'
    BY DEF Owned, Unlistened, Next, Start, StartFails, Stop, StopListener, Unlisten, JoinListener,
       JoinConnections, AcceptLoop, CheckRunning, Accept, AcceptFails, Spawn, HandleConnection,
       Enter, ParseUpgradeRequest, ConnectToBackend, UpgradeBackend, Refuse, Relay, Select,
       Receive, EndRelay, Send, SendFails, Leave, Peers, ClientConnects, ClientAsks,
       BackendAnswers, Writes, Reads, Closes, vars, shared, listening
  <2> QED
    BY <2>1, RecordedKept, RecordsKept, ProxyAssumption DEF Owned
<1> QED
  BY <1>1, <1>2, TypedInvariant, PTL DEF Spec

\* A thread that runs holds its own sockets and no other's, whatever the other
\* threads close and open: handleConnection alone closes what it has opened.
THEOREM ThreadsOwnTheirDescriptors == Spec => []DescriptorsAreOwn
<1>1. Typed /\ Owned => DescriptorsAreOwn
  <2> SUFFICES ASSUME Typed, Owned, NEW c \in Clients, NEW e \in {C(c), B(c)}
               PROVE  IF Holds(c, e) THEN {f \in FDs : table[f] = e} = {fd[e]} ELSE ~IsOpen(e)
    BY DEF DescriptorsAreOwn
  <2>1. /\ e \in Ends /\ fd[e] \in FDs \cup {None} /\ None \notin FDs
        /\ Records(c)
        /\ \A f \in FDs : table[f] = e <=> fd[e] = f
    BY EndFacts, NoneIsNoDescriptor, ProxyAssumption DEF Typed, TypeOK, Owned, Recorded
  <2>2. Holds(c, e) <=> fd[e] # None
    BY <2>1 DEF Holds, Records
  <2>3. CASE fd[e] # None
    BY <2>1, <2>2, <2>3
  <2>4. CASE fd[e] = None
    BY <2>1, <2>2, <2>4 DEF IsOpen
  <2> QED
    BY <2>3, <2>4
<1> QED
  BY <1>1, TypedInvariant, OwnedInvariant, PTL

-----------------------------------------------------------------------------
(***************************************************************************)
(* Where the listener, the main thread and the vector of threads stand to  *)
(* one another: every thread is in the vector from its creation on, so     *)
(* that the joins of stopListener miss none.                               *)
(***************************************************************************)
Joined ==
  /\ main \in {"off", "joinConnections", "stopped"} => acceptor \in {"none", "exited"}
  /\ \A c \in Clients :
       /\ pc[c] = "accepted" => acceptor = "spawn"
       /\ main = "stopped" => pc[c] \in {"none", "done"}
       /\ main # "stopped" => (c \in connection_threads <=> pc[c] \notin {"none", "accepted"})
  /\ \A c, d \in Clients : pc[c] = "accepted" /\ pc[d] = "accepted" => c = d

\* stopListener joins the listener first, and then everything the listener has started.
LEMMA JoinedInvariant == Spec => []Joined
<1>1. Init => Joined
  BY DEF Init, Joined
<1>2. Typed /\ Joined /\ [Next]_vars => Joined'
  <2> SUFFICES ASSUME Typed, Joined, [Next]_vars PROVE Joined'
    OBVIOUS
  <2>1. pc \in [Clients -> Stage] /\ Arrived
    BY DEF Typed, TypeOK
  <2>2. CASE Start \/ StartFails \/ Stop \/ Unlisten \/ JoinListener
    BY <2>2 DEF Start, StartFails, Stop, Unlisten, JoinListener, Joined, threads
  <2>3. CASE JoinConnections
    BY <2>1, <2>3 DEF JoinConnections, Joined, Stage
  <2>4. CASE CheckRunning \/ AcceptFails
    BY <2>4 DEF CheckRunning, AcceptFails, Joined, threads
  <2>5. ASSUME NEW c \in Clients, Accept(c) PROVE Joined'
    BY <2>1, <2>5 DEF Accept, Goto, Joined, Arrived
  <2>6. ASSUME NEW c \in Clients, Spawn(c) PROVE Joined'
    BY <2>1, <2>6 DEF Spawn, Goto, Joined
  <2>7. ASSUME NEW c \in Clients, HandleConnection(c) PROVE Joined'
    <3>1. /\ UNCHANGED <<main, acceptor, connection_threads>>
          /\ pc[c] \notin {"none", "accepted", "done"}
      BY <2>7 DEF HandleConnection, Enter, ParseUpgradeRequest, ConnectToBackend, UpgradeBackend,
         Refuse, Relay, Select, Receive, EndRelay, Send, SendFails, Leave, shared, listening
    <3>2. pc'[c] \notin {"none", "accepted"}
      <4>1. CASE Send(c)
        BY <2>1, <4>1 DEF Send, NextTurn, Goto
      <4>2. CASE ~Send(c)
        BY <2>1, <2>7, <4>2 DEF HandleConnection, Enter, ParseUpgradeRequest, ConnectToBackend,
           UpgradeBackend, Refuse, Relay, Select, Receive, EndRelay, SendFails, WriteError, Leave,
           Goto
      <4> QED
        BY <4>1, <4>2
    <3>3. \A d \in Clients : d # c => pc'[d] = pc[d]
      BY <2>7, OthersAreLeftAlone
    <3> QED
      BY <3>1, <3>2, <3>3 DEF Joined
  <2>8. CASE UNCHANGED <<main, acceptor, connection_threads, pc>>
    BY <2>8 DEF Joined
  <2> QED
    BY <2>2, <2>3, <2>4, <2>5, <2>6, <2>7, <2>8
       DEF Next, StopListener, AcceptLoop, Peers, ClientConnects, ClientAsks, BackendAnswers,
           Writes, Reads, Closes, vars, threads, listening
<1> QED
  BY <1>1, <1>2, TypedInvariant, PTL DEF Spec

\* Once stopListener has returned no thread runs, no socket is open and no connection
\* is counted, wherever the connections were when it was called.
THEOREM NothingIsLeft == Spec => []NothingOutlivesStop
<1>1. Typed /\ Owned /\ Joined => NothingOutlivesStop
  <2> SUFFICES ASSUME Typed, Owned, Joined, main = "stopped"
               PROVE  /\ acceptor \in {"none", "exited"}
                      /\ \A c \in Clients : pc[c] \in {"none", "done"}
                      /\ \A f \in FDs : table[f] = Free
                      /\ active_connections = 0
    BY DEF NothingOutlivesStop
  <2>1. acceptor \in {"none", "exited"} /\ \A c \in Clients : pc[c] \in {"none", "done"}
    BY DEF Joined
  <2>2. \A e \in Ends : fd[e] = None
    BY <2>1, EndFacts DEF Owned, Records
  <2>3. listen_fd = None /\ None \notin FDs
    BY NoneIsNoDescriptor, ProxyAssumption DEF Owned, Unlistened
  <2>4. ASSUME NEW f \in FDs PROVE table[f] = Free
    BY <2>2, <2>3 DEF Typed, TypeOK, Owned, Recorded
  <2>5. Inside = {}
    BY <2>1 DEF Inside
  <2>6. active_connections = 0
    BY <2>5, FS_EmptySet DEF Typed, Count
  <2> QED
    BY <2>1, <2>4, <2>6
<1> QED
  BY <1>1, TypedInvariant, OwnedInvariant, JoinedInvariant, PTL

-----------------------------------------------------------------------------
(***************************************************************************)
(* The frames of a stream, from the far end's hands back to the sender's,  *)
(* are numbered without a gap: what has been read, what the far end's      *)
(* socket holds, and, as long as neither the far end has closed nor the    *)
(* connection ended, what the thread holds and what it has yet to receive. *)
(* A backend that speaks before it is spoken to may lose frames to         *)
(* upgradeBackend, so that its stream is Intact only if it does not.       *)
(***************************************************************************)
From(s, n) == \A i \in 1..Len(s) : s[i] = n + i

InHand(s) == From(s.got, 0) /\ From(s.outbox, Len(s.got))

OnTheWay(s) ==
  /\ From(s.held, Len(s.got) + Len(s.outbox))
  /\ From(s.inbox, Len(s.got) + Len(s.outbox) + Len(s.held))
  /\ s.sent = Len(s.got) + Len(s.outbox) + Len(s.held) + Len(s.inbox)

Lasts(e) == FarEnd(e) \notin gone /\ pc[e[1]] # "done"
InOrder(e) == InHand(stream[e]) /\ (Lasts(e) => OnTheWay(stream[e]))
Intact(e) == e = C(e[1]) \/ ~BackendSpeaksFirst
Order == \A e \in Ends : Intact(e) => InOrder(e)

\* Numbering along the steps a sequence takes.
LEMMA FromEmpty == ASSUME NEW n PROVE From(<<>>, n)
BY DEF From

LEMMA FromTail ==
  ASSUME NEW s \in Seq(Frame), s # <<>>, NEW n \in Nat, From(s, n)
  PROVE  Head(s) = n + 1 /\ From(Tail(s), n + 1)
<1>1. Len(s) \in Nat \ {0} /\ Len(Tail(s)) = Len(s) - 1
  OBVIOUS
<1>2. Head(s) = s[1] /\ \A i \in 1..Len(Tail(s)) : Tail(s)[i] = s[i + 1]
  OBVIOUS
<1>3. ASSUME NEW i \in 1..Len(Tail(s)) PROVE Tail(s)[i] = (n + 1) + i
  <2>1. i + 1 \in 1..Len(s)
    BY <1>1, <1>3
  <2>2. s[i + 1] = n + (i + 1)
    BY <2>1 DEF From
  <2>3. Tail(s)[i] = s[i + 1]
    BY <1>2, <1>3
  <2> QED
    BY <1>3, <2>2, <2>3
<1> QED
  BY <1>1, <1>2, <1>3 DEF From

LEMMA FromAppend ==
  ASSUME NEW s \in Seq(Frame), NEW n \in Nat, NEW m, m = n + Len(s) + 1, From(s, n)
  PROVE  From(Append(s, m), n)
<1>1. Len(s) \in Nat /\ Len(Append(s, m)) = Len(s) + 1
  OBVIOUS
<1>2. ASSUME NEW i \in 1..(Len(s) + 1) PROVE Append(s, m)[i] = n + i
  <2>1. CASE i \in 1..Len(s)
    <3>1. Append(s, m)[i] = s[i]
      BY <2>1
    <3> QED
      BY <2>1, <3>1 DEF From
  <2>2. CASE i = Len(s) + 1
    <3>1. Append(s, m)[i] = m
      BY <2>2
    <3> QED
      BY <1>1, <2>2, <3>1
  <2> QED
    BY <1>1, <2>1, <2>2
<1> QED
  BY <1>1, <1>2 DEF From

\* A connection that has ended does not come back, and an end stays closed until it has.
LEMMA LastsNoLonger ==
  ASSUME Typed, [Next]_vars, NEW e \in Ends, Lasts(e)'
  PROVE  Lasts(e)
<1> DEFINE c == e[1]
<1>1. /\ c \in Clients /\ FarEnd(e) \in {C(c), B(c)} /\ pc \in [Clients -> Stage] /\ Arrived
      /\ FarEnd(e) \notin gone' /\ pc'[c] # "done"
  BY EndFacts DEF Typed, TypeOK, Lasts, FarEnd
<1> HIDE DEF c
<1>2. CASE Accept(c) \/ Spawn(c) \/ HandleConnection(c)
  <2>1. pc[c] # "done"
    BY <1>1, <1>2 DEF Accept, Spawn, HandleConnection, Enter, ParseUpgradeRequest,
       ConnectToBackend, UpgradeBackend, Refuse, Relay, Select, Receive, EndRelay, Send,
       SendFails, Leave, Arrived
  <2>2. ~Leave(c)
    BY <1>1 DEF Leave, Goto
  <2>3. gone' = gone
    BY <1>2, <2>2 DEF Accept, Spawn, HandleConnection, Enter, ParseUpgradeRequest,
       ConnectToBackend, UpgradeBackend, Refuse, Relay, Select, Receive, EndRelay, Send,
       SendFails, shared, peers
  <2> QED
    BY <1>1, <2>1, <2>3 DEF Lasts, c
<1>3. ASSUME NEW d \in Clients, d # c, Accept(d) \/ Spawn(d) \/ HandleConnection(d)
      PROVE  Lasts(e)
  <2>1. pc'[c] = pc[c]
    BY <1>1, <1>3, OthersAreLeftAlone
  <2>2. FarEnd(e) \notin {C(d), B(d)}
    BY <1>1, <1>3, EndFacts
  <2>3. FarEnd(e) \notin gone
    BY <1>1, <1>3, <2>2 DEF Accept, Spawn, HandleConnection, Enter, ParseUpgradeRequest,
       ConnectToBackend, UpgradeBackend, Refuse, Relay, Select, Receive, EndRelay, Send,
       SendFails, Leave, shared, peers
  <2> QED
    BY <1>1, <2>1, <2>3 DEF Lasts, c
<1>4. CASE pc' = pc /\ gone \subseteq gone'
  BY <1>1, <1>4 DEF Lasts, c
<1> QED
  BY <1>1, <1>2, <1>3, <1>4
     DEF Next, Start, StartFails, Stop, StopListener, Unlisten, JoinListener, JoinConnections,
         AcceptLoop, CheckRunning, AcceptFails, Peers, ClientConnects, ClientAsks, BackendAnswers,
         Writes, Reads, Closes, vars, threads, peers

\* The order of one stream is kept by the steps that leave it alone.
LEMMA OrderOfAnUnchangedStream ==
  ASSUME Typed, [Next]_vars, NEW e \in Ends, InOrder(e), stream'[e] = stream[e]
  PROVE  InOrder(e)'
BY LastsNoLonger DEF InOrder

\* Every step keeps the order of every stream that no frame has been dropped from.
LEMMA OrderKept ==
  ASSUME Typed, Order, [Next]_vars, NEW e \in Ends, Intact(e)
  PROVE  InOrder(e)'
<1> DEFINE s == stream[e]
           t == stream'[e]
<1>1. Streams /\ Buffers /\ InOrder(e) /\ (Lasts(e)' => Lasts(e))
  BY LastsNoLonger DEF Typed, Order
<1>2. /\ s \in Stream /\ s.sent \in Nat /\ s.inbox \in Seq(Frame) /\ s.held \in Seq(Frame)
      /\ s.outbox \in Seq(Frame) /\ s.got \in Seq(Frame)
      /\ Len(s.inbox) \in Nat /\ Len(s.held) \in Nat /\ Len(s.outbox) \in Nat /\ Len(s.got) \in Nat
  <2>1. s \in Stream
    BY <1>1 DEF Streams
  <2> HIDE DEF s
  <2> QED
    BY <2>1, StreamFields, FrameSequences
<1>3. InHand(s) /\ (Lasts(e)' => OnTheWay(s))
  BY <1>1 DEF InOrder
<1> DEFINE g == Len(s.got)
           o == Len(s.outbox)
           h == Len(s.held)
           i == Len(s.inbox)
<1>nat. g \in Nat /\ o \in Nat /\ h \in Nat /\ i \in Nat
  BY <1>2
<1>way. OnTheWay(s) <=> From(s.held, g + o) /\ From(s.inbox, g + o + h) /\ s.sent = g + o + h + i
  BY DEF OnTheWay
<1>4. SUFFICES InHand(t) /\ (Lasts(e)' => OnTheWay(t))
  BY DEF InOrder
<1>5. t = s => InHand(t) /\ (Lasts(e)' => OnTheWay(t))
  BY <1>3
<1>6. ASSUME NEW d \in Ends, OnlyStreamOf(d), d # e PROVE t = s
  BY <1>6 DEF OnlyStreamOf
<1> HIDE DEF s, t, g, o, h, i
<1>7. ASSUME NEW c \in Clients, UpgradeBackend(c) PROVE InHand(t) /\ (Lasts(e)' => OnTheWay(t))
  <2>1. CASE e = B(c)
    <3>1. ~BackendSpeaksFirst
      BY <2>1, EndFacts DEF Intact
    <3>2. s = Empty
      BY <1>1, <1>7, <2>1, <3>1 DEF UpgradeBackend, Buffers, BuffersOf, Before, s
    <3>3. /\ t.sent = s.sent /\ t.inbox = <<>> /\ t.held = s.held
          /\ t.outbox = s.outbox /\ t.got = s.got
      BY <1>1, <1>7, <2>1, UpgradeBackendStream DEF s, t
    <3>4. t.inbox = s.inbox
      BY <3>2, <3>3 DEF Empty
    <3> QED
      BY <1>3, <3>3, <3>4 DEF InHand, OnTheWay
  <2>2. CASE e # B(c)
    BY <1>1, <1>5, <1>6, <1>7, <2>2, UpgradeBackendStream, EndFacts
  <2> QED
    BY <2>1, <2>2
<1>8. ASSUME NEW c \in Clients, Receive(c) PROVE InHand(t) /\ (Lasts(e)' => OnTheWay(t))
  <2>1. CASE e = Source(c)
    <3>1. /\ t.sent = s.sent /\ t.inbox = <<>> /\ t.held = s.inbox
          /\ t.outbox = s.outbox /\ t.got = s.got
      BY <1>1, <1>8, <2>1, ReceiveStream DEF s, t
    <3>2. s.held = <<>> /\ Len(<<>>) = 0
      BY <1>1, <1>8, <2>1 DEF Receive, Source, Buffers, BuffersOf, s
    <3>3. InHand(t)
      BY <1>3, <3>1 DEF InHand
    <3>4. ASSUME OnTheWay(s) PROVE OnTheWay(t)
      <4>1. h = 0 /\ g + o + h = g + o
        BY <1>nat, <3>2 DEF h
      <4>2. From(s.inbox, g + o) /\ s.sent = g + o + i
        BY <1>way, <3>4, <4>1
      <4>3. /\ Len(t.got) = g /\ Len(t.outbox) = o /\ Len(t.held) = i /\ Len(t.inbox) = 0
        BY <3>1, <3>2 DEF g, o, i
      <4>4. s.sent = g + o + i + 0
        BY <1>nat, <4>2
      <4> QED
        BY <3>1, <4>2, <4>3, <4>4, FromEmpty DEF OnTheWay
    <3> QED
      BY <1>3, <3>3, <3>4
  <2>2. CASE e # Source(c)
    BY <1>1, <1>5, <1>6, <1>8, <2>2, ReceiveStream
  <2> QED
    BY <2>1, <2>2
<1>9. ASSUME NEW c \in Clients, Send(c) PROVE InHand(t) /\ (Lasts(e)' => OnTheWay(t))
  <2>1. CASE e = Source(c)
    <3>1. /\ s.held # <<>>
          /\ t.sent = s.sent /\ t.inbox = s.inbox /\ t.held = Tail(s.held)
          /\ Target(c) \in gone => t.outbox = <<>>
          /\ Target(c) \notin gone => t.outbox = Append(s.outbox, Head(s.held))
          /\ t.got = s.got
      BY <1>1, <1>9, <2>1, SendStream, SendsWhatItHolds DEF s, t
    <3>2. Target(c) = FarEnd(e) /\ e[1] = c
      BY <2>1, EndFacts DEF Source, Target
    <3>3. gone' = gone /\ pc[c] # "done"
      BY <1>9 DEF Send, peers
    <3>4. CASE Target(c) \in gone
      <4>1. ~Lasts(e)'
        BY <3>2, <3>3, <3>4 DEF Lasts
      <4> QED
        BY <1>3, <3>1, <3>4, <4>1, FromEmpty DEF InHand
    <3>5. CASE Target(c) \notin gone
      <4>1. OnTheWay(s)
        BY <1>1, <3>2, <3>3, <3>5 DEF InOrder, Lasts, s
      <4>2. Head(s.held) = g + o + 1 /\ From(Tail(s.held), g + o + 1)
        <5>1. g + o \in Nat /\ From(s.held, g + o)
          BY <1>nat, <1>way, <4>1
        <5> QED
          BY <1>2, <3>1, <5>1, FromTail
      <4>3. From(t.outbox, g)
        <5>1. From(s.outbox, g) /\ Head(s.held) = g + Len(s.outbox) + 1
          BY <1>3, <4>2 DEF InHand, g, o
        <5> QED
          BY <1>2, <1>nat, <3>1, <3>5, <5>1, FromAppend
      <4>4. Len(t.got) = g /\ Len(t.outbox) = o + 1 /\ Len(t.held) = h - 1 /\ Len(t.inbox) = i
        <5>1. Head(s.held) \in Frame
          BY <1>2, <3>1, FrameSequences
        <5> QED
          BY <1>2, <3>1, <3>5, <5>1, FrameSequences DEF g, o, h, i
      <4>5. g + (o + 1) = g + o + 1 /\ g + (o + 1) + (h - 1) = g + o + h
        BY <1>nat
      <4>6. OnTheWay(t)
        BY <1>way, <3>1, <4>1, <4>2, <4>4, <4>5 DEF OnTheWay
      <4> QED
        BY <1>3, <3>1, <4>3, <4>6 DEF InHand, g
    <3> QED
      BY <3>4, <3>5
  <2>2. CASE e # Source(c)
    BY <1>1, <1>5, <1>6, <1>9, <2>2, SendStream, SendsWhatItHolds
  <2> QED
    BY <2>1, <2>2
<1>10. ASSUME NEW c \in Clients, Leave(c) PROVE InHand(t) /\ (Lasts(e)' => OnTheWay(t))
  <2>1. CASE e \in {C(c), B(c)}
    <3>1. t.outbox = s.outbox /\ t.got = s.got
      BY <1>1, <1>2, <1>10, <2>1, LeaveStreams, AbandonedStream DEF s, t
    <3>2. ~Lasts(e)'
      <4>1. e[1] = c /\ pc \in [Clients -> Stage]
        BY <2>1, EndFacts DEF Typed, TypeOK
      <4> QED
        BY <1>10, <4>1 DEF Leave, Goto, Lasts
    <3> QED
      BY <1>3, <3>1, <3>2 DEF InHand
  <2>2. CASE e \notin {C(c), B(c)}
    BY <1>1, <1>5, <1>10, <2>2, LeaveStreams DEF s, t
  <2> QED
    BY <2>1, <2>2
<1>11. ASSUME NEW d \in Ends, Writes(d) PROVE InHand(t) /\ (Lasts(e)' => OnTheWay(t))
  <2>1. CASE e = d
    <3>1. /\ t.sent = s.sent + 1 /\ t.inbox = Append(s.inbox, s.sent + 1)
          /\ t.held = s.held /\ t.outbox = s.outbox /\ t.got = s.got
      BY <1>1, <1>11, <2>1, WritesStream DEF s, t
    <3>2. ASSUME OnTheWay(s) PROVE OnTheWay(t)
      <4>1. s.sent + 1 = (g + o + h) + i + 1 /\ g + o + h \in Nat /\ s.sent + 1 \in Frame
        BY <1>2, <1>nat, <1>way, <3>2 DEF Frame
      <4>2. From(t.inbox, g + o + h)
        <5>1. From(s.inbox, g + o + h) /\ s.sent + 1 = (g + o + h) + Len(s.inbox) + 1
          BY <1>way, <3>2, <4>1 DEF i
        <5> QED
          BY <1>2, <3>1, <4>1, <5>1, FromAppend
      <4>3. Len(t.got) = g /\ Len(t.outbox) = o /\ Len(t.held) = h /\ Len(t.inbox) = i + 1
        BY <1>2, <3>1, <4>1, FrameSequences DEF g, o, h, i
      <4>4. t.sent = g + o + h + (i + 1)
        BY <1>nat, <3>1, <4>1
      <4> QED
        BY <1>way, <3>1, <3>2, <4>2, <4>3, <4>4 DEF OnTheWay
    <3> QED
      BY <1>3, <3>1, <3>2 DEF InHand
  <2>2. CASE e # d
    BY <1>1, <1>5, <1>6, <1>11, <2>2, WritesStream
  <2> QED
    BY <2>1, <2>2
<1>12. ASSUME NEW d \in Ends, Reads(d) PROVE InHand(t) /\ (Lasts(e)' => OnTheWay(t))
  <2>1. CASE e = d
    <3>1. /\ s.outbox # <<>>
          /\ t.sent = s.sent /\ t.inbox = s.inbox /\ t.held = s.held
          /\ t.outbox = Tail(s.outbox) /\ t.got = Append(s.got, Head(s.outbox))
      BY <1>1, <1>12, <2>1, ReadsStream DEF s, t
    <3>2. Head(s.outbox) = Len(s.got) + 1 /\ From(Tail(s.outbox), Len(s.got) + 1)
      BY <1>2, <1>3, <3>1, FromTail DEF InHand
    <3>3. From(t.got, 0)
      <4>1. Len(s.got) + 1 = 0 + Len(s.got) + 1
        BY <1>2
      <4> QED
        BY <1>2, <1>3, <3>1, <3>2, <4>1, FromAppend DEF InHand
    <3>4. /\ Len(t.got) = Len(s.got) + 1 /\ Len(t.outbox) = Len(s.outbox) - 1
          /\ Len(t.held) = Len(s.held) /\ Len(t.inbox) = Len(s.inbox)
      <4>1. Head(s.outbox) \in Frame
        BY <1>2, <3>1, FrameSequences
      <4> QED
        BY <1>2, <3>1, <4>1, FrameSequences
    <3>5. InHand(t)
      BY <3>1, <3>2, <3>3, <3>4 DEF InHand
    <3>6. ASSUME OnTheWay(s) PROVE OnTheWay(t)
      <4>1. Len(t.got) = g + 1 /\ Len(t.outbox) = o - 1 /\ Len(t.held) = h /\ Len(t.inbox) = i
        BY <3>4 DEF g, o, h, i
      <4>2. (g + 1) + (o - 1) = g + o
        BY <1>nat
      <4> QED
        BY <1>way, <3>1, <3>6, <4>1, <4>2 DEF OnTheWay
    <3> QED
      BY <1>3, <3>5, <3>6
  <2>2. CASE e # d
    BY <1>1, <1>5, <1>6, <1>12, <2>2, ReadsStream
  <2> QED
    BY <2>1, <2>2
<1>13. ASSUME NEW d \in Ends, Closes(d) PROVE InHand(t) /\ (Lasts(e)' => OnTheWay(t))
  <2>1. CASE e = FarEnd(d)
    <3>1. t.outbox = <<>> /\ t.got = s.got
      BY <1>1, <1>13, <2>1, ClosesStream DEF s, t
    <3>2. ~Lasts(e)'
      <4>1. FarEnd(e) = d
        BY <2>1, EndFacts
      <4>2. d \in gone'
        BY <1>13 DEF Closes
      <4> QED
        BY <4>1, <4>2 DEF Lasts
    <3> QED
      BY <1>3, <3>1, <3>2, FromEmpty DEF InHand
  <2>2. CASE e # FarEnd(d)
    BY <1>1, <1>5, <1>6, <1>13, <2>2, ClosesStream
  <2> QED
    BY <2>1, <2>2
<1>14. ASSUME stream' = stream PROVE InHand(t) /\ (Lasts(e)' => OnTheWay(t))
  BY <1>5, <1>14 DEF s, t
<1> QED
  <2>1. CASE \E c \in Clients : UpgradeBackend(c) \/ Receive(c) \/ Send(c) \/ Leave(c)
    BY <2>1, <1>7, <1>8, <1>9, <1>10
  <2>2. CASE \E d \in Ends : Writes(d) \/ Reads(d) \/ Closes(d)
    BY <2>2, <1>11, <1>12, <1>13
  <2> QED
    BY <2>1, <2>2, <1>1, <1>14, OtherStreams

\* The order of the frames is an invariant, whatever threads and ends do.
LEMMA OrderInvariant == Spec => []Order
<1>1. Init => Order
  <2> SUFFICES ASSUME Init, NEW e \in Ends PROVE InOrder(e)
    BY DEF Order
  <2>1. stream[e] = Empty
    BY DEF Init
  <2>2. /\ Empty.sent = 0 /\ Empty.inbox = <<>> /\ Empty.held = <<>> /\ Empty.outbox = <<>>
        /\ Empty.got = <<>> /\ Len(<<>>) = 0
    BY DEF Empty
  <2> QED
    BY <2>1, <2>2, FromEmpty DEF InOrder, InHand, OnTheWay
<1>2. Typed /\ Order /\ [Next]_vars => Order'
  <2> SUFFICES ASSUME Typed, Order, [Next]_vars, NEW e \in Ends, Intact(e)' PROVE InOrder(e)'
    BY DEF Order
  <2> QED
    BY OrderKept DEF Intact
<1> QED
  BY <1>1, <1>2, TypedInvariant, PTL DEF Spec

\* What is numbered from 1 is the first frames, in order.
LEMMA FirstFrames ==
  ASSUME NEW s \in Seq(Frame), From(s, 0)
  PROVE  s = [i \in DOMAIN s |-> i]
<1>1. DOMAIN s = 1..Len(s) /\ Len(s) \in Nat /\ s = [i \in 1..Len(s) |-> s[i]]
  OBVIOUS
<1>2. \A i \in 1..Len(s) : s[i] = i
  BY DEF From
<1> QED
  BY <1>1, <1>2

\* What a backend has received is the first frames its client sent, in order,
\* none missing, none twice, whatever the backend does.
THEOREM BackendsReceiveInOrder ==
  Spec => [](\A c \in Clients : stream[C(c)].got = [i \in DOMAIN stream[C(c)].got |-> i])
<1>1. Typed /\ Order => \A c \in Clients : stream[C(c)].got = [i \in DOMAIN stream[C(c)].got |-> i]
  <2> SUFFICES ASSUME Typed, Order, NEW c \in Clients
               PROVE  stream[C(c)].got = [i \in DOMAIN stream[C(c)].got |-> i]
    OBVIOUS
  <2>1. C(c) \in Ends /\ Intact(C(c))
    BY EndFacts DEF Intact
  <2>2. From(stream[C(c)].got, 0)
    BY <2>1 DEF Order, InOrder, InHand
  <2>3. stream[C(c)].got \in Seq(Frame)
    BY <2>1, StreamFields DEF Typed, Streams
  <2> QED
    BY <2>2, <2>3, FirstFrames
<1> QED
  BY <1>1, TypedInvariant, OrderInvariant, PTL

\* Both sides receive the first frames the other sent, in order, if backends wait
\* until they are spoken to.
THEOREM RelayKeepsOrder ==
  ASSUME BackendSpeaksFirst = FALSE
  PROVE  Spec => []RelaysInOrder
<1>1. Typed /\ Order => RelaysInOrder
  <2> SUFFICES ASSUME Typed, Order, NEW e \in Ends
               PROVE  stream[e].got = [i \in DOMAIN stream[e].got |-> i]
    BY DEF RelaysInOrder
  <2>1. Intact(e)
    BY DEF Intact
  <2>2. From(stream[e].got, 0)
    BY <2>1 DEF Order, InOrder, InHand
  <2>3. stream[e].got \in Seq(Frame)
    BY StreamFields DEF Typed, Streams
  <2> QED
    BY <2>2, <2>3, FirstFrames
<1> QED
  BY <1>1, TypedInvariant, OrderInvariant, PTL

-----------------------------------------------------------------------------
(***************************************************************************)
(* WebSocketProxy implements FrameRelay.                                   *)
(***************************************************************************)
\* What was sent to an end that has closed is gone, and nothing is added to it.
Lost == \A e \in Ends : FarEnd(e) \in gone => stream[e].outbox = <<>>

\* A closed end has nothing left to read until its connection is over.
LEMMA LostInvariant == Spec => []Lost
<1>1. Init => Lost
  BY DEF Init, Lost
<1>2. Typed /\ Lost /\ [Next]_vars => Lost'
  <2> SUFFICES ASSUME Typed, Lost, [Next]_vars, NEW e \in Ends, FarEnd(e) \in gone'
               PROVE  stream'[e].outbox = <<>>
    BY DEF Lost
  <2> DEFINE Same == stream'[e].outbox = stream[e].outbox
  <2>1. Streams /\ Buffers
    BY DEF Typed
  <2>2. CASE \E d \in Ends : Closes(d)
    <3>1. PICK d \in Ends : Closes(d)
      BY <2>2
    <3>2. CASE e = FarEnd(d)
      BY <2>1, <3>1, <3>2, ClosesStream
    <3>3. CASE e # FarEnd(d)
      <4>1. stream'[e] = stream[e]
        BY <2>1, <3>1, <3>3, ClosesStream DEF OnlyStreamOf
      <4>2. FarEnd(FarEnd(e)) = e
        BY EndFacts
      <4>3. FarEnd(e) \in gone
        BY <3>1, <3>3, <4>2 DEF Closes
      <4> QED
        BY <4>1, <4>3 DEF Lost
    <3> QED
      BY <3>2, <3>3
  <2>3. CASE ~\E d \in Ends : Closes(d)
    <3>1. FarEnd(e) \in gone
      BY <2>3 DEF Next, Start, StartFails, Stop, StopListener, Unlisten, JoinListener,
         JoinConnections, AcceptLoop, CheckRunning, Accept, AcceptFails, Spawn, HandleConnection,
         Enter, ParseUpgradeRequest, ConnectToBackend, UpgradeBackend, Refuse, Relay, Select,
         Receive, EndRelay, Send, SendFails, Leave, Peers, ClientConnects, ClientAsks,
         BackendAnswers, Writes, Reads, vars, shared, peers
    <3>2. stream[e].outbox = <<>>
      BY <3>1 DEF Lost
    <3>3. ASSUME NEW c \in Clients, UpgradeBackend(c) PROVE Same
      BY <2>1, <3>3, UpgradeBackendStream, EndFacts DEF OnlyStreamOf
    <3>4. ASSUME NEW c \in Clients, Receive(c) PROVE Same
      BY <2>1, <3>4, ReceiveStream DEF OnlyStreamOf
    <3>5. ASSUME NEW c \in Clients, Send(c) PROVE stream'[e].outbox = <<>>
      <4>1. CASE e = Source(c)
        <5>1. FarEnd(e) = Target(c)
          BY <4>1, EndFacts DEF Source, Target
        <5> QED
          BY <2>1, <3>1, <3>5, <4>1, <5>1, SendStream, SendsWhatItHolds
      <4>2. CASE e # Source(c)
        BY <2>1, <3>2, <3>5, <4>2, SendStream, SendsWhatItHolds DEF OnlyStreamOf
      <4> QED
        BY <4>1, <4>2
    <3>6. ASSUME NEW c \in Clients, Leave(c) PROVE Same
      <4>1. stream[e] \in Stream
        BY <2>1 DEF Streams
      <4> QED
        BY <2>1, <3>6, <4>1, LeaveStreams, AbandonedStream
    <3>7. ASSUME NEW d \in Ends, Writes(d) PROVE Same
      BY <2>1, <3>7, WritesStream DEF OnlyStreamOf
    <3>8. ASSUME NEW d \in Ends, Reads(d) PROVE Same
      <4>1. d # e
        BY <3>1, <3>8 DEF Reads
      <4> QED
        BY <2>1, <3>8, <4>1, ReadsStream DEF OnlyStreamOf
    <3> QED
      BY <2>1, <2>3, <3>2, <3>3, <3>4, <3>5, <3>6, <3>7, <3>8, OtherStreams
  <2> QED
    BY <2>2, <2>3
<1> QED
  BY <1>1, <1>2, TypedInvariant, PTL DEF Spec

\* What a step that changes one stream does to FrameRelay's variables.
LEMMA OneStreamMoves ==
  ASSUME Streams, NEW e \in Ends, OnlyStreamOf(e)
  PROVE  LET t == stream'[e]
         IN  /\ Written' = [Written EXCEPT ![e] = t.sent]
             /\ Passed' = [Passed EXCEPT ![e] = Len(t.got) + Len(t.outbox)]
             /\ Received' = [Received EXCEPT ![e] = t.got]
<1>1. \A d \in Ends : d # e => stream'[d] = stream[d]
  BY DEF OnlyStreamOf
<1> QED
  BY <1>1 DEF Written, Passed, Received

\* A step that moves no frame from one side to the other is none of its concern.
LEMMA NoStreamMoves ==
  ASSUME \A e \in Ends : /\ stream'[e].sent = stream[e].sent
                         /\ stream'[e].outbox = stream[e].outbox
                         /\ stream'[e].got = stream[e].got
  PROVE  UNCHANGED <<Written, Passed, Received>>
BY DEF Written, Passed, Received

\* What a step of one thread does to the phase of its connection.
LEMMA OneThreadMoves ==
  ASSUME NEW c \in Clients, \A d \in Clients : d # c => pc'[d] = pc[d]
  PROVE  /\ Phases' = [Phases EXCEPT ![c] = Phase(pc'[c])]
         /\ Phase(pc'[c]) = Phase(pc[c]) => Phases' = Phases
<1>1. Phases' = [Phases EXCEPT ![c] = Phase(pc'[c])]
  BY DEF Phases
<1>2. ASSUME Phase(pc'[c]) = Phase(pc[c]) PROVE Phases' = Phases
  <2>1. \A d \in Clients : Phase(pc'[d]) = Phase(pc[d])
    BY <1>2
  <2> QED
    BY <2>1 DEF Phases
<1> QED
  BY <1>1, <1>2

\* A frame handed to the far end is one that was written and had not passed; one sent
\* after the far end closed passes nowhere.
LEMMA SendPasses ==
  ASSUME Typed, Order, Lost, BackendSpeaksFirst = FALSE, NEW c \in Clients, Send(c)
  PROVE  Promise!Pass(Source(c)) \/ UNCHANGED <<Phases, Written, Passed, Received>>
<1> DEFINE e == Source(c)
           s == stream[e]
           t == stream'[e]
<1>1. Streams /\ Buffers /\ pc \in [Clients -> Stage]
  BY DEF Typed, TypeOK
<1>2. /\ e \in Ends /\ OnlyStreamOf(e)
      /\ s.held # <<>> /\ t.sent = s.sent /\ t.got = s.got
      /\ Target(c) \in gone => t.outbox = <<>>
      /\ Target(c) \notin gone => t.outbox = Append(s.outbox, Head(s.held))
  BY <1>1, SendStream, SendsWhatItHolds
<1>3. e[1] = c /\ FarEnd(e) = Target(c)
  BY EndFacts DEF Source, Target
<1>4. /\ Len(s.got) \in Nat /\ Len(s.outbox) \in Nat /\ Len(s.held) \in Nat \ {0}
      /\ Len(s.inbox) \in Nat
      /\ s.outbox \in Seq(Frame) /\ Head(s.held) \in Frame
  <2>1. s \in Stream
    BY <1>1, <1>2 DEF Streams
  <2>2. s.held \in Seq(Frame) /\ s.held # <<>>
    BY <1>2, <2>1, StreamFields
  <2> HIDE DEF s
  <2>3. Len(s.held) \in Nat \ {0} /\ Head(s.held) \in Frame
    BY <2>2
  <2> QED
    BY <2>1, <2>3, StreamFields, FrameSequences
<1>here. s = stream[e] /\ t = stream'[e]
  OBVIOUS
<1> HIDE DEF s, t
<1>5. pc[c] \in {"toBackend", "toClient"} /\ pc'[c] \notin {"none", "done"}
  BY <1>1 DEF Send, Goto, NextTurn
<1>6. Phase(pc[c]) = "open" /\ UNCHANGED Phases /\ UNCHANGED main
  <2>1. \A d \in Clients : d # c => pc'[d] = pc[d]
    BY <1>1 DEF Send, Goto
  <2> QED
    BY <1>5, <2>1, OneThreadMoves DEF Phase, Send, listening
<1>7. /\ Written' = [Written EXCEPT ![e] = t.sent]
      /\ Passed' = [Passed EXCEPT ![e] = Len(t.got) + Len(t.outbox)]
      /\ Received' = [Received EXCEPT ![e] = t.got]
  BY <1>1, <1>2, <1>here, OneStreamMoves
<1>8. /\ Written[e] = s.sent /\ Passed[e] = Len(s.got) + Len(s.outbox) /\ Received[e] = s.got
      /\ Written = [d \in Ends |-> Written[d]] /\ Passed = [d \in Ends |-> Passed[d]]
      /\ Received = [d \in Ends |-> Received[d]]
  BY <1>2, <1>here DEF Written, Passed, Received
<1>9. Written' = Written /\ Received' = Received
  BY <1>2, <1>7, <1>8
<1>10. CASE Target(c) \in gone
  <2>1. t.outbox = s.outbox
    BY <1>2, <1>3, <1>10, <1>here DEF Lost
  <2>2. Passed' = Passed
    BY <1>2, <1>7, <1>8, <2>1
  <2> QED
    BY <1>6, <1>9, <2>2
<1>11. CASE Target(c) \notin gone
  <2>1. s.sent = Len(s.got) + Len(s.outbox) + Len(s.held) + Len(s.inbox)
    <3>1. Lasts(e) /\ Intact(e)
      BY <1>3, <1>5, <1>11 DEF Lasts, Intact
    <3> QED
      BY <1>2, <1>here, <3>1 DEF Order, InOrder, OnTheWay
  <2> DEFINE g == Len(s.got)
             o == Len(s.outbox)
             h == Len(s.held)
             i == Len(s.inbox)
  <2>num. g \in Nat /\ o \in Nat /\ h \in Nat \ {0} /\ i \in Nat
    BY <1>4
  <2>2. Passed[e] < Written[e]
    <3>1. Written[e] = g + o + h + i /\ Passed[e] = g + o
      BY <1>8, <2>1
    <3>2. g + o < g + o + h + i
      <4> HIDE DEF g, o, h, i
      <4> QED
        BY <2>num
    <3> QED
      BY <3>1, <3>2
  <2>3. Len(t.outbox) = Len(s.outbox) + 1
    BY <1>2, <1>4, <1>11, FrameSequences
  <2>4. Len(t.got) + Len(t.outbox) = Passed[e] + 1
    <3>1. Passed[e] = g + o /\ Len(t.got) = g /\ Len(t.outbox) = o + 1
      BY <1>2, <1>8, <2>3
    <3>2. g + (o + 1) = (g + o) + 1
      <4> HIDE DEF g, o
      <4> QED
        BY <2>num
    <3> QED
      BY <3>1, <3>2
  <2>5. Passed' = [Passed EXCEPT ![e] = @ + 1]
    BY <1>7, <2>4
  <2>6. Phases[e[1]] = "open"
    BY <1>3, <1>6 DEF Phases
  <2> QED
    BY <1>6, <1>9, <2>2, <2>5, <2>6 DEF Promise!Pass
<1> QED
  BY <1>10, <1>11

\* Every step of the proxy and its peers is a step of FrameRelay, or none of its
\* concern, if backends wait until they are spoken to.
THEOREM ProxyImplementsRelay ==
  ASSUME BackendSpeaksFirst = FALSE
  PROVE  Spec => ImplementsRelay
<1>1. Init => Promise!Init
  <2> SUFFICES ASSUME Init PROVE Promise!Init
    OBVIOUS
  <2>1. \A e \in Ends : stream[e].sent = 0 /\ stream[e].outbox = <<>> /\ stream[e].got = <<>>
    BY DEF Init, Empty
  <2>2. Written = [e \in Ends |-> 0] /\ Received = [e \in Ends |-> <<>>]
    BY <2>1 DEF Written, Received
  <2>3. Passed = [e \in Ends |-> 0]
    <3>1. ASSUME NEW e \in Ends PROVE Len(stream[e].got) + Len(stream[e].outbox) = 0
      <4> DEFINE g == Len(stream[e].got)
                 o == Len(stream[e].outbox)
      <4>1. g = 0 /\ o = 0
        BY <2>1, FrameSequences
      <4> HIDE DEF g, o
      <4>2. g + o = 0
        BY <4>1
      <4> QED
        BY <4>2 DEF g, o
    <3> QED
      BY <3>1 DEF Passed
  <2>4. Phases = [c \in Clients |-> "away"]
    BY DEF Init, Phases, Phase
  <2> QED
    BY <2>2, <2>3, <2>4 DEF Init, Promise!Init
<1>2. Typed /\ Owned /\ Joined /\ Order /\ Lost /\ [Next]_vars
        => [Promise!Next]_(Promise!relayVars)
  <2> SUFFICES ASSUME Typed, Owned, Joined, Order, Lost, [Next]_vars
               PROVE  \/ Promise!Next
                      \/ UNCHANGED <<main = "stopped", Phases, Written, Passed, Received>>
    BY DEF Promise!relayVars
  <2>1. Streams /\ Arrived /\ pc \in [Clients -> Stage]
    BY DEF Typed, TypeOK
  <2>2. stream' = stream => UNCHANGED <<Written, Passed, Received>>
    BY DEF Written, Passed, Received
  <2>3. pc' = pc => UNCHANGED Phases
    BY DEF Phases
  <2>4. CASE Start \/ StartFails \/ Stop \/ Unlisten \/ JoinListener \/ CheckRunning \/ AcceptFails
    BY <2>2, <2>3, <2>4 DEF Start, StartFails, Stop, Unlisten, JoinListener, CheckRunning,
       AcceptFails, threads
  <2>5. CASE JoinConnections
    <3>1. \A c \in Clients : Phases[c] # "open"
      BY <2>1, <2>5 DEF JoinConnections, Joined, Phases, Phase
    <3> QED
      BY <2>2, <2>3, <2>5, <3>1 DEF JoinConnections, Promise!Stop, Promise!Next
  <2>6. ASSUME NEW c \in Clients, Accept(c) PROVE Promise!Open(c)
    <3>1. main # "stopped" /\ pc[c] = "none"
      BY <2>1, <2>6 DEF Accept, Joined, Arrived
    <3>2. Phases' = [Phases EXCEPT ![c] = "open"]
      <4>1. pc'[c] = "accepted" /\ \A d \in Clients : d # c => pc'[d] = pc[d]
        BY <2>1, <2>6 DEF Accept, Goto
      <4> QED
        BY <4>1, OneThreadMoves DEF Phase
    <3>3. Phases[c] = "away"
      BY <3>1 DEF Phases, Phase
    <3> QED
      BY <2>2, <2>6, <3>1, <3>2, <3>3 DEF Accept, Promise!Open
  <2>7. ASSUME NEW c \in Clients, Spawn(c)
        PROVE  UNCHANGED <<main, Phases, Written, Passed, Received>>
    <3>1. Phase(pc'[c]) = Phase(pc[c]) /\ \A d \in Clients : d # c => pc'[d] = pc[d]
      BY <2>1, <2>7 DEF Spawn, Goto, Phase
    <3> QED
      BY <2>2, <2>7, <3>1, OneThreadMoves DEF Spawn
  <2>8. ASSUME NEW c \in Clients, Leave(c) PROVE Promise!End(c)
    <3>1. pc[c] = "leave" /\ pc'[c] = "done" /\ \A d \in Clients : d # c => pc'[d] = pc[d]
      BY <2>1, <2>8 DEF Leave, Goto
    <3>2. Phases[c] = "open" /\ Phases' = [Phases EXCEPT ![c] = "over"]
      BY <3>1, OneThreadMoves DEF Phases, Phase
    <3>3. \A e \in Ends : stream[e] \in Stream
      BY <2>1 DEF Streams
    <3>4. UNCHANGED <<Written, Passed, Received>>
      BY <2>1, <2>8, <3>3, LeaveStreams, AbandonedStream, NoStreamMoves
    <3> QED
      BY <2>8, <3>2, <3>4 DEF Leave, listening, Promise!End
  <2>9. ASSUME NEW c \in Clients, HandleConnection(c), ~Leave(c), ~Send(c)
        PROVE  UNCHANGED <<main, Phases, Written, Passed, Received>>
    <3>1. \A d \in Clients : d # c => pc'[d] = pc[d]
      BY <2>9, OthersAreLeftAlone
    <3>2. pc[c] \notin {"none", "done"} /\ pc'[c] \notin {"none", "done"} /\ main' = main
      BY <2>1, <2>9 DEF HandleConnection, Enter, ParseUpgradeRequest, ConnectToBackend,
         UpgradeBackend, Refuse, Relay, Select, Receive, EndRelay, SendFails, WriteError, Goto,
         shared, listening
    <3>3. UNCHANGED Phases
      BY <3>1, <3>2, OneThreadMoves DEF Phase
    <3>4. UNCHANGED <<Written, Passed, Received>>
      <4>1. CASE UpgradeBackend(c)
        BY <2>1, <4>1, UpgradeBackendStream, NoStreamMoves DEF OnlyStreamOf
      <4>2. CASE Receive(c)
        BY <2>1, <4>2, ReceiveStream, NoStreamMoves DEF OnlyStreamOf
      <4>3. CASE ~UpgradeBackend(c) /\ ~Receive(c)
        BY <2>2, <2>9, <4>3 DEF HandleConnection, Enter, ParseUpgradeRequest, ConnectToBackend,
           Refuse, Relay, Select, EndRelay, SendFails, shared
      <4> QED
        BY <4>1, <4>2, <4>3
    <3> QED
      BY <3>2, <3>3, <3>4
  <2>10. ASSUME NEW c \in Clients, Send(c)
         PROVE  \/ \E e \in Ends : Promise!Pass(e)
                \/ UNCHANGED <<main, Phases, Written, Passed, Received>>
    <3>1. Source(c) \in Ends /\ main' = main
      BY <2>10, EndFacts DEF Source, Send, listening
    <3> QED
      BY <2>10, <3>1, SendPasses
  <2>11. ASSUME NEW e \in Ends, Writes(e) PROVE Promise!Write(e)
    <3>1. Phases[e[1]] = "open"
      <4>1. PICK f \in FDs : table[f] = e
        BY <2>11 DEF Writes, IsOpen
      <4>2. fd[e] = f /\ f # None
        BY <4>1, NoneIsNoDescriptor, ProxyAssumption DEF Owned, Recorded
      <4>3. e[1] \in Clients /\ pc[e[1]] \notin {"none", "done"}
        BY <4>2, EndFacts DEF Owned, Records
      <4> QED
        BY <4>3 DEF Phases, Phase
    <3>2. /\ OnlyStreamOf(e) /\ stream'[e].sent = stream[e].sent + 1
          /\ stream'[e].outbox = stream[e].outbox /\ stream'[e].got = stream[e].got
      BY <2>1, <2>11, WritesStream
    <3>3. Written' = [Written EXCEPT ![e] = @ + 1]
      BY <2>1, <3>2, OneStreamMoves DEF Written
    <3>4. UNCHANGED <<Passed, Received>>
      BY <2>1, <3>2 DEF Passed, Received, OnlyStreamOf
    <3> QED
      BY <2>3, <2>11, <3>1, <3>3, <3>4 DEF Writes, listening, threads, Promise!Write
  <2>12. ASSUME NEW e \in Ends, Reads(e) PROVE Promise!Receive(e)
    <3> DEFINE s == stream[e]
               t == stream'[e]
    <3>1. /\ OnlyStreamOf(e) /\ s.outbox # <<>> /\ t.sent = s.sent
          /\ t.outbox = Tail(s.outbox) /\ t.got = Append(s.got, Head(s.outbox))
      BY <2>1, <2>12, ReadsStream
    <3>2. s.outbox \in Seq(Frame) /\ s.got \in Seq(Frame)
      BY <2>1, StreamFields DEF Streams
    <3>3. From(s.outbox, Len(s.got))
      BY DEF Order, Intact, InOrder, InHand
    <3> HIDE DEF s, t
    <3>4. /\ Len(s.got) \in Nat /\ Len(s.outbox) \in Nat \ {0}
          /\ Len(Tail(s.outbox)) = Len(s.outbox) - 1
      BY <3>1, <3>2
    <3>5. Head(s.outbox) = Len(s.got) + 1 /\ Head(s.outbox) \in Frame
      BY <3>1, <3>2, <3>3, <3>4, FromTail
    <3> DEFINE g == Len(s.got)
               o == Len(s.outbox)
    <3>num. g \in Nat /\ o \in Nat \ {0}
      BY <3>4
    <3>6. Len(t.got) + Len(t.outbox) = g + o
      <4>1. Len(t.got) = g + 1
        BY <3>1, <3>2, <3>5, FrameSequences
      <4>2. Len(t.outbox) = o - 1
        BY <3>1, <3>4
      <4> HIDE DEF g, o
      <4>3. (g + 1) + (o - 1) = g + o
        BY <3>num
      <4> QED
        BY <4>1, <4>2, <4>3
    <3>7. UNCHANGED <<Written, Passed>>
      BY <3>1, <3>6 DEF Written, Passed, OnlyStreamOf, s, t
    <3>8. Received[e] = s.got /\ Passed[e] = Len(s.got) + Len(s.outbox)
      BY DEF Received, Passed, s
    <3>9. Received' = [Received EXCEPT ![e] = Append(@, Len(@) + 1)]
      <4>1. Received' = [Received EXCEPT ![e] = t.got]
        BY <2>1, <3>1, OneStreamMoves DEF t
      <4> QED
        BY <3>1, <3>5, <3>8, <4>1
    <3>10. Len(Received[e]) < Passed[e]
      <4>1. g < g + o
        <5> HIDE DEF g, o
        <5> QED
          BY <3>num
      <4> QED
        BY <3>8, <4>1
    <3> QED
      BY <2>3, <2>12, <3>7, <3>9, <3>10 DEF Reads, listening, threads, Promise!Receive
  <2>13. ASSUME NEW e \in Ends, Closes(e) PROVE Promise!Lose(FarEnd(e))
    <3> DEFINE g == FarEnd(e)
    <3>1. /\ g \in Ends /\ OnlyStreamOf(g) /\ stream'[g].sent = stream[g].sent
          /\ stream'[g].outbox = <<>> /\ stream'[g].got = stream[g].got
      BY <2>1, <2>13, ClosesStream
    <3> HIDE DEF g
    <3>2. UNCHANGED <<Written, Received>>
      BY <3>1 DEF Written, Received, OnlyStreamOf
    <3>3. Len(stream'[g].got) + Len(stream'[g].outbox) = Len(Received[g])
      <4>1. Received[g] = stream[g].got /\ Len(stream[g].got) \in Nat
        <5>1. stream[g].got \in Seq(Frame)
          BY <2>1, <3>1, StreamFields DEF Streams
        <5> QED
          BY <3>1, <5>1 DEF Received
      <4>2. stream'[g].got = stream[g].got /\ stream'[g].outbox = <<>> /\ Len(<<>>) = 0
        BY <3>1
      <4> QED
        BY <4>1, <4>2
    <3>4. Passed' = [Passed EXCEPT ![g] = Len(Received[g])]
      BY <2>1, <3>1, <3>3, OneStreamMoves
    <3> QED
      BY <2>3, <2>13, <3>2, <3>4 DEF Closes, listening, threads, Promise!Lose, g
  <2>14. ASSUME NEW c \in Clients, ClientConnects(c) \/ ClientAsks(c) \/ BackendAnswers(c)
         PROVE  UNCHANGED <<main, Phases, Written, Passed, Received>>
    BY <2>2, <2>3, <2>14 DEF ClientConnects, ClientAsks, BackendAnswers, listening, threads
  <2>15. CASE UNCHANGED vars
    BY <2>2, <2>3, <2>15 DEF vars, listening, threads
  <2>16. \A e \in Ends : FarEnd(e) \in Ends
    BY EndFacts
  <2> QED
    BY <2>4, <2>5, <2>6, <2>7, <2>8, <2>9, <2>10, <2>11, <2>12, <2>13, <2>14, <2>15, <2>16
       DEF Next, StopListener, AcceptLoop, Peers, Promise!Next
<1> QED
  BY <1>1, <1>2, TypedInvariant, OwnedInvariant, JoinedInvariant, OrderInvariant, LostInvariant,
     PTL DEF Spec, ImplementsRelay, Promise!Spec

-----------------------------------------------------------------------------
(***************************************************************************)
(* The circuit breaker of ProxyManager.                                    *)
(***************************************************************************)
\* A saturating increment stays in range.
LEMMA CappedInRange ==
  ASSUME NEW cap \in Nat, NEW n \in 0..cap
  PROVE  Capped(n, cap) \in 0..cap
BY DEF Capped

\* The types of the variables, which also say that the counters stay within
\* their bounds: ProxyManager's BackendHealth under every interleaving.
THEOREM BreakerTypeCorrect == BreakerSpec => []BreakerTypeOK
<1>1. BreakerInit => BreakerTypeOK
  BY BreakerAssumption DEF BreakerInit, BreakerTypeOK, CircuitState, HealthStatus, Place
<1>2. BreakerTypeOK /\ [BreakerNext]_breakerVars => BreakerTypeOK'
  <2> SUFFICES ASSUME BreakerTypeOK, [BreakerNext]_breakerVars PROVE BreakerTypeOK'
    OBVIOUS
  <2> USE BreakerAssumption DEF BreakerTypeOK, CircuitState, HealthStatus, Place
  <2>1. ASSUME NEW r \in Requests, NEW b \in Backends, Admit(r, b) PROVE BreakerTypeOK'
    BY <2>1 DEF Admit, HalfOpen, history
  <2>2. ASSUME NEW r \in Requests, NEW b \in Backends, RefuseOpen(r, b) PROVE BreakerTypeOK'
    BY <2>2 DEF RefuseOpen, breaker, history
  <2>3. ASSUME NEW r \in Requests, Answer(r) PROVE BreakerTypeOK'
    BY <2>3 DEF Answer, breaker
  <2>4. ASSUME NEW r \in Requests, NotSendable(r) PROVE BreakerTypeOK'
    BY <2>4 DEF NotSendable, breaker, history
  <2>5. ASSUME NEW r \in Requests, RecordSuccess(r) PROVE BreakerTypeOK'
    BY <2>5 DEF RecordSuccess, history
  <2>6. ASSUME NEW r \in Requests, CountFailure(r) PROVE BreakerTypeOK'
    BY <2>6, CappedInRange DEF CountFailure
  <2>7. ASSUME NEW r \in Requests, OpenCircuit(r) PROVE BreakerTypeOK'
    BY <2>7, CappedInRange DEF OpenCircuit, StartRest
  <2>8. ASSUME NEW b \in Backends, HealthCheck(b) PROVE BreakerTypeOK'
    BY <2>8 DEF HealthCheck, history
  <2>9. ASSUME NEW b \in Backends, Toggle(b) PROVE BreakerTypeOK'
    BY <2>9 DEF Toggle, breaker, history
  <2>10. CASE Tick
    BY <2>10, CappedInRange DEF Tick
  <2>11. CASE UNCHANGED breakerVars
    BY <2>11 DEF breakerVars, breaker, history
  <2> QED
    BY <2>1, <2>2, <2>3, <2>4, <2>5, <2>6, <2>7, <2>8, <2>9, <2>10, <2>11
       DEF BreakerNext, Forward
<1> QED
  BY <1>1, <1>2, PTL DEF BreakerSpec

-----------------------------------------------------------------------------
(***************************************************************************)
(* The two invariants are inductive given the types. A circuit becomes     *)
(* CLOSED only with the count at 0, and a failure that leaves it CLOSED    *)
(* leaves the count below the threshold; opening sets both clocks of the   *)
(* backend to 0, and they advance together.                                *)
(***************************************************************************)
BreakerInv == BreakerTypeOK /\ ClosedBelowThreshold /\ RestCoversQuiet

\* No step of a thread or of the clock breaks the two invariants.
LEMMA BreakerInvariant == BreakerSpec => []BreakerInv
<1>1. BreakerInit => ClosedBelowThreshold /\ RestCoversQuiet
  BY BreakerAssumption DEF BreakerInit, ClosedBelowThreshold, RestCoversQuiet
<1>2. /\ BreakerTypeOK /\ BreakerTypeOK' /\ ClosedBelowThreshold /\ RestCoversQuiet
      /\ [BreakerNext]_breakerVars
      => ClosedBelowThreshold' /\ RestCoversQuiet'
  <2> SUFFICES ASSUME BreakerTypeOK, BreakerTypeOK', ClosedBelowThreshold, RestCoversQuiet,
                      [BreakerNext]_breakerVars
               PROVE  ClosedBelowThreshold' /\ RestCoversQuiet'
    OBVIOUS
  <2> USE BreakerAssumption
      DEF BreakerTypeOK, CircuitState, ClosedBelowThreshold, RestCoversQuiet
  <2>1. ASSUME NEW r \in Requests, NEW b \in Backends, Admit(r, b)
        PROVE  ClosedBelowThreshold' /\ RestCoversQuiet'
    BY <2>1 DEF Admit, HalfOpen, history
  <2>2. ASSUME NEW r \in Requests, RecordSuccess(r)
        PROVE  ClosedBelowThreshold' /\ RestCoversQuiet'
    BY <2>2 DEF RecordSuccess, ClosesFrom, history
  <2>3. ASSUME NEW r \in Requests, CountFailure(r)
        PROVE  ClosedBelowThreshold' /\ RestCoversQuiet'
    BY <2>3 DEF CountFailure, Trips
  <2>4. ASSUME NEW r \in Requests, OpenCircuit(r)
        PROVE  ClosedBelowThreshold' /\ RestCoversQuiet'
    BY <2>4 DEF OpenCircuit, StartRest
  <2>5. CASE Tick
    BY <2>5 DEF Tick, Capped
  <2>6. ASSUME UNCHANGED <<circuit_state, failure_count, opened_for, quiet_for>>
        PROVE  ClosedBelowThreshold' /\ RestCoversQuiet'
    BY <2>6
  <2> QED
    BY <2>1, <2>2, <2>3, <2>4, <2>5, <2>6
       DEF BreakerNext, Forward, RefuseOpen, Answer, NotSendable, HealthCheck, Toggle,
           breakerVars, breaker, history
<1> QED
  BY <1>1, <1>2, BreakerTypeCorrect, PTL DEF BreakerSpec, BreakerInv

\* A closed circuit has counted fewer failures than the threshold, in
\* whatever order recordSuccess and recordFailure of concurrent requests run.
THEOREM ClosedIsBelowThreshold == BreakerSpec => []ClosedBelowThreshold
BY BreakerInvariant, PTL DEF BreakerInv

\* The rest of an open circuit is never shorter than its backend has gone
\* without a recorded failure.
THEOREM RestCoversQuietPeriod == BreakerSpec => []RestCoversQuiet
BY BreakerInvariant, PTL DEF BreakerInv

-----------------------------------------------------------------------------
\* forwardRequest answers "Circuit breaker open" only within RecoveryTimeout
\* of a failure of that backend.
THEOREM RefusalFollowsFailure == BreakerSpec => RefusalNeedsRecentFailure
<1> DEFINE Refusal(r) == place[r] # "refused" /\ place'[r] = "refused"
                           => quiet_for[target'[r]] < RecoveryTimeout
<1>1. BreakerInv /\ [BreakerNext]_breakerVars => [\A r \in Requests : Refusal(r)]_breakerVars
  <2> SUFFICES ASSUME BreakerInv, BreakerNext, NEW r \in Requests,
                      place[r] # "refused", place'[r] = "refused"
               PROVE  quiet_for[target'[r]] < RecoveryTimeout
    BY DEF breakerVars
  <2> USE DEF BreakerInv, BreakerTypeOK
  <2>1. PICK b \in Backends : RefuseOpen(r, b)
    BY DEF BreakerNext, Forward, Admit, RefuseOpen, Answer, NotSendable, RecordSuccess,
           CountFailure, OpenCircuit, HealthCheck, Tick, Toggle
  <2>2. /\ circuit_state[b] = "OPEN"
        /\ opened_for[b] < RecoveryTimeout
        /\ target'[r] = b
    BY <2>1, BreakerAssumption DEF RefuseOpen, Rested
  <2>3. quiet_for[b] <= opened_for[b]
    BY <2>2 DEF RestCoversQuiet
  <2> QED
    BY <2>2, <2>3, BreakerAssumption
<1> QED
  BY <1>1, BreakerInvariant, PTL DEF BreakerSpec, RefusalNeedsRecentFailure

\* While a circuit stays open, no request joins those in flight.
THEOREM OpenAdmitsNothing == BreakerSpec => OpenShedsLoad
<1> DEFINE Shed(b) == circuit_state[b] = "OPEN" /\ circuit_state'[b] = "OPEN"
                        => InFlight(b)' \subseteq InFlight(b)
<1>1. BreakerTypeOK /\ [BreakerNext]_breakerVars => [\A b \in Backends : Shed(b)]_breakerVars
  <2> SUFFICES ASSUME BreakerTypeOK, BreakerNext, NEW b \in Backends,
                      circuit_state[b] = "OPEN", circuit_state'[b] = "OPEN"
               PROVE  InFlight(b)' \subseteq InFlight(b)
    BY DEF breakerVars
  <2> USE DEF BreakerTypeOK, InFlight
  <2>1. ASSUME NEW r \in Requests, NEW c \in Backends, Admit(r, c)
        PROVE  InFlight(b)' \subseteq InFlight(b)
    <3>1. b # c
      BY <2>1 DEF Admit, HalfOpen
    <3> QED
      BY <2>1, <3>1 DEF Admit
  <2>2. ASSUME NEW r \in Requests, NEW c \in Backends, RefuseOpen(r, c)
        PROVE  InFlight(b)' \subseteq InFlight(b)
    BY <2>2 DEF RefuseOpen
  <2>3. ASSUME NEW r \in Requests,
               Answer(r) \/ NotSendable(r) \/ RecordSuccess(r)
                 \/ CountFailure(r) \/ OpenCircuit(r)
        PROVE  InFlight(b)' \subseteq InFlight(b)
    BY <2>3 DEF Answer, NotSendable, RecordSuccess, CountFailure, OpenCircuit
  <2>4. ASSUME Tick \/ \E c \in Backends : HealthCheck(c) \/ Toggle(c)
        PROVE  InFlight(b)' \subseteq InFlight(b)
    BY <2>4 DEF HealthCheck, Tick, Toggle
  <2> QED
    BY <2>1, <2>2, <2>3, <2>4 DEF BreakerNext, Forward
<1> QED
  BY <1>1, BreakerTypeCorrect, PTL DEF BreakerSpec, OpenShedsLoad

-----------------------------------------------------------------------------
(***************************************************************************)
(* The breaker implements CircuitPolicy: recording an outcome is the       *)
(* policy's Succeed, Endure or Trip, the admission that half-opens is its  *)
(* Probe, the clock is its Second, and everything else stutters.           *)
(***************************************************************************)
THEOREM BreakerImplementsPolicy == BreakerSpec => ImplementsPolicy
<1>1. BreakerInit => Policy!Init
  BY DEF BreakerInit, Policy!Init
<1>2. BreakerTypeOK /\ [BreakerNext]_breakerVars => [Policy!Next]_(Policy!policyVars)
  <2> SUFFICES ASSUME BreakerTypeOK, [BreakerNext]_breakerVars
               PROVE  Policy!Next \/ UNCHANGED Policy!policyVars
    OBVIOUS
  <2> USE BreakerAssumption DEF Policy!policyVars
  <2>1. ASSUME NEW r \in Requests, NEW b \in Backends, Admit(r, b)
        PROVE  Policy!Probe(b) \/ UNCHANGED Policy!policyVars
    <3>1. CASE circuit_state[b] = "OPEN"
      <4>1. opened_for[b] = RecoveryTimeout
        BY <2>1, <3>1 DEF Admit, Rested, BreakerTypeOK
      <4> QED
        BY <2>1, <3>1, <4>1 DEF Admit, HalfOpen, BreakerTypeOK, Policy!Probe
    <3>2. CASE circuit_state[b] # "OPEN"
      BY <2>1, <3>2 DEF Admit, HalfOpen, BreakerTypeOK
    <3> QED
      BY <3>1, <3>2
  <2>2. ASSUME NEW r \in Requests, RecordSuccess(r)
        PROVE  Policy!Succeed(target[r])
    BY <2>2 DEF RecordSuccess, ClosesFrom, BreakerTypeOK, Policy!Succeed
  <2>3. ASSUME NEW r \in Requests, CountFailure(r)
        PROVE  Policy!Endure(target[r])
    <3>1. Capped(failure_count[target[r]], FailureCap) \in 0..FailureCap
      BY CappedInRange DEF BreakerTypeOK
    <3> QED
      BY <2>3, <3>1 DEF CountFailure, Trips, BreakerTypeOK, Capped, Policy!Endure, Policy!Capped
  <2>4. ASSUME NEW r \in Requests, OpenCircuit(r)
        PROVE  Policy!Trip(target[r])
    BY <2>4 DEF OpenCircuit, StartRest, Trips, BreakerTypeOK, Capped, Policy!Trip, Policy!Capped
  <2>5. CASE Tick
    BY <2>5 DEF Tick, Capped, Policy!Second, Policy!Next, Policy!Capped
  <2>6. ASSUME UNCHANGED breaker \/ \E b \in Backends : HealthCheck(b)
        PROVE  UNCHANGED Policy!policyVars
    BY <2>6 DEF breaker, HealthCheck
  <2>7. \A r \in Requests : target[r] \in Backends
    BY DEF BreakerTypeOK
  <2> QED
    BY <2>1, <2>2, <2>3, <2>4, <2>5, <2>6, <2>7
       DEF BreakerNext, Forward, RefuseOpen, Answer, NotSendable, Toggle, breakerVars,
           Policy!Next
<1> QED
  BY <1>1, <1>2, BreakerTypeCorrect, PTL DEF BreakerSpec, ImplementsPolicy, Policy!Spec
=============================================================================
