----------------------------- MODULE CastProofs -----------------------------
(* Theorems about Cast, for any number of sessions, frames and tiles, any  *)
(* rectangles and any size of the socket's buffer.                         *)
EXTENDS Cast, QueueProofs

-----------------------------------------------------------------------------
(* The processes and their connections.                                    *)

(* A vnsee that has not connected has sent nothing.                        *)
Quiet == \A c \in Session : proc[c] \in {"off", "spawned"} => chan[c] = <<>>

(* Of the sessions before and after the present one.                       *)
OneAtATime == \A c \in Session :
    /\ c < session => proc[c] = "gone"
    /\ c = session => proc[c] # "off"
    /\ c > session => proc[c] = "off" /\ ack[c] = "none"

PageOfRunning == Running => page

(* Bye, or the end of the connection, comes from a vnsee that is gone.     *)
OverIsGone == \A c \in Session :
    /\ closed[c] => proc[c] = "gone"
    /\ (\E m \in In(chan[c]) : m.kind = "bye") => proc[c] = "gone"

(* Connections are accepted in the order of the sessions.                  *)
InOrder ==
    /\ socket <= session
    /\ \A c \in In(backlog) : socket < c /\ c <= session
    /\ \A j, k \in DOMAIN backlog : j < k => backlog[j] < backlog[k]
NotYetConnected ==
    \A c \in Session : proc[c] = "spawned" => socket # c /\ c \notin In(backlog)

(* A vnsee that has been accepted is the one that is served.               *)
Accepted == \A c \in Session :
    /\ Up(c) => ack[c] = "accepted"
    /\ proc[c] # "gone" /\ ack[c] = "accepted" => socket = c

FramesOnly ==
    \A c \in Session : \A m \in In(chan[c]) : m.kind # "frame" => m.rect = {}

Procs == Quiet /\ OneAtATime /\ PageOfRunning
Chans == OverIsGone /\ FramesOnly
Order == InOrder /\ NotYetConnected /\ Accepted
Structure == TypeOK /\ Procs /\ Chans /\ Order

-----------------------------------------------------------------------------
(* Messages.                                                               *)

LEMMA MessageFacts ==
  /\ \A cap \in BOOLEAN : /\ Hello(cap) \in Message
                          /\ Hello(cap).kind = "hello" /\ Hello(cap).rect = {}
  /\ \A r \in SUBSET Tiles : /\ Frame(r) \in Message
                             /\ Frame(r).kind = "frame" /\ Frame(r).rect = r
  /\ \A p \in Spots : /\ CursorC2S(p) \in Message /\ CursorC2S(p).kind = "cursor"
                      /\ CursorC2S(p).rect = {} /\ CursorC2S(p).spot = p
  /\ Bye \in Message /\ Bye.kind = "bye" /\ Bye.rect = {}
  BY DEF Hello, Frame, CursorC2S, Bye, Plain, Message

(* A message sent.                                                         *)
LEMMA Sent ==
  ASSUME TypeOK, NEW c \in Session, NEW m \in Message, Send(c, m)
  PROVE  /\ chan' \in [Session -> Seq(Message)]
         /\ chan'[c] # <<>> /\ Len(chan'[c]) = Len(chan[c]) + 1
         /\ In(chan'[c]) = In(chan[c]) \cup {m}
         /\ \A d \in Session : d # c => chan'[d] = chan[d]
         /\ \A k \in 1 .. Len(chan[c]) : chan'[c][k] = chan[c][k]
         /\ chan'[c][Len(chan[c]) + 1] = m
  <1>1. chan[c] \in Seq(Message)
    BY DEF TypeOK
  <1>2. chan' = [chan EXCEPT ![c] = Append(chan[c], m)]
    BY DEF Send
  <1>3. chan'[c] = Append(chan[c], m)
    BY <1>2 DEF TypeOK
  <1>4. /\ Append(chan[c], m) \in Seq(Message) /\ Append(chan[c], m) # <<>>
        /\ Len(Append(chan[c], m)) = Len(chan[c]) + 1
        /\ In(Append(chan[c], m)) = In(chan[c]) \cup {m}
        /\ \A k \in 1 .. Len(chan[c]) : Append(chan[c], m)[k] = chan[c][k]
        /\ Append(chan[c], m)[Len(chan[c]) + 1] = m
    BY <1>1, Appended
  <1>5. /\ chan' \in [Session -> Seq(Message)]
        /\ \A d \in Session : d # c => chan'[d] = chan[d]
    BY <1>2, <1>4 DEF TypeOK
  <1> QED
    BY <1>3, <1>4, <1>5

(* A message taken.                                                        *)
LEMMA Took ==
  ASSUME TypeOK, NEW kind, Arrived(kind), Take
  PROVE  /\ socket \in Session /\ chan[socket] # <<>>
         /\ Msg \in Message /\ Msg.kind = kind /\ Msg = chan[socket][1]
         /\ chan' \in [Session -> Seq(Message)]
         /\ Len(chan[socket]) \in Nat /\ Len(chan[socket]) > 0
         /\ Len(chan'[socket]) = Len(chan[socket]) - 1
         /\ In(chan[socket]) = In(chan'[socket]) \cup {Msg}
         /\ \A d \in Session : d # socket => chan'[d] = chan[d]
         /\ \A k \in 1 .. Len(chan[socket]) - 1 : chan'[socket][k] = chan[socket][k + 1]
  <1>1. socket \in Session /\ chan[socket] # <<>> /\ Msg.kind = kind
    BY DEF Arrived, Msg, TypeOK, Session, None
  <1>2. chan[socket] \in Seq(Message)
    BY <1>1 DEF TypeOK
  <1>3. chan' = [chan EXCEPT ![socket] = Tail(chan[socket])]
    BY DEF Take
  <1>4. chan'[socket] = Tail(chan[socket])
    BY <1>1, <1>3 DEF TypeOK
  <1>5. Tail(chan[socket]) \in Seq(Message)
    BY <1>1, <1>2, Tailed
  <1> QED
    BY <1>1, <1>2, <1>3, <1>4, <1>5, Tailed DEF TypeOK, Msg

-----------------------------------------------------------------------------
(* Types.                                                                  *)

LEMMA Bounds ==
  /\ Session \subseteq Nat /\ None \notin Session
  /\ \A c \in Session : c <= Sessions
  /\ Sessions \in Nat /\ MaxFrames \in Nat /\ Room \in Nat /\ Room > 0
  /\ NoSpot \notin Spots /\ Rects \subseteq SUBSET Tiles
  /\ 0 .. Sessions = Session \cup {None}
  BY BoundsAssumption, SpotsAssumption, RectsAssumption DEF Session, None

(* Of the variables but for the channels.                                  *)
RestOK ==
    /\ session \in 0 .. Sessions /\ cast \in 0 .. MaxFrames
    /\ proc \in [Session -> {"off", "spawned", "hello", "live", "drawn", "gone"}]
    /\ shm \in [Tiles -> 0 .. cast] /\ shown \in [Tiles -> 0 .. cast]
    /\ sending \in SUBSET Tiles
    /\ cursor \in [Session -> Spots \cup {NoSpot}] /\ lost \in BOOLEAN
    /\ closed \in [Session -> BOOLEAN]
    /\ ack \in [Session -> {"none", "accepted", "refused"}]
    /\ backlog \in Seq(Session)
    /\ socket \in 0 .. Sessions /\ capped \in BOOLEAN
    /\ emitted \in {"never", "recent", "past"} /\ pointer \in Spots \cup {NoSpot}
    /\ page \in BOOLEAN /\ seen \in BOOLEAN /\ fitted \in BOOLEAN
    /\ dirty \subseteq Tiles /\ skipped \subseteq Tiles
    /\ base \in 0 .. cast
ChanOK == /\ chan \in [Session -> Seq(Message)]
          /\ \A c \in Session : Len(chan[c]) <= Room

LEMMA TypeParts == TypeOK <=> RestOK /\ ChanOK
  BY DEF TypeOK, RestOK, ChanOK

LEMMA InitType == Init => TypeOK
  <1> SUFFICES ASSUME Init PROVE RestOK /\ ChanOK
    BY TypeParts
  <1>1. <<>> \in Seq(Message) /\ Len(<<>>) = 0 /\ <<>> \in Seq(Session)
    OBVIOUS
  <1>2. ChanOK
    BY <1>1, Bounds DEF Init, ChanOK
  <1>3. RestOK
    <2>1. /\ proc \in [Session -> {"off", "spawned", "hello", "live", "drawn", "gone"}]
          /\ cursor \in [Session -> Spots \cup {NoSpot}]
          /\ closed \in [Session -> BOOLEAN]
          /\ ack \in [Session -> {"none", "accepted", "refused"}]
      BY DEF Init
    <2>2. shm \in [Tiles -> 0 .. cast] /\ shown \in [Tiles -> 0 .. cast]
      BY DEF Init, White
    <2>3. session \in 0 .. Sessions /\ cast \in 0 .. MaxFrames /\ socket \in 0 .. Sessions
      BY Bounds DEF Init
    <2>4. base \in 0 .. cast /\ backlog \in Seq(Session)
      BY <1>1 DEF Init
    <2>5. /\ sending \in SUBSET Tiles /\ lost \in BOOLEAN /\ capped \in BOOLEAN
          /\ emitted \in {"never", "recent", "past"} /\ pointer \in Spots \cup {NoSpot}
          /\ page \in BOOLEAN /\ seen \in BOOLEAN /\ fitted \in BOOLEAN
          /\ dirty \subseteq Tiles /\ skipped \subseteq Tiles
      BY DEF Init
    <2> QED
      BY <2>1, <2>2, <2>3, <2>4, <2>5 DEF RestOK
  <1> QED
    BY <1>2, <1>3

(* A step that sends, that takes, or that leaves the channels alone.       *)
LEMMA SentOK ==
  ASSUME TypeOK, NEW c \in Session, NEW m \in Message, Send(c, m), HasRoom(c)
  PROVE  ChanOK'
  <1>1. \A d \in Session : Len(chan[d]) \in Nat /\ Len(chan[d]) <= Room
    BY DEF TypeOK
  <1>2. /\ chan' \in [Session -> Seq(Message)]
        /\ Len(chan'[c]) = Len(chan[c]) + 1
        /\ \A d \in Session : d # c => chan'[d] = chan[d]
    BY Sent
  <1>3. Len(chan'[c]) <= Room
    BY <1>1, <1>2, Bounds DEF HasRoom
  <1> QED
    BY <1>1, <1>2, <1>3 DEF ChanOK

LEMMA TookOK ==
  ASSUME TypeOK, NEW kind, Arrived(kind), Take
  PROVE  ChanOK'
  <1>1. \A d \in Session : Len(chan[d]) \in Nat /\ Len(chan[d]) <= Room
    BY DEF TypeOK
  <1> QED
    BY <1>1, Took, Bounds DEF ChanOK

LEMMA TypeStep == TypeOK /\ Quiet /\ [Next]_vars => TypeOK'
  <1> SUFFICES ASSUME TypeOK, Quiet, [Next]_vars PROVE RestOK' /\ ChanOK'
    BY DEF TypeOK, RestOK, ChanOK
  <1> USE Bounds DEF RestOK, clientVars, wireVars, serverVars, viewVars, Become, White
  <1>0. RestOK /\ ChanOK
    BY TypeParts
  <1>1. CASE UNCHANGED vars
    BY <1>0, <1>1 DEF ChanOK, vars
  <1>2. CASE StartSession
    <2>1. proc' \in [Session -> {"off", "spawned", "hello", "live", "drawn", "gone"}]
      BY <1>0, <1>2 DEF StartSession
    <2>2. cast \in Nat /\ shown' \in [Tiles -> 0 .. cast] /\ base' \in 0 .. cast
      BY <1>0, <1>2 DEF StartSession
    <2>3. session' \in 0 .. Sessions
      BY <1>0, <1>2 DEF StartSession
    <2>4. ChanOK'
      BY <1>0, <1>2 DEF StartSession, ChanOK
    <2> QED
      BY <1>0, <1>2, <2>1, <2>2, <2>3, <2>4 DEF StartSession
  <1>3. CASE Disconnect
    <2>1. proc' \in [Session -> {"off", "spawned", "hello", "live", "drawn", "gone"}]
      BY <1>0, <1>3 DEF Disconnect
    <2>2. cast \in Nat /\ shown' \in [Tiles -> 0 .. cast]
      BY <1>0, <1>3 DEF Disconnect
    <2>3. ChanOK'
      BY <1>0, <1>3 DEF Disconnect, ChanOK
    <2> QED
      BY <1>0, <1>3, <2>1, <2>2, <2>3 DEF Disconnect
  <1>4. CASE Relayout
    BY <1>0, <1>4 DEF Relayout, ChanOK
  <1>5. ASSUME NEW c \in Session, Client(c) PROVE RestOK' /\ ChanOK'
    <2>1. ASSUME NEW cap \in BOOLEAN, Connect(c, cap) PROVE RestOK' /\ ChanOK'
      <3>1. Len(chan[c]) = 0
        BY <2>1 DEF Quiet, Connect
      <3>2. ChanOK'
        BY <2>1, <3>1, MessageFacts, SentOK DEF Connect, HasRoom
      <3>3. backlog' \in Seq(Session)
        BY <1>0, <2>1, Appended DEF Connect
      <3> QED
        BY <1>0, <2>1, <3>2, <3>3 DEF Connect
    <2>2. CASE GetAck(c)
      BY <1>0, <2>2 DEF GetAck, ChanOK
    <2>3. ASSUME NEW r \in Rects, Blit(c, r) PROVE RestOK' /\ ChanOK'
      BY <1>0, <2>3 DEF Blit, ChanOK
    <2>4. CASE Announce(c)
      <3>1. ChanOK'
        BY <1>0, <2>4, MessageFacts, SentOK DEF Announce
      <3> QED
        BY <1>0, <2>4, <3>1 DEF Announce
    <2>5. ASSUME NEW p \in Spots, SendCursorPos(c, p) PROVE RestOK' /\ ChanOK'
      <3>1. CASE HasRoom(c)
        <4>1. ChanOK'
          BY <1>0, <2>5, <3>1, MessageFacts, SentOK DEF SendCursorPos
        <4> QED
          BY <1>0, <2>5, <3>1, <4>1 DEF SendCursorPos
      <3>2. CASE ~HasRoom(c)
        BY <1>0, <2>5, <3>2 DEF SendCursorPos, ChanOK
      <3> QED
        BY <3>1, <3>2
    <2>6. CASE SayBye(c)
      <3>1. ChanOK'
        BY <1>0, <2>6, MessageFacts, SentOK DEF SayBye
      <3> QED
        BY <1>0, <2>6, <3>1 DEF SayBye
    <2>7. CASE Die(c)
      BY <1>0, <2>7 DEF Die, ChanOK
    <2> QED
      BY <1>5, <2>1, <2>2, <2>3, <2>4, <2>5, <2>6, <2>7 DEF Client
  <1>6. CASE OnNewConnection
    <2>1. /\ Head(backlog) \in Session /\ Tail(backlog) \in Seq(Session)
          /\ backlog' = Tail(backlog)
      BY <1>0, <1>6, Tailed DEF OnNewConnection
    <2> QED
      BY <1>0, <1>6, <2>1 DEF OnNewConnection, ChanOK
  <1>7. CASE HandleHello
    <2>1. ChanOK' /\ socket \in Session /\ Msg.cap \in BOOLEAN
      BY <1>0, <1>7, Took, TookOK DEF HandleHello, Message
    <2> QED
      BY <1>0, <1>7, <2>1 DEF HandleHello
  <1>8. CASE DropFrame
    <2>1. ChanOK' /\ Msg.rect \subseteq Tiles
      BY <1>0, <1>8, Took, TookOK DEF DropFrame, Message
    <2> QED
      BY <1>0, <1>8, <2>1 DEF DropFrame
  <1>9. CASE EmitFrame
    <2>1. ChanOK' /\ Msg.rect \subseteq Tiles
      BY <1>0, <1>9, Took, TookOK DEF EmitFrame, Message
    <2>2. dirty' \subseteq Tiles /\ seen' \in BOOLEAN
      BY <1>0, <1>9, <2>1 DEF EmitFrame, OnFrameReady, MapSourceRect
    <2> QED
      BY <1>0, <1>9, <2>1, <2>2 DEF EmitFrame
  <1>10. CASE HandleCursor
    <2>1. ChanOK' /\ Msg.spot \in Spots \cup {NoSpot}
      BY <1>0, <1>10, Took, TookOK DEF HandleCursor, Message
    <2> QED
      BY <1>0, <1>10, <2>1 DEF HandleCursor
  <1>11. CASE DropClient
    <2>1. ChanOK'
      BY <1>0, <1>11, TookOK DEF DropClient, ChanOK
    <2> QED
      BY <1>0, <1>11, <2>1 DEF DropClient, None
  <1>12. CASE PeriodPasses
    BY <1>0, <1>12 DEF PeriodPasses, ChanOK
  <1>13. ASSUME NEW t \in Tiles, Paint(t) PROVE RestOK' /\ ChanOK'
    <2>1. Picture(t) \in 0 .. cast
      BY <1>0, <1>13 DEF Picture
    <2>2. shown' \in [Tiles -> 0 .. cast']
      BY <1>0, <1>13, <2>1 DEF Paint
    <2>3. ChanOK'
      BY <1>0, <1>13 DEF Paint, ChanOK
    <2> QED
      BY <1>0, <1>13, <2>2, <2>3 DEF Paint
  <1> QED
    BY <1>1, <1>2, <1>3, <1>4, <1>5, <1>6, <1>7, <1>8, <1>9, <1>10, <1>11,
       <1>12, <1>13 DEF Next, Serve

-----------------------------------------------------------------------------
(* Structure is invariant.                                                 *)

LEMMA InitStructure == Init => Structure
  <1> SUFFICES ASSUME Init PROVE TypeOK /\ Procs /\ Chans /\ Order
    BY DEF Structure
  <1>1. DOMAIN <<>> = {} /\ In(<<>>) = {}
    BY DEF In
  <1>2. Procs
    BY Bounds DEF Init, Procs, Quiet, OneAtATime, PageOfRunning, Running,
         None, Session
  <1>3. Chans
    BY <1>1 DEF Init, Chans, OverIsGone, FramesOnly
  <1>4. Order
    BY <1>1, Bounds DEF Init, Order, InOrder, NotYetConnected, Accepted, Up, None
  <1> QED
    BY <1>2, <1>3, <1>4, InitType

(* A vnsee that runs is that of the present session.                       *)
LEMMA Current ==
  ASSUME Structure, NEW c \in Session, proc[c] \notin {"off", "gone"}
  PROVE  c = session /\ Running /\ page
  <1>1. c = session
    BY Bounds DEF Structure, Procs, OneAtATime, TypeOK
  <1> QED
    BY <1>1, Bounds DEF Structure, Procs, PageOfRunning, Running

LEMMA LiveServed ==
  ASSUME Structure, Live
  PROVE  /\ session \in Session /\ socket = session /\ page /\ Running
         /\ ack[session] = "accepted"
  <1>1. session \in Session /\ Up(session)
    BY Bounds DEF Live, Structure, TypeOK
  <1> QED
    BY <1>1, Current DEF Up, Structure, Order, Accepted

(* Steps that leave the processes, connections and page alone.             *)
LEMMA StructureStable ==
  ASSUME Structure, TypeOK',
         UNCHANGED <<session, proc, chan, closed, ack, backlog, socket, page>>
  PROVE  Structure'
  BY DEF Structure, Procs, Quiet, OneAtATime, PageOfRunning, Running, Chans,
         OverIsGone, FramesOnly, Order, InOrder, NotYetConnected, Accepted, Up

(* Steps that only send, from a vnsee that is up.                          *)
LEMMA StructureSent ==
  ASSUME Structure, TypeOK', NEW c \in Session, Up(c), NEW m \in Message,
         Send(c, m), m.kind = "frame" \/ m.rect = {}, m.kind # "bye",
         \/ UNCHANGED proc
         \/ proc' = [proc EXCEPT ![c] = "live"],
         UNCHANGED <<session, closed, ack, backlog, socket, page>>
  PROVE  Structure'
  <1>1. /\ proc' \in [Session -> {"off", "spawned", "hello", "live", "drawn", "gone"}]
        /\ Up(c)' /\ \A d \in Session : d # c => proc'[d] = proc[d]
    BY DEF Structure, TypeOK, Up
  <1>2. proc[c] \notin {"off", "spawned", "gone"} /\ proc'[c] \notin {"off", "spawned", "gone"}
    BY <1>1 DEF Up
  <1>3. /\ In(chan'[c]) = In(chan[c]) \cup {m}
        /\ \A d \in Session : d # c => chan'[d] = chan[d]
    BY Sent DEF Structure
  <1>4. Procs'
    <2>1. Quiet'
      BY <1>2, <1>1, <1>3 DEF Structure, Procs, Quiet
    <2>2. OneAtATime'
      BY <1>2, <1>1 DEF Structure, Procs, OneAtATime
    <2>3. page
      BY <1>2, Current
    <2> QED
      BY <2>1, <2>2, <2>3 DEF Procs, PageOfRunning
  <1>5. Chans'
    BY <1>2, <1>1, <1>3 DEF Structure, Chans, OverIsGone, FramesOnly
  <1>6. Order'
    BY <1>2, <1>1 DEF Structure, Order, InOrder, NotYetConnected, Accepted, Up
  <1> QED
    BY <1>4, <1>5, <1>6 DEF Structure

(* Steps that only take.                                                   *)
LEMMA StructureTook ==
  ASSUME Structure, TypeOK', NEW kind, Arrived(kind), Take,
         UNCHANGED <<session, proc, closed, backlog, page>>
  PROVE  Quiet' /\ Chans'
  <1>1. /\ socket \in Session /\ chan[socket] # <<>>
        /\ In(chan[socket]) = In(chan'[socket]) \cup {Msg}
        /\ \A d \in Session : d # socket => chan'[d] = chan[d]
    BY Took DEF Structure
  <1>2. Quiet'
    BY <1>1 DEF Structure, Procs, Quiet
  <1>3. Chans'
    BY <1>1 DEF Structure, Chans, OverIsGone, FramesOnly
  <1> QED
    BY <1>2, <1>3

LEMMA ClientStructure ==
  ASSUME Structure, TypeOK', NEW c \in Session, Client(c) PROVE Structure'
  <1> USE DEF clientVars, wireVars, serverVars, viewVars
  <1>0. /\ proc \in [Session -> {"off", "spawned", "hello", "live", "drawn", "gone"}]
        /\ closed \in [Session -> BOOLEAN] /\ backlog \in Seq(Session)
        /\ session \in Nat /\ socket \in Nat
    BY Bounds DEF Structure, TypeOK
  (* A vnsee that ends.                                                    *)
  <1>1. ASSUME Become(c, "gone"), closed' = [closed EXCEPT ![c] = TRUE],
               proc[c] \notin {"off", "gone"},
               \/ UNCHANGED chan
               \/ In(chan'[c]) = In(chan[c]) \cup {Bye}
                  /\ \A d \in Session : d # c => chan'[d] = chan[d],
               UNCHANGED <<session, ack, backlog, socket, page>>
        PROVE  Structure'
    <2>1. /\ proc'[c] = "gone" /\ closed'[c] = TRUE
          /\ \A d \in Session : d # c => proc'[d] = proc[d] /\ closed'[d] = closed[d]
      BY <1>0, <1>1 DEF Become
    <2>2. c = session /\ page
      BY <1>1, Current
    <2>3. Procs'
      BY <1>1, <2>1, <2>2 DEF Structure, Procs, Quiet, OneAtATime, PageOfRunning
    <2>4. Chans'
      BY <1>1, <2>1, MessageFacts DEF Structure, Chans, OverIsGone, FramesOnly
    <2>5. Order'
      BY <1>1, <2>1 DEF Structure, Order, InOrder, NotYetConnected, Accepted, Up
    <2> QED
      BY <2>3, <2>4, <2>5 DEF Structure
  <1>2. ASSUME NEW cap \in BOOLEAN, Connect(c, cap) PROVE Structure'
    <2>1. /\ proc'[c] = "hello" /\ proc[c] = "spawned"
          /\ \A d \in Session : d # c => proc'[d] = proc[d]
          /\ UNCHANGED <<session, closed, ack, socket, page>>
          /\ backlog' = Append(backlog, c)
      BY <1>0, <1>2 DEF Connect, Become
    <2>2. c = session /\ page
      BY <2>1, Current
    <2>3. /\ In(chan'[c]) = In(chan[c]) \cup {Hello(cap)}
          /\ \A d \in Session : d # c => chan'[d] = chan[d]
      BY <1>2, Sent, MessageFacts DEF Connect, Structure
    <2>4. Procs'
      BY <2>1, <2>2, <2>3 DEF Structure, Procs, Quiet, OneAtATime, PageOfRunning
    <2>5. Chans'
      BY <2>1, <2>3, MessageFacts DEF Structure, Chans, OverIsGone, FramesOnly
    <2>6. /\ backlog' \in Seq(Session) /\ Len(backlog') = Len(backlog) + 1
          /\ \A k \in 1 .. Len(backlog) : backlog'[k] = backlog[k]
          /\ backlog'[Len(backlog) + 1] = c /\ Len(backlog) \in Nat
          /\ In(backlog') = In(backlog) \cup {c}
      BY <1>0, <2>1, Appended
    <2>7. DOMAIN backlog = 1 .. Len(backlog) /\ DOMAIN backlog' = 1 .. Len(backlog) + 1
      BY <1>0, <2>6
    <2>8. /\ \A d \in In(backlog) : d # c /\ d <= session /\ d \in Nat
          /\ socket # c /\ socket <= session
      BY <1>0, <2>1, Bounds DEF Structure, Order, NotYetConnected, InOrder, In
    <2>9. \A k \in DOMAIN backlog : backlog[k] < c
      <3> SUFFICES ASSUME NEW k \in DOMAIN backlog PROVE backlog[k] < c
        OBVIOUS
      <3>1. backlog[k] \in In(backlog)
        BY DEF In
      <3> QED
        BY <3>1, <2>2, <2>8, <1>0
    <2>10. \A j, k \in DOMAIN backlog' : j < k => backlog'[j] < backlog'[k]
      <3> SUFFICES ASSUME NEW j \in DOMAIN backlog', NEW k \in DOMAIN backlog', j < k
                   PROVE  backlog'[j] < backlog'[k]
        OBVIOUS
      <3>1. j \in DOMAIN backlog /\ backlog'[j] = backlog[j]
        BY <2>6, <2>7
      <3>2. CASE k = Len(backlog) + 1
        BY <2>6, <2>9, <3>1, <3>2
      <3>3. CASE k # Len(backlog) + 1
        <4>1. k \in DOMAIN backlog /\ backlog'[k] = backlog[k]
          BY <2>6, <2>7, <3>3
        <4> QED
          BY <3>1, <4>1 DEF Structure, Order, InOrder
      <3> QED
        BY <3>2, <3>3
    <2>11. InOrder'
      BY <1>0, <2>1, <2>2, <2>6, <2>8, <2>10, Bounds DEF Structure, Order, InOrder
    <2>12. NotYetConnected' /\ Accepted'
      BY <2>1, <2>6, <2>8 DEF Structure, Order, NotYetConnected, Accepted, Up
    <2> QED
      BY <2>4, <2>5, <2>11, <2>12 DEF Structure, Order
  <1>3. CASE GetAck(c)
    <2>1. CASE ack[c] = "accepted"
      <3>1. /\ proc'[c] = "live" /\ proc[c] = "hello"
            /\ \A d \in Session : d # c => proc'[d] = proc[d]
            /\ UNCHANGED <<session, chan, ack, backlog, socket, page>>
            /\ closed' = [closed EXCEPT ![c] = FALSE]
        BY <1>0, <1>3, <2>1 DEF GetAck, Become
      <3>2. \A d \in Session : closed'[d] => closed[d]
        BY <1>0, <3>1
      <3>3. page
        BY <3>1, Current
      <3>4. Procs'
        BY <3>1, <3>3 DEF Structure, Procs, Quiet, OneAtATime, PageOfRunning
      <3>5. Chans'
        BY <3>1, <3>2 DEF Structure, Chans, OverIsGone, FramesOnly
      <3>6. Order'
        BY <2>1, <3>1 DEF Structure, Order, InOrder, NotYetConnected, Accepted, Up
      <3> QED
        BY <3>4, <3>5, <3>6 DEF Structure
    <2>2. CASE ack[c] # "accepted"
      BY <1>1, <1>3, <2>2 DEF GetAck
    <2> QED
      BY <2>1, <2>2
  <1>4. ASSUME NEW r \in Rects, Blit(c, r) PROVE Structure'
    <2>1. /\ proc'[c] = "drawn" /\ proc[c] = "live"
          /\ \A d \in Session : d # c => proc'[d] = proc[d]
          /\ UNCHANGED <<session, chan, closed, ack, backlog, socket, page>>
      BY <1>0, <1>4 DEF Blit, Become
    <2>2. page
      BY <2>1, Current
    <2> QED
      BY <2>1, <2>2
      DEF Structure, Procs, Quiet, OneAtATime, PageOfRunning, Chans,
          OverIsGone, FramesOnly, Order, InOrder, NotYetConnected, Accepted, Up
  <1>5. CASE Announce(c)
    <2>1. Frame(sending) \in Message /\ Frame(sending).kind = "frame"
      BY MessageFacts DEF Structure, TypeOK
    <2> QED
      BY <1>5, <2>1, StructureSent DEF Announce, Up, Become
  <1>6. ASSUME NEW p \in Spots, SendCursorPos(c, p) PROVE Structure'
    <2>1. CursorC2S(p) \in Message /\ CursorC2S(p).kind = "cursor" /\ CursorC2S(p).rect = {}
      BY MessageFacts
    <2>2. CASE HasRoom(c)
      BY <1>6, <2>1, <2>2, StructureSent DEF SendCursorPos, Up
    <2>3. CASE ~HasRoom(c)
      BY <1>6, <2>3, StructureStable DEF SendCursorPos
    <2> QED
      BY <2>2, <2>3
  <1>7. CASE SayBye(c)
    <2>1. /\ In(chan'[c]) = In(chan[c]) \cup {Bye}
          /\ \A d \in Session : d # c => chan'[d] = chan[d]
      BY <1>7, Sent, MessageFacts DEF SayBye, Structure
    <2> QED
      BY <1>1, <1>7, <2>1 DEF SayBye
  <1>8. CASE Die(c)
    BY <1>1, <1>8 DEF Die
  <1> QED
    BY <1>2, <1>3, <1>4, <1>5, <1>6, <1>7, <1>8 DEF Client

(* The server and the page.                                                *)
LEMMA StructureStep == Structure /\ [Next]_vars => Structure'
  <1> SUFFICES ASSUME Structure, [Next]_vars PROVE Structure'
    OBVIOUS
  <1> USE DEF clientVars, wireVars, serverVars, viewVars
  <1>0. TypeOK'
    BY TypeStep DEF Structure, Procs
  <1>00. /\ proc \in [Session -> {"off", "spawned", "hello", "live", "drawn", "gone"}]
         /\ closed \in [Session -> BOOLEAN] /\ backlog \in Seq(Session)
         /\ ack \in [Session -> {"none", "accepted", "refused"}]
         /\ session \in 0 .. Sessions /\ session \in Nat /\ socket \in Nat
    BY Bounds DEF Structure, TypeOK
  <1>1. CASE UNCHANGED vars
    BY <1>0, <1>1, StructureStable DEF vars
  <1>2. CASE StartSession
    <2>1. /\ session + 1 \in Session /\ session' = session + 1
          /\ proc' = [proc EXCEPT ![session + 1] = "spawned"] /\ page' = TRUE
          /\ UNCHANGED <<chan, closed, ack, backlog, socket>>
      BY <1>00, <1>2, Bounds DEF StartSession, Become, Session
    <2>2. /\ proc'[session + 1] = "spawned" /\ proc[session + 1] = "off"
          /\ \A d \in Session : d # session + 1 => proc'[d] = proc[d]
          /\ session \in Session => proc[session] = "gone"
      BY <1>00, <1>2, <2>1, Bounds
      DEF Structure, Procs, OneAtATime, StartSession, Running, None, Session
    <2>3. Procs'
      <3>1. OneAtATime'
        <4> SUFFICES ASSUME NEW d \in Session
                     PROVE  /\ d < session + 1 => proc'[d] = "gone"
                            /\ d = session + 1 => proc'[d] # "off"
                            /\ d > session + 1 => proc'[d] = "off" /\ ack[d] = "none"
          BY <2>1 DEF OneAtATime
        <4> QED
          BY <1>00, <2>2, Bounds DEF Structure, Procs, OneAtATime
      <3> QED
        BY <2>1, <2>2, <3>1 DEF Structure, Procs, Quiet, PageOfRunning
    <2>4. Chans'
      BY <2>1, <2>2 DEF Structure, Chans, OverIsGone, FramesOnly
    <2>5. InOrder' /\ session + 1 # socket /\ session + 1 \notin In(backlog)
      <3>1. /\ socket <= session
            /\ \A c \in In(backlog) : socket < c /\ c <= session /\ c \in Nat
            /\ \A j, k \in DOMAIN backlog : j < k => backlog[j] < backlog[k]
        BY <1>00, Bounds DEF Structure, Order, InOrder, In
      <3>2. \A c \in In(backlog) : c <= session + 1
        BY <1>00, <3>1
      <3> QED
        BY <1>00, <2>1, <3>1, <3>2 DEF InOrder
    <2>6. Accepted'
      BY <1>00, <2>1, <2>2, Bounds
      DEF Structure, Order, Accepted, Up, Procs, OneAtATime
    <2>7. NotYetConnected'
      BY <2>1, <2>2, <2>5 DEF Structure, Order, NotYetConnected
    <2> QED
      BY <1>0, <2>3, <2>4, <2>5, <2>6, <2>7 DEF Structure, Order
  <1>3. CASE Disconnect
    <2>1. /\ UNCHANGED <<session, chan, ack, backlog, socket>>
          /\ \A d \in Session : d # session => proc'[d] = proc[d] /\ closed'[d] = closed[d]
          /\ session \in Session => proc'[session] = "gone"
      BY <1>00, <1>3 DEF Disconnect, Become
    <2>2. ~Running'
      BY <1>00, <2>1, Bounds DEF Running
    <2>3. Procs'
      BY <2>1, <2>2 DEF Structure, Procs, Quiet, OneAtATime, PageOfRunning
    <2>4. Chans'
      BY <2>1 DEF Structure, Chans, OverIsGone, FramesOnly
    <2>5. Order'
      BY <2>1 DEF Structure, Order, InOrder, NotYetConnected, Accepted, Up
    <2> QED
      BY <1>0, <2>3, <2>4, <2>5 DEF Structure
  <1>4. CASE Relayout \/ PeriodPasses \/ \E t \in Tiles : Paint(t)
    BY <1>0, <1>4, StructureStable DEF Relayout, PeriodPasses, Paint
  <1>5. ASSUME NEW c \in Session, Client(c) PROVE Structure'
    BY <1>0, <1>5, ClientStructure
  <1>6. CASE OnNewConnection
    <2>1. /\ backlog # <<>> /\ backlog' = Tail(backlog)
          /\ UNCHANGED <<session, proc, chan, closed, page>>
          /\ \/ socket = None /\ socket' = Head(backlog) /\ ack' = ack
             \/ socket # None /\ socket' = socket
                /\ ack' = [ack EXCEPT ![Head(backlog)] = "refused"]
      BY <1>6 DEF OnNewConnection
    <2>2. /\ Head(backlog) \in Session /\ Head(backlog) \in In(backlog)
          /\ Head(backlog) = backlog[1] /\ 1 \in DOMAIN backlog
          /\ backlog' \in Seq(Session)
          /\ Len(backlog) \in Nat /\ Len(backlog) > 0 /\ Len(backlog') = Len(backlog) - 1
          /\ \A k \in 1 .. Len(backlog) - 1 : backlog'[k] = backlog[k + 1]
          /\ In(backlog) = In(backlog') \cup {Head(backlog)}
      BY <1>00, <2>1, Tailed
    <2>3. DOMAIN backlog = 1 .. Len(backlog) /\ DOMAIN backlog' = 1 .. Len(backlog) - 1
      BY <1>00, <2>2
    <2>4. /\ \A k \in DOMAIN backlog' : Head(backlog) < backlog'[k]
          /\ \A j, k \in DOMAIN backlog' : j < k => backlog'[j] < backlog'[k]
      <3>1. \A k \in DOMAIN backlog' :
              k + 1 \in DOMAIN backlog /\ 1 < k + 1 /\ backlog'[k] = backlog[k + 1]
        BY <2>2, <2>3
      <3> QED
        BY <2>2, <2>3, <3>1 DEF Structure, Order, InOrder
    <2>5. /\ \A d \in In(backlog') : Head(backlog) < d /\ socket < d /\ d <= session
          /\ socket < Head(backlog) /\ Head(backlog) <= session
      BY <2>2, <2>4 DEF Structure, Order, InOrder, In
    <2>6. InOrder'
      BY <2>1, <2>4, <2>5 DEF Structure, Order, InOrder
    <2>7. NotYetConnected'
      BY <2>1, <2>2 DEF Structure, Order, NotYetConnected
    <2>8. Accepted' /\ Procs'
      <3>1. CASE socket = None
        BY <2>1, <3>1, Bounds
        DEF Structure, Order, Accepted, Up, Procs, Quiet, OneAtATime,
            PageOfRunning, Running
      <3>2. CASE socket # None
        <4>1. ack' = [ack EXCEPT ![Head(backlog)] = "refused"] /\ socket' = socket
          BY <2>1, <3>2
        <4>2. /\ ~Up(Head(backlog))
              /\ \A d \in Session : d # Head(backlog) => ack'[d] = ack[d]
              /\ ack'[Head(backlog)] = "refused"
          BY <1>00, <2>2, <2>5, <4>1 DEF Structure, Order, Accepted, Up
        <4>3. Accepted'
          BY <2>1, <4>1, <4>2 DEF Structure, Order, Accepted, Up
        <4>4. OneAtATime'
          BY <1>00, <2>1, <2>2, <2>5, <4>2, Bounds DEF Structure, Procs, OneAtATime
        <4> QED
          BY <2>1, <4>3, <4>4 DEF Structure, Procs, Quiet, PageOfRunning, Running
      <3> QED
        BY <3>1, <3>2
    <2>9. Chans'
      BY <2>1 DEF Structure, Chans, OverIsGone, FramesOnly
    <2> QED
      BY <1>0, <2>6, <2>7, <2>8, <2>9 DEF Structure, Order
  <1>7. CASE HandleHello
    <2>1. /\ Arrived("hello") /\ Take /\ ack' = [ack EXCEPT ![socket] = "accepted"]
          /\ UNCHANGED <<session, proc, closed, backlog, socket, page>>
      BY <1>7 DEF HandleHello
    <2>2. Quiet' /\ Chans'
      BY <1>0, <2>1, StructureTook
    <2>3. socket \in Session /\ socket <= session
      BY <2>1, Took DEF Structure, Order, InOrder
    <2>4. /\ ack'[socket] = "accepted"
          /\ \A d \in Session : d # socket => ack'[d] = ack[d]
      BY <1>00, <2>1, <2>3
    <2>5. OneAtATime' /\ PageOfRunning'
      BY <1>00, <2>1, <2>3, <2>4, Bounds
      DEF Structure, Procs, OneAtATime, PageOfRunning, Running
    <2>6. Order'
      BY <2>1, <2>4 DEF Structure, Order, InOrder, NotYetConnected, Accepted, Up
    <2> QED
      BY <1>0, <2>2, <2>5, <2>6 DEF Structure, Procs
  <1>8. CASE DropFrame \/ EmitFrame \/ HandleCursor
    <2>1. PICK kind \in {"frame", "cursor"} :
            /\ Arrived(kind) /\ Take
            /\ UNCHANGED <<session, proc, closed, ack, backlog, socket, page>>
      BY <1>8 DEF DropFrame, EmitFrame, HandleCursor
    <2>2. Quiet' /\ Chans'
      BY <1>0, <2>1, StructureTook
    <2> QED
      BY <1>0, <2>1, <2>2
      DEF Structure, Procs, OneAtATime, PageOfRunning, Running, Order,
          InOrder, NotYetConnected, Accepted, Up
  <1>9. CASE DropClient
    <2>1. /\ socket' = None
          /\ UNCHANGED <<session, proc, closed, ack, backlog, page>>
          /\ \/ Arrived("bye") /\ Take
             \/ socket # None /\ closed[socket] /\ UNCHANGED chan
      BY <1>9 DEF DropClient
    <2>2. Quiet' /\ Chans' /\ (socket \in Session => proc[socket] = "gone")
      <3>1. CASE Arrived("bye") /\ Take
        <4>1. Quiet' /\ Chans'
          BY <1>0, <2>1, <3>1, StructureTook
        <4>2. Msg \in In(chan[socket]) /\ Msg.kind = "bye" /\ socket \in Session
          BY <3>1, Took DEF Structure
        <4> QED
          BY <4>1, <4>2 DEF Structure, Chans, OverIsGone
      <3>2. CASE socket # None /\ closed[socket] /\ UNCHANGED chan
        BY <2>1, <3>2
        DEF Structure, Procs, Quiet, Chans, OverIsGone, FramesOnly
      <3> QED
        BY <2>1, <3>1, <3>2
    <2>3. OneAtATime' /\ PageOfRunning'
      BY <2>1 DEF Structure, Procs, OneAtATime, PageOfRunning, Running
    <2>4. InOrder'
      BY <1>00, <2>1, Bounds DEF Structure, Order, InOrder, In, None
    <2>5. NotYetConnected' /\ Accepted'
      BY <2>1, <2>2, Bounds DEF Structure, Order, NotYetConnected, Accepted, Up
    <2> QED
      BY <1>0, <2>2, <2>3, <2>4, <2>5 DEF Structure, Procs, Order
  <1> QED
    BY <1>1, <1>2, <1>3, <1>4, <1>5, <1>6, <1>7, <1>8, <1>9 DEF Next, Serve

(* startSession, onNewConnection and close order the sessions: one vnsee   *)
(* runs at a time, connections are accepted in the order of their sessions, *)
(* and Bye or the end of a connection comes from a vnsee that is gone.      *)
THEOREM StructureInvariance == Spec => []Structure
  <1> QED
    BY InitStructure, StructureStep, PTL DEF Spec

(* What is in shared memory and on the page is a frame drawn so far, no    *)
(* connection holds more than the socket's buffer, and the messages, the   *)
(* backlog and the states of the processes are what they should be: at     *)
(* every step of vncast_client.cpp, server.cpp and frame_view.cpp.         *)
THEOREM TypeCorrect == Spec => []TypeOK
  <1> QED
    BY StructureInvariance, PTL DEF Structure

(* onNewConnection() refuses a vnsee only while the connection of one that *)
(* has ended waits to be dropped.                                          *)
THEOREM RefusesBehindDead == Spec => RefusedOnlyBehindDead
  <1> DEFINE Refuses(c) == ack[c] # "refused" /\ ack'[c] = "refused"
  <1>1. ASSUME Structure, [Next]_vars, NEW c \in Session, Refuses(c)
        PROVE  proc[socket] = "gone"
    <2>1. /\ ack \in [Session -> {"none", "accepted", "refused"}]
          /\ session \in Nat /\ backlog \in Seq(Session)
          /\ socket \in Session \cup {None}
      <3>1. TypeOK
        BY <1>1 DEF Structure
      <3>2. socket \in Session \cup {None} /\ session \in Session \cup {None}
        BY <3>1, Bounds DEF TypeOK
      <3>3. session \in Nat
        BY <3>2, Bounds DEF None
      <3> QED
        BY <3>1, <3>2, <3>3 DEF TypeOK
    <2>2. CASE OnNewConnection
      <3>1. /\ backlog # <<>> /\ socket # None
            /\ ack' = [ack EXCEPT ![Head(backlog)] = "refused"]
        BY <1>1, <2>2 DEF OnNewConnection
      <3>2. Head(backlog) \in In(backlog)
        BY <2>1, <3>1, Tailed
      <3>3. socket < Head(backlog) /\ Head(backlog) <= session /\ Head(backlog) \in Nat
        BY <1>1, <2>1, <3>1, <3>2, Tailed, Bounds DEF Structure, Order, InOrder
      <3>4. socket \in Session /\ socket < session
        BY <2>1, <3>1, <3>3, Bounds
      <3> QED
        BY <1>1, <3>4 DEF Structure, Procs, OneAtATime
    <2>3. CASE HandleHello
      <3>1. ack' = [ack EXCEPT ![socket] = "accepted"] /\ socket \in Session
        BY <1>1, <2>3, Took DEF HandleHello, Structure
      <3> QED
        BY <1>1, <2>1, <3>1
    <2>4. CASE UNCHANGED ack
      BY <1>1, <2>4
    <2> QED
      BY <1>1, <2>2, <2>3, <2>4
      DEF Next, Client, Serve, vars, clientVars, wireVars, serverVars, viewVars,
          StartSession, Disconnect, Relayout, Connect, GetAck, Blit, Announce,
          SendCursorPos, SayBye, Die, DropFrame, EmitFrame, HandleCursor,
          DropClient, PeriodPasses, Paint
  <1>2. Structure /\ [Next]_vars =>
          [\A c \in Session : Refuses(c) => proc[socket] = "gone"]_vars
    BY <1>1
  <1> QED
    BY <1>2, StructureInvariance, PTL DEF Spec, RefusedOnlyBehindDead

-----------------------------------------------------------------------------
(* The pixels.                                                             *)

UnfittedIsDirty == page /\ ~fitted => dirty = Tiles
SeenOnPage == seen => page
BlankTillSeen == ~seen => \A t \in Tiles : shown[t] = White
View == UnfittedIsDirty /\ SeenOnPage /\ BlankTillSeen

(* A tile is in a rectangle drawn or announced and not yet taken.          *)
Waits(t) == t \in sending \/ \E m \in In(chan[session]) : t \in m.rect

NotYetDrawn == Running /\ ~Live => \A t \in Tiles : shm[t] <= base
NothingToSend == Running /\ proc[session] # "drawn" => sending = {}
FirstIsNotCapped ==
    Running /\ ack[session] = "accepted" /\ ~seen => emitted = "never"
AllWait == Live /\ ~seen => \A t \in Tiles : shm[t] > base => Waits(t)
NoneForgotten == Live => \A t \in Tiles : shm[t] > base =>
    shown[t] = shm[t] \/ t \in dirty \/ t \in skipped \/ Waits(t)
Pixels == /\ NotYetDrawn /\ NothingToSend /\ FirstIsNotCapped
          /\ AllWait /\ NoneForgotten

Picturing == Structure /\ View /\ Pixels

LEMMA OnItsWayIsWaiting == \A t : t \in OnItsWay <=> Waits(t)
  BY DEF OnItsWay, Waits, In

LEMMA NoneIsForgotten == Picturing => NothingForgotten
  BY OnItsWayIsWaiting DEF Picturing, Pixels, NoneForgotten, NothingForgotten

LEMMA InitPicturing == Init => Picturing
  <1> SUFFICES ASSUME Init PROVE Structure /\ View /\ Pixels
    BY DEF Picturing
  <1>1. Structure
    BY InitStructure
  <1>2. View
    BY DEF Init, View, UnfittedIsDirty, SeenOnPage, BlankTillSeen
  <1>3. Pixels
    BY DEF Init, Pixels, NotYetDrawn, NothingToSend, FirstIsNotCapped,
       AllWait, NoneForgotten, Running, Live
  <1> QED
    BY <1>1, <1>2, <1>3

LEMMA ViewStep == Structure /\ View /\ [Next]_vars => View'
  <1> SUFFICES ASSUME Structure, View, [Next]_vars PROVE View'
    OBVIOUS
  <1> USE DEF View, UnfittedIsDirty, SeenOnPage, BlankTillSeen
  <1>0. /\ page \in BOOLEAN /\ seen \in BOOLEAN /\ fitted \in BOOLEAN
        /\ dirty \subseteq Tiles /\ DOMAIN shown = Tiles
    BY DEF Structure, TypeOK
  <1>1. CASE StartSession
    BY <1>1 DEF StartSession
  <1>2. CASE Disconnect
    BY <1>2 DEF Disconnect
  <1>3. CASE Relayout
    BY <1>3 DEF Relayout, viewVars
  <1>4. CASE EmitFrame
    <2>1. UNCHANGED <<page, fitted, shown>> /\ OnFrameReady(Msg.rect)
      BY <1>4 DEF EmitFrame
    <2>2. Msg.rect \subseteq Tiles
      BY <1>4, Took DEF EmitFrame, Structure, Message
    <2>3. ~fitted /\ page => dirty' = Tiles
      BY <1>0, <2>1, <2>2 DEF OnFrameReady, MapSourceRect
    <2> QED
      BY <1>0, <2>1, <2>3 DEF OnFrameReady
  <1>5. ASSUME NEW t \in Tiles, Paint(t) PROVE View'
    <2>1. shown' = [shown EXCEPT ![t] = Picture(t)] /\ fitted' = TRUE
          /\ UNCHANGED <<page, seen>>
      BY <1>5 DEF Paint
    <2>2. ~seen => Picture(t) = White
      BY DEF Picture
    <2> QED
      BY <1>0, <2>1, <2>2
  <1>6. CASE UNCHANGED viewVars
    BY <1>6 DEF viewVars
  <1> QED
    BY <1>1, <1>2, <1>3, <1>4, <1>5, <1>6
    DEF Next, Client, Serve, vars, clientVars, wireVars, serverVars, Connect,
        GetAck, Blit, Announce, SendCursorPos, SayBye, Die, OnNewConnection,
        HandleHello, DropFrame, HandleCursor, DropClient, PeriodPasses

(* A vnsee that is not running has no pixels to account for.               *)
LEMMA PixelsOver == ~Running' => Pixels'
  BY DEF Running, Live, Up, Pixels, NotYetDrawn, NothingToSend,
     FirstIsNotCapped, AllWait, NoneForgotten

(* Steps that announce nothing, draw nothing and paint nothing.            *)
LEMMA PixelsStable ==
  ASSUME Pixels, FirstIsNotCapped',
         UNCHANGED <<session, shm, sending, seen, base, shown>>,
         Running' => Running,
         UNCHANGED proc \/ (~Live /\ ~Live'),
         dirty \subseteq dirty', skipped \subseteq skipped',
         Live => \A m \in In(chan[session]) :
                     m.rect # {} => m \in In(chan'[session])
  PROVE  Pixels'
  <1>1. (Live' <=> Live) /\ (Live => Running)
    BY DEF Live, Running, Up
  <1>2. Live => \A t : Waits(t) => Waits(t)'
    BY DEF Waits
  <1>3. NotYetDrawn'
    BY <1>1 DEF Pixels, NotYetDrawn
  <1>4. NothingToSend'
    <2>1. CASE UNCHANGED proc
      BY <2>1 DEF Pixels, NothingToSend
    <2>2. CASE ~Live /\ ~Live'
      <3>1. Running' => proc[session] # "drawn"
        BY <2>2 DEF Live, Up, Running
      <3> QED
        BY <3>1 DEF Pixels, NothingToSend
    <2> QED
      BY <2>1, <2>2
  <1>5. AllWait'
    BY <1>1, <1>2 DEF Pixels, AllWait
  <1>6. NoneForgotten'
    BY <1>1, <1>2 DEF Pixels, NoneForgotten
  <1> QED
    BY <1>3, <1>4, <1>5, <1>6 DEF Pixels

(* Of a message taken only a frame is missed.                              *)
LEMMA OtherTaken ==
  ASSUME Structure, NEW kind, kind # "frame", Arrived(kind), Take,
         NEW c \in Session
  PROVE  \A m \in In(chan[c]) : m.rect # {} => m \in In(chan'[c])
  <1>1. /\ socket \in Session /\ Msg.kind = kind
        /\ In(chan[socket]) = In(chan'[socket]) \cup {Msg}
        /\ \A d \in Session : d # socket => chan'[d] = chan[d]
    BY Took DEF Structure
  <1>2. Msg.rect = {}
    BY <1>1 DEF Structure, Chans, FramesOnly
  <1> QED
    BY <1>1, <1>2

LEMMA ClientPixels ==
  ASSUME Picturing, Structure', NEW c \in Session, Client(c) PROVE Pixels'
  <1> USE DEF clientVars, wireVars, serverVars, viewVars
  <1>0. /\ proc \in [Session -> {"off", "spawned", "hello", "live", "drawn", "gone"}]
        /\ shm \in [Tiles -> 0 .. cast] /\ cast \in Nat /\ base \in Nat
        /\ Structure /\ Pixels
    <2>1. TypeOK /\ Structure /\ Pixels
      BY DEF Picturing, Structure
    <2>2. MaxFrames \in Nat
      BY Bounds
    <2>3. cast \in Nat
      BY <2>1, <2>2 DEF TypeOK
    <2>4. base \in Nat
      BY <2>1, <2>3 DEF TypeOK
    <2> QED
      BY <2>1, <2>3, <2>4 DEF TypeOK
  <1>1. ASSUME Become(c, "gone"), UNCHANGED session, proc[c] \notin {"off", "gone"}
        PROVE  Pixels'
    <2>1. c = session
      BY <1>0, <1>1, Current
    <2>2. ~Running'
      BY <1>0, <1>1, <2>1 DEF Become, Running
    <2> QED
      BY <2>2, PixelsOver
  <1>2. ASSUME NEW cap \in BOOLEAN, Connect(c, cap) PROVE Pixels'
    <2>1. /\ proc[c] = "spawned" /\ proc' = [proc EXCEPT ![c] = "hello"]
          /\ UNCHANGED <<session, shm, sending, seen, base, shown, dirty,
                         skipped, ack, emitted>>
      BY <1>2 DEF Connect, Become
    <2>2. c = session /\ Running
      BY <1>0, <2>1, Current
    <2>3. ~Live /\ ~Live' /\ proc'[session] = "hello"
      BY <1>0, <2>1, <2>2 DEF Live, Up
    <2>4. FirstIsNotCapped'
      BY <1>0, <2>1, <2>2 DEF Pixels, FirstIsNotCapped
    <2> QED
      BY <1>0, <2>1, <2>2, <2>3, <2>4, PixelsStable
  <1>3. CASE GetAck(c)
    <2>1. CASE ack[c] = "accepted"
      <3>1. /\ proc[c] = "hello" /\ proc' = [proc EXCEPT ![c] = "live"]
            /\ UNCHANGED <<session, shm, sending, seen, base, shown, dirty,
                           skipped, ack, emitted>>
        BY <1>3, <2>1 DEF GetAck, Become
      <3>2. c = session /\ Running /\ ~Live /\ proc'[session] = "live"
        BY <1>0, <3>1, Current DEF Live, Up
      <3>3. Live' /\ Running' /\ \A t \in Tiles : ~(shm'[t] > base')
        BY <1>0, <3>1, <3>2 DEF Live, Running, Up, Pixels, NotYetDrawn
      <3>4. NothingToSend' /\ FirstIsNotCapped'
        BY <1>0, <3>1, <3>2 DEF Pixels, NothingToSend, FirstIsNotCapped
      <3> QED
        BY <3>3, <3>4 DEF Pixels, NotYetDrawn, AllWait, NoneForgotten
    <2>2. CASE ack[c] # "accepted"
      BY <1>1, <1>3, <2>2 DEF GetAck
    <2> QED
      BY <2>1, <2>2
  <1>4. ASSUME NEW r \in Rects, Blit(c, r) PROVE Pixels'
    <2>1. /\ proc[c] = "live" /\ proc' = [proc EXCEPT ![c] = "drawn"]
          /\ shm' = [t \in Tiles |-> IF t \in r THEN cast + 1 ELSE shm[t]]
          /\ sending' = r
          /\ UNCHANGED <<session, seen, base, shown, dirty, skipped, ack,
                         emitted, chan>>
      BY <1>4 DEF Blit, Become
    <2>2. c = session /\ Running /\ Live /\ proc'[session] = "drawn"
      BY <1>0, <2>1, Current DEF Live, Up, Running
    <2>3. Live' /\ Running' /\ sending = {}
      BY <1>0, <2>1, <2>2 DEF Live, Running, Up, Pixels, NothingToSend
    <2>4. NotYetDrawn' /\ NothingToSend' /\ FirstIsNotCapped'
      BY <1>0, <2>1, <2>2, <2>3
      DEF Pixels, NotYetDrawn, NothingToSend, FirstIsNotCapped
    <2>5. \A t \in Tiles : /\ t \in r => Waits(t)'
                           /\ t \notin r => shm'[t] = shm[t] /\ (Waits(t) => Waits(t)')
      BY <2>1, <2>3 DEF Waits
    <2>6. AllWait' /\ NoneForgotten'
      BY <1>0, <2>1, <2>2, <2>5 DEF Pixels, AllWait, NoneForgotten
    <2> QED
      BY <2>4, <2>6 DEF Pixels
  <1>5. CASE Announce(c)
    <2>1. /\ proc[c] = "drawn" /\ proc' = [proc EXCEPT ![c] = "live"]
          /\ sending' = {} /\ Send(c, Frame(sending))
          /\ UNCHANGED <<session, shm, seen, base, shown, dirty, skipped, ack,
                         emitted>>
      BY <1>5 DEF Announce, Become
    <2>2. c = session /\ Running /\ Live
      BY <1>0, <2>1, Current DEF Live, Up, Running
    <2>3. Live' /\ Running'
      BY <1>0, <2>1, <2>2 DEF Live, Running, Up
    <2>4. NotYetDrawn' /\ NothingToSend' /\ FirstIsNotCapped'
      BY <1>0, <2>1, <2>2, <2>3
      DEF Pixels, NotYetDrawn, NothingToSend, FirstIsNotCapped
    <2>5. Frame(sending) \in Message /\ Frame(sending).rect = sending
      BY <1>0, MessageFacts DEF Structure, TypeOK
    <2>6. In(chan'[session]) = In(chan[session]) \cup {Frame(sending)}
      BY <1>0, <2>1, <2>2, <2>5, Sent DEF Structure
    <2>7. \A t : Waits(t) => Waits(t)'
      BY <2>1, <2>5, <2>6 DEF Waits
    <2>8. AllWait' /\ NoneForgotten'
      BY <1>0, <2>1, <2>2, <2>7 DEF Pixels, AllWait, NoneForgotten
    <2> QED
      BY <2>4, <2>8 DEF Pixels
  <1>6. ASSUME NEW p \in Spots, SendCursorPos(c, p) PROVE Pixels'
    <2>1. /\ \/ Send(c, CursorC2S(p)) \/ UNCHANGED chan
          /\ proc[c] = "live"
          /\ UNCHANGED <<session, proc, shm, sending, seen, base, shown, dirty,
                         skipped, ack, emitted>>
      BY <1>6 DEF SendCursorPos
    <2>2. c = session
      BY <1>0, <2>1, Current
    <2>3. CursorC2S(p) \in Message
      BY MessageFacts
    <2>4. In(chan[session]) \subseteq In(chan'[session])
      BY <1>0, <2>1, <2>2, <2>3, Sent DEF Structure
    <2>5. (Running' <=> Running) /\ (Live' <=> Live) /\ FirstIsNotCapped'
      BY <1>0, <2>1 DEF Running, Live, Up, Pixels, FirstIsNotCapped
    <2> QED
      BY <1>0, <2>1, <2>4, <2>5, PixelsStable
  <1>7. CASE SayBye(c)
    BY <1>1, <1>7 DEF SayBye
  <1>8. CASE Die(c)
    BY <1>1, <1>8 DEF Die
  <1> QED
    BY <1>2, <1>3, <1>4, <1>5, <1>6, <1>7, <1>8 DEF Client

(* The server and the page.                                                *)
LEMMA PixelsStep == Picturing /\ [Next]_vars => Pixels'
  <1> SUFFICES ASSUME Picturing, [Next]_vars PROVE Pixels'
    OBVIOUS
  <1> USE DEF clientVars, wireVars, serverVars, viewVars
  <1>0. Structure /\ View /\ Pixels /\ Structure' /\ TypeOK
    BY StructureStep DEF Picturing, Structure
  <1>00. /\ session \in Session \cup {None} /\ DOMAIN shown = Tiles
         /\ proc \in [Session -> {"off", "spawned", "hello", "live", "drawn", "gone"}]
         /\ ack \in [Session -> {"none", "accepted", "refused"}]
         /\ shm \in [Tiles -> 0 .. cast] /\ dirty \subseteq Tiles
    BY <1>0, Bounds DEF TypeOK
  <1>000. session \in Nat /\ cast \in Nat
    <2>1. MaxFrames \in Nat
      BY Bounds
    <2> QED
      BY <1>0, <1>00, <2>1, Bounds DEF TypeOK, None
  <1>1. CASE UNCHANGED <<session, proc, shm, sending, seen, base, shown, dirty,
                         skipped, ack, emitted, chan>>
    <2>1. (Running' <=> Running) /\ FirstIsNotCapped'
      BY <1>0, <1>1 DEF Running, Pixels, FirstIsNotCapped
    <2> QED
      BY <1>0, <1>1, <2>1, PixelsStable
  <1>2. CASE StartSession
    <2>1. /\ session' = session + 1 /\ session + 1 \in Session
          /\ proc'[session + 1] = "spawned"
          /\ sending' = {} /\ base' = cast /\ UNCHANGED <<shm, ack>>
      BY <1>00, <1>000, <1>2, Bounds DEF StartSession, Become, Session
    <2>2. ~Live' /\ ack[session + 1] = "none"
      BY <1>0, <1>000, <2>1, Bounds DEF Live, Up, Structure, Procs, OneAtATime
    <2>3. \A t \in Tiles : shm'[t] <= base'
      BY <1>00, <1>000, <2>1
    <2> QED
      BY <2>1, <2>2, <2>3
      DEF Pixels, NotYetDrawn, NothingToSend, FirstIsNotCapped, AllWait, NoneForgotten
  <1>3. CASE Disconnect
    <2>1. ~Running'
      BY <1>00, <1>3, Bounds DEF Disconnect, Become, Running
    <2> QED
      BY <2>1, PixelsOver
  <1>4. CASE Relayout
    <2>1. /\ UNCHANGED <<session, proc, shm, sending, seen, base, shown, skipped,
                         ack, emitted, chan>>
          /\ dirty \subseteq dirty'
      BY <1>00, <1>4 DEF Relayout
    <2>2. (Running' <=> Running) /\ FirstIsNotCapped'
      BY <1>0, <2>1 DEF Running, Pixels, FirstIsNotCapped
    <2> QED
      BY <1>0, <2>1, <2>2, PixelsStable
  <1>5. ASSUME NEW c \in Session, Client(c) PROVE Pixels'
    BY <1>0, <1>5, ClientPixels
  <1>6. CASE OnNewConnection
    <2>1. /\ UNCHANGED <<session, proc, shm, sending, seen, base, shown, dirty,
                         skipped, emitted, chan>>
          /\ \A c \in Session : ack'[c] = "accepted" => ack[c] = "accepted"
      BY <1>00, <1>6 DEF OnNewConnection
    <2>2. (Running' <=> Running) /\ FirstIsNotCapped'
      BY <1>0, <1>00, <2>1 DEF Running, Pixels, FirstIsNotCapped
    <2> QED
      BY <1>0, <2>1, <2>2, PixelsStable
  <1>7. CASE HandleHello \/ HandleCursor
    <2>1. PICK kind \in {"hello", "cursor"} :
            /\ Arrived(kind) /\ Take
            /\ UNCHANGED <<session, proc, shm, sending, seen, base, shown, dirty,
                           skipped>>
            /\ \/ emitted' = "never"
               \/ UNCHANGED <<emitted, ack>>
      BY <1>7 DEF HandleHello, HandleCursor
    <2>2. (Running' <=> Running) /\ FirstIsNotCapped'
      BY <1>0, <2>1 DEF Running, Pixels, FirstIsNotCapped
    <2>3. Live => session \in Session
      BY <1>00 DEF Live
    <2>4. Live => \A m \in In(chan[session]) :
                      m.rect # {} => m \in In(chan'[session])
      BY <1>0, <2>1, <2>3, OtherTaken
    <2> QED
      BY <1>0, <2>1, <2>2, <2>4, PixelsStable
  <1>8. CASE DropClient
    <2>1. UNCHANGED <<session, proc, shm, sending, seen, base, shown, dirty,
                      skipped, ack, emitted>>
      BY <1>8 DEF DropClient
    <2>2. (Running' <=> Running) /\ FirstIsNotCapped'
      BY <1>0, <2>1 DEF Running, Pixels, FirstIsNotCapped
    <2>3. Live => session \in Session
      BY <1>00 DEF Live
    <2>4. Live => \A m \in In(chan[session]) :
                      m.rect # {} => m \in In(chan'[session])
      BY <1>0, <1>8, <2>3, OtherTaken DEF DropClient
    <2> QED
      BY <1>0, <2>1, <2>2, <2>4, PixelsStable
  <1>9. CASE PeriodPasses
    <2>1. UNCHANGED <<session, proc, shm, sending, seen, base, shown, dirty,
                      skipped, ack, chan>> /\ emitted = "recent"
      BY <1>9 DEF PeriodPasses
    <2>2. (Running' <=> Running) /\ FirstIsNotCapped'
      BY <1>0, <2>1 DEF Running, Pixels, FirstIsNotCapped
    <2> QED
      BY <1>0, <2>1, <2>2, PixelsStable
  (* A frame taken: of what waited, its rectangle is dirty or skipped.     *)
  <1>10. CASE DropFrame \/ EmitFrame
    <2>1. /\ Arrived("frame") /\ Take
          /\ UNCHANGED <<session, proc, shm, sending, base, shown, ack>>
      BY <1>10 DEF DropFrame, EmitFrame
    <2>2. /\ socket \in Session /\ Msg.rect \subseteq Tiles
          /\ In(chan[socket]) = In(chan'[socket]) \cup {Msg}
      BY <1>0, <2>1, Took DEF Message
    <2>3. (Running' <=> Running) /\ (Live' <=> Live)
      BY <2>1 DEF Running, Live, Up
    <2>4. NotYetDrawn' /\ NothingToSend'
      BY <1>0, <2>1, <2>3 DEF Pixels, NotYetDrawn, NothingToSend
    <2>5. Live => \A t : Waits(t) => Waits(t)' \/ t \in Msg.rect
      BY <1>0, <2>1, <2>2, LiveServed DEF Waits
    <2>6. CASE DropFrame
      <3>1. /\ skipped' = skipped \cup Msg.rect /\ emitted = "recent"
            /\ UNCHANGED <<seen, dirty, emitted>>
        BY <2>6 DEF DropFrame, TooSoon
      <3>2. FirstIsNotCapped' /\ (Live => seen)
        BY <1>0, <2>1, <2>3, <3>1, LiveServed
        DEF Pixels, FirstIsNotCapped
      <3> QED
        BY <1>0, <2>1, <2>3, <2>4, <2>5, <3>1, <3>2
        DEF Pixels, AllWait, NoneForgotten
    <2>7. CASE EmitFrame
      <3>1. UNCHANGED <<page, fitted, skipped>> /\ OnFrameReady(Msg.rect)
        BY <2>7 DEF EmitFrame
      <3>2. page => seen' /\ Msg.rect \subseteq dirty' /\ dirty \subseteq dirty'
        <4>1. page => seen'
          BY <3>1 DEF OnFrameReady
        <4>2. CASE page /\ ~seen
          BY <1>00, <2>2, <3>1, <4>1, <4>2 DEF OnFrameReady
        <4>3. CASE page /\ seen /\ fitted
          BY <3>1, <4>1, <4>3 DEF OnFrameReady, MapSourceRect
        <4>4. CASE page /\ seen /\ ~fitted
          BY <1>0, <2>2, <3>1, <4>1, <4>4
          DEF OnFrameReady, MapSourceRect, View, UnfittedIsDirty
        <4> QED
          BY <4>1, <4>2, <4>3, <4>4
      <3>3. Running => page
        BY <1>0 DEF Structure, Procs, PageOfRunning
      <3>4. FirstIsNotCapped' /\ AllWait'
        BY <2>3, <3>2, <3>3, LiveServed, <1>0 DEF FirstIsNotCapped, AllWait
      <3>5. ASSUME Live, NEW t \in Tiles, shm[t] > base
            PROVE  shown[t] = shm[t] \/ t \in dirty' \/ t \in skipped \/ Waits(t)'
        <4>1. shown[t] = shm[t] \/ t \in dirty \/ t \in skipped \/ Waits(t)
          BY <1>0, <3>5 DEF Pixels, NoneForgotten
        <4>2. page
          BY <1>0, <3>5, LiveServed
        <4> QED
          BY <2>5, <3>2, <3>5, <4>1, <4>2
      <3>6. NoneForgotten'
        BY <2>1, <2>3, <3>1, <3>5 DEF NoneForgotten
      <3> QED
        BY <2>4, <3>4, <3>6 DEF Pixels
    <2> QED
      BY <1>10, <2>6, <2>7
  <1>11. ASSUME NEW t \in Tiles, Paint(t) PROVE Pixels'
    <2>1. /\ UNCHANGED <<session, proc, shm, sending, seen, base, ack, emitted, chan>>
          /\ shown' = [shown EXCEPT ![t] = Picture(t)]
          /\ dirty' = dirty \ {t} /\ skipped' = skipped \ {t}
      BY <1>11 DEF Paint
    <2>2. (Running' <=> Running) /\ (Live' <=> Live)
          /\ \A u : Waits(u) <=> Waits(u)'
      BY <2>1 DEF Running, Live, Up, Waits
    <2>3. Live /\ seen => Picture(t) = shm[t]
      BY <1>0, LiveServed, Bounds DEF Picture
    <2>4. NotYetDrawn' /\ NothingToSend' /\ FirstIsNotCapped' /\ AllWait'
      BY <1>0, <2>1, <2>2
      DEF Pixels, NotYetDrawn, NothingToSend, FirstIsNotCapped, AllWait
    <2>5. ASSUME Live, NEW u \in Tiles, shm[u] > base
          PROVE  shown'[u] = shm[u] \/ u \in dirty' \/ u \in skipped' \/ Waits(u)'
      <3>1. CASE u # t
        BY <1>0, <1>00, <2>1, <2>2, <2>5, <3>1 DEF Pixels, NoneForgotten
      <3>2. CASE u = t /\ seen
        BY <1>00, <2>1, <2>3, <2>5, <3>2
      <3>3. CASE u = t /\ ~seen
        BY <1>0, <2>2, <2>5, <3>3 DEF Pixels, AllWait
      <3> QED
        BY <3>1, <3>2, <3>3
    <2>6. NoneForgotten'
      BY <2>1, <2>2, <2>5 DEF NoneForgotten
    <2> QED
      BY <2>4, <2>6 DEF Pixels
  <1> QED
    BY <1>1, <1>2, <1>3, <1>4, <1>5, <1>6, <1>7, <1>8, <1>9, <1>10, <1>11
    DEF Next, Serve, vars

LEMMA PicturingInvariance == Spec => []Picturing
  <1>1. Picturing /\ [Next]_vars => Picturing'
    BY StructureStep, ViewStep, PixelsStep DEF Picturing
  <1> QED
    BY <1>1, InitPicturing, PTL DEF Spec

(* Every pixel that vnsee has written to shared memory is on the page, or  *)
(* is waiting to be painted or announced, or fell to the frame cap: no     *)
(* interleaving of send_all(), the handlers of the server, mapSourceRect() *)
(* and paint() forgets one.                                                *)
THEOREM NoPixelForgotten == Spec => []NothingForgotten
  <1> QED
    BY PicturingInvariance, NoneIsForgotten, PTL

-----------------------------------------------------------------------------
(* The refinement of Mirror.                                               *)

OwnNow(p, b) == [t \in Tiles |-> IF p[t] > b THEN p[t] ELSE White]
MirrorMoves == M!Next \/ UNCHANGED <<Live, Own(shm), Own(shown)>>

LEMMA OwnIs == /\ Own(shm) = OwnNow(shm, base) /\ Own(shm)' = OwnNow(shm', base')
               /\ Own(shown) = OwnNow(shown, base)
               /\ Own(shown)' = OwnNow(shown', base')
  BY DEF Own, OwnNow

LEMMA OwnBlank ==
  ASSUME NEW p, NEW b \in Nat, \A t \in Tiles : p[t] = White \/ ~(p[t] > b)
  PROVE  OwnNow(p, b) = M!AllBlank
  BY DEF OwnNow, M!AllBlank, M!Blank, White

LEMMA MirrorClient ==
  ASSUME Picturing, Picturing', NEW c \in Session, Client(c) PROVE MirrorMoves
  <1> USE DEF clientVars, wireVars, serverVars, viewVars
  <1>0. Structure /\ Pixels /\ TypeOK
    BY DEF Picturing, Structure
  <1>00. /\ session \in Session \cup {None} /\ cast \in 0 .. MaxFrames /\ base \in 0 .. cast
         /\ proc \in [Session -> {"off", "spawned", "hello", "live", "drawn", "gone"}]
         /\ shm \in [Tiles -> 0 .. cast]
    BY <1>0, Bounds DEF TypeOK
  <1>000. cast \in Nat /\ base \in Nat
    <2>1. MaxFrames \in Nat
      BY Bounds
    <2> QED
      BY <1>00, <2>1
  (* One that goes on, without drawing.                                    *)
  <1>1. ASSUME UNCHANGED <<session, shm, shown, base>>, Live <=> Live'
        PROVE  MirrorMoves
    BY <1>1 DEF MirrorMoves, Own
  (* A vnsee that ends.                                                    *)
  <1>2. ASSUME Become(c, "gone"), UNCHANGED <<session, shm, shown, base>>,
               proc[c] \notin {"off", "gone"}
        PROVE  MirrorMoves
    <2>1. c = session
      BY <1>0, <1>2, Current
    <2>2. ~Live'
      BY <1>00, <1>2, <2>1 DEF Become, Live, Up
    <2>3. Own(shm)' = Own(shm) /\ Own(shown)' = Own(shown)
      BY <1>2 DEF Own
    <2>4. CASE Live
      BY <2>2, <2>3, <2>4 DEF MirrorMoves, M!Next, M!End
    <2>5. CASE ~Live
      BY <1>1, <1>2, <2>2, <2>5
    <2> QED
      BY <2>4, <2>5
  <1>3. ASSUME NEW cap \in BOOLEAN, Connect(c, cap) PROVE MirrorMoves
    <2>1. /\ proc[c] = "spawned" /\ proc' = [proc EXCEPT ![c] = "hello"]
          /\ UNCHANGED <<session, shm, base, shown>>
      BY <1>3 DEF Connect, Become
    <2>2. ~Live /\ ~Live'
      BY <1>0, <1>00, <2>1, Current DEF Live, Up
    <2> QED
      BY <1>1, <2>1, <2>2
  <1>4. CASE GetAck(c)
    <2>1. CASE ack[c] = "accepted"
      <3>1. /\ proc[c] = "hello" /\ proc' = [proc EXCEPT ![c] = "live"]
            /\ UNCHANGED <<session, shm, base, shown>>
        BY <1>4, <2>1 DEF GetAck, Become
      <3>2. c = session /\ Running /\ ~Live /\ Live'
        BY <1>0, <1>00, <3>1, Current DEF Live, Up, Running
      <3>3. \A t \in Tiles : ~(shm[t] > base)
        BY <1>0, <1>00, <1>000, <3>2 DEF Pixels, NotYetDrawn
      <3>4. Own(shm) = M!AllBlank
        BY <1>000, <3>3, OwnIs, OwnBlank
      <3>5. Own(shm)' = Own(shm) /\ Own(shown)' = Own(shown)
        BY <3>1 DEF Own
      <3> QED
        BY <3>2, <3>4, <3>5 DEF MirrorMoves, M!Next, M!Begin
    <2>2. CASE ack[c] # "accepted"
      BY <1>2, <1>4, <2>2 DEF GetAck
    <2> QED
      BY <2>1, <2>2
  <1>5. ASSUME NEW r \in Rects, Blit(c, r) PROVE MirrorMoves
    <2>1. /\ proc[c] = "live" /\ proc' = [proc EXCEPT ![c] = "drawn"]
          /\ shm' = [t \in Tiles |-> IF t \in r THEN cast + 1 ELSE shm[t]]
          /\ UNCHANGED <<session, base, shown>>
      BY <1>5 DEF Blit, Become
    <2>2. Live /\ Live'
      BY <1>0, <1>00, <2>1, Current DEF Live, Up, Running
    <2>3. Own(shown)' = Own(shown)
      BY <2>1 DEF Own
    <2>4. \A t \in Tiles : shm'[t] \in Nat /\ shm'[t] >= shm[t]
      BY <1>00, <1>000, <2>1
    <2>5. Own(shm)' \in [Tiles -> Nat]
      BY <2>4, OwnIs DEF OwnNow, White
    <2>6. \A t \in Tiles : Own(shm)'[t] >= Own(shm)[t]
      <3> SUFFICES ASSUME NEW t \in Tiles PROVE Own(shm)'[t] >= Own(shm)[t]
        OBVIOUS
      <3>1. /\ Own(shm)'[t] = IF shm'[t] > base THEN shm'[t] ELSE White
            /\ Own(shm)[t] = IF shm[t] > base THEN shm[t] ELSE White
        BY <2>1, OwnIs DEF OwnNow
      <3> QED
        BY <1>00, <1>000, <2>4, <3>1 DEF White
    <2> QED
      BY <2>2, <2>3, <2>5, <2>6 DEF MirrorMoves, M!Next, M!Draw
  <1>6. CASE Announce(c)
    <2>1. /\ proc[c] = "drawn" /\ proc' = [proc EXCEPT ![c] = "live"]
          /\ UNCHANGED <<session, shm, base, shown>>
      BY <1>6 DEF Announce, Become
    <2>2. Live /\ Live'
      BY <1>0, <1>00, <2>1, Current DEF Live, Up, Running
    <2> QED
      BY <1>1, <2>1, <2>2
  <1>7. ASSUME NEW p \in Spots, SendCursorPos(c, p) PROVE MirrorMoves
    <2>1. UNCHANGED <<session, proc, shm, base, shown>>
      BY <1>7 DEF SendCursorPos
    <2> QED
      BY <1>1, <2>1 DEF Live, Up
  <1>8. CASE SayBye(c)
    BY <1>2, <1>8 DEF SayBye
  <1>9. CASE Die(c)
    BY <1>2, <1>9 DEF Die
  <1> QED
    BY <1>3, <1>4, <1>5, <1>6, <1>7, <1>8, <1>9 DEF Client

LEMMA MirrorStep ==
  Picturing /\ Picturing' /\ [Next]_vars => [M!Next]_<<Live, Own(shm), Own(shown)>>
  <1> SUFFICES ASSUME Picturing, Picturing', [Next]_vars PROVE MirrorMoves
    BY DEF MirrorMoves
  <1> USE DEF clientVars, wireVars, serverVars, viewVars
  <1>0. Structure /\ View /\ Pixels /\ TypeOK
    BY DEF Picturing, Structure
  <1>00. /\ session \in Session \cup {None} /\ cast \in 0 .. MaxFrames /\ base \in 0 .. cast
         /\ proc \in [Session -> {"off", "spawned", "hello", "live", "drawn", "gone"}]
         /\ shm \in [Tiles -> 0 .. cast] /\ DOMAIN shown = Tiles
    BY <1>0, Bounds DEF TypeOK
  <1>000. session \in Nat /\ cast \in Nat /\ base \in Nat
    <2>1. MaxFrames \in Nat
      BY Bounds
    <2>2. cast \in Nat
      BY <1>00, <2>1
    <2> QED
      BY <1>00, <2>2, Bounds DEF None
  <1>1. CASE UNCHANGED <<session, proc, shm, shown, base>>
    BY <1>1 DEF MirrorMoves, Own, Live, Up
  <1>2. CASE StartSession
    <2>1. /\ session' = session + 1 /\ session + 1 \in Session
          /\ proc'[session + 1] = "spawned" /\ ~Running
          /\ base' = cast /\ UNCHANGED shm
          /\ \A t \in Tiles : shown'[t] = White
      BY <1>00, <1>000, <1>2, Bounds DEF StartSession, Become, Session
    <2>2. ~Live /\ ~Live'
      BY <2>1 DEF Live, Up, Running
    <2>3. \A t \in Tiles : ~(shm'[t] > base')
      BY <1>00, <1>000, <2>1
    <2>4. Own(shm)' = M!AllBlank /\ Own(shown)' = M!AllBlank
      BY <1>000, <2>1, <2>3, OwnIs, OwnBlank
    <2> QED
      BY <2>2, <2>4 DEF MirrorMoves, M!Next, M!Turn
  <1>3. CASE Disconnect
    <2>1. ~Live'
      BY <1>00, <1>3, Bounds DEF Disconnect, Become, Live, Up
    <2>2. /\ UNCHANGED <<shm, base>>
          /\ \A t \in Tiles : shown'[t] = White
      BY <1>3 DEF Disconnect
    <2>3. Own(shm)' = Own(shm) /\ Own(shown)' = M!AllBlank
      BY <1>000, <2>2, OwnIs, OwnBlank
    <2> QED
      BY <2>1, <2>3 DEF MirrorMoves, M!Next, M!Turn, M!End
  <1>4. ASSUME NEW c \in Session, Client(c) PROVE MirrorMoves
    BY <1>4, MirrorClient
  <1>5. ASSUME NEW t \in Tiles, Paint(t) PROVE MirrorMoves
    <2>1. /\ UNCHANGED <<session, proc, shm, base>>
          /\ shown' = [shown EXCEPT ![t] = Picture(t)]
      BY <1>5 DEF Paint
    <2>2. (Live' <=> Live) /\ Own(shm)' = Own(shm)
      BY <2>1 DEF Live, Up, Own
    <2>3. Picture(t) = White \/ Picture(t) = shm[t]
      BY DEF Picture
    <2>4. CASE Picture(t) = shm[t]
      <3>1. Own(shown)' = [Own(shown) EXCEPT ![t] = Own(shm)[t]]
        BY <1>00, <2>1, <2>4, OwnIs DEF OwnNow
      <3>2. M!Show(t)
        BY <2>2, <3>1 DEF M!Show
      <3> QED
        BY <3>2 DEF MirrorMoves, M!Next
    <2>5. CASE Picture(t) = White /\ ~Live
      <3>1. Own(shown)' = [Own(shown) EXCEPT ![t] = M!Blank]
        BY <1>00, <2>1, <2>5, OwnIs DEF OwnNow, M!Blank, White
      <3>2. M!Clear(t)
        BY <2>2, <2>5, <3>1 DEF M!Clear
      <3> QED
        BY <3>2 DEF MirrorMoves, M!Next
    <2>6. CASE Picture(t) # shm[t] /\ Live
      <3>1. socket # None
        BY <1>0, <2>6, LiveServed, Bounds
      <3>2. ~seen /\ Picture(t) = White
        BY <2>6, <3>1 DEF Picture
      <3>3. shown[t] = White
        BY <1>0, <3>2 DEF View, BlankTillSeen
      <3>4. shown' = shown
        BY <1>0, <2>1, <3>2, <3>3 DEF TypeOK
      <3> QED
        BY <1>1, <2>1, <3>4
    <2> QED
      BY <2>3, <2>4, <2>5, <2>6
  <1> QED
    BY <1>1, <1>2, <1>3, <1>4, <1>5
    DEF Next, Serve, vars, Relayout, OnNewConnection, HandleHello, DropFrame,
        EmitFrame, HandleCursor, DropClient, PeriodPasses

(* The way of a picture through vncast_client.cpp, server.cpp and          *)
(* frame_view.cpp implements Mirror: a session begins with nothing of its  *)
(* own drawn, and while it lasts a tile of the page only ever catches up.  *)
THEOREM ImplementsMirror == Spec => MirrorSpec
  <1>1. Init => M!Init
    <2> SUFFICES ASSUME Init PROVE M!Init
      OBVIOUS
    <2>1. ~Live /\ base = 0 /\ 0 \in Nat
      BY DEF Init, Live
    <2>2. Own(shm) = M!AllBlank /\ Own(shown) = M!AllBlank
      BY <2>1, OwnIs, OwnBlank DEF Init
    <2> QED
      BY <2>1, <2>2 DEF M!Init
  <1>2. Picturing /\ Picturing' /\ [Next]_vars => [M!Next]_(M!vars)
    BY MirrorStep DEF M!vars
  <1> QED
    BY <1>1, <1>2, PicturingInvariance, PTL DEF Spec, MirrorSpec, M!Spec

-----------------------------------------------------------------------------
(* The cursor.                                                             *)

NoCursorIn(s) == \A m \in In(s) : m.kind # "cursor"

(* Of the positions under way the last is p.                               *)
LastIs(s, p) == \A k \in DOMAIN s :
    s[k].kind = "cursor" /\ (\A j \in DOMAIN s : j > k => s[j].kind # "cursor")
        => s[k].spot = p

(* Before it is accepted a vnsee has sent its Hello, and after no other.   *)
HelloOnly == \A c \in Session :
    /\ proc[c] = "hello" => /\ Len(chan[c]) <= 1
                            /\ ack[c] = "accepted" => chan[c] = <<>>
                            /\ \A m \in In(chan[c]) : m.kind = "hello"
    /\ Up(c) => \A m \in In(chan[c]) : m.kind # "hello"
NoCursorYet == \A c \in Session :
    /\ proc[c] \in {"off", "spawned", "hello"} => cursor[c] = NoSpot
    /\ proc[c] = "hello" /\ ack[c] = "accepted" => pointer = NoSpot
LastCursor == Live /\ ~lost => LastIs(chan[session], cursor[session])
Agreed == Live /\ ~lost /\ NoCursorIn(chan[session]) => pointer = cursor[session]
Pointing == HelloOnly /\ NoCursorYet /\ LastCursor /\ Agreed

LEMMA AgreedIs == Agreed => CursorAgrees
  BY DEF Agreed, CursorAgrees, NoCursorIn, In

LEMMA LastTaken ==
  ASSUME NEW s \in Seq(Message), s # <<>>, NEW p, LastIs(s, p)
  PROVE  /\ LastIs(Tail(s), p)
         /\ Head(s).kind = "cursor" /\ NoCursorIn(Tail(s)) => Head(s).spot = p
  <1>1. /\ Head(s) = s[1] /\ Len(s) \in Nat /\ Len(s) > 0
        /\ Tail(s) \in Seq(Message) /\ Len(Tail(s)) = Len(s) - 1
        /\ \A k \in 1 .. Len(s) - 1 : Tail(s)[k] = s[k + 1]
    BY Tailed
  <1>2. DOMAIN s = 1 .. Len(s) /\ DOMAIN Tail(s) = 1 .. Len(s) - 1
    BY <1>1
  <1>3. \A j \in DOMAIN s : j > 1 => j - 1 \in DOMAIN Tail(s) /\ Tail(s)[j - 1] = s[j]
    <2> SUFFICES ASSUME NEW j \in DOMAIN s, j > 1
                 PROVE  j - 1 \in DOMAIN Tail(s) /\ Tail(s)[j - 1] = s[j]
      OBVIOUS
    <2>1. j - 1 \in 1 .. Len(s) - 1 /\ (j - 1) + 1 = j
      BY <1>1, <1>2
    <2> QED
      BY <1>1, <1>2, <2>1
  <1>4. LastIs(Tail(s), p)
    <2> SUFFICES ASSUME NEW k \in DOMAIN Tail(s), Tail(s)[k].kind = "cursor",
                        \A j \in DOMAIN Tail(s) : j > k => Tail(s)[j].kind # "cursor"
                 PROVE  Tail(s)[k].spot = p
      BY DEF LastIs
    <2>1. k + 1 \in DOMAIN s /\ Tail(s)[k] = s[k + 1] /\ k \in Nat
      BY <1>1, <1>2
    <2>2. ASSUME NEW j \in DOMAIN s, j > k + 1 PROVE s[j].kind # "cursor"
      <3>1. j > 1 /\ j - 1 > k
        BY <1>2, <2>1, <2>2
      <3> QED
        BY <1>3, <3>1
    <2> QED
      BY <2>1, <2>2 DEF LastIs
  <1>5. ASSUME Head(s).kind = "cursor", NoCursorIn(Tail(s)) PROVE Head(s).spot = p
    <2>1. 1 \in DOMAIN s
      BY <1>1, <1>2
    <2>2. \A j \in DOMAIN s : j > 1 => s[j].kind # "cursor"
      BY <1>3, <1>5 DEF NoCursorIn, In
    <2> QED
      BY <1>1, <1>5, <2>1, <2>2 DEF LastIs
  <1> QED
    BY <1>4, <1>5

LEMMA LastSent ==
  ASSUME NEW s \in Seq(Message), NEW m \in Message, NEW p,
         \/ m.kind = "cursor" /\ m.spot = p
         \/ m.kind # "cursor" /\ LastIs(s, p)
  PROVE  LastIs(Append(s, m), p)
  <1>1. /\ Append(s, m) \in Seq(Message)
        /\ Len(Append(s, m)) = Len(s) + 1 /\ Len(s) \in Nat
        /\ \A k \in 1 .. Len(s) : Append(s, m)[k] = s[k]
        /\ Append(s, m)[Len(s) + 1] = m
    BY Appended
  <1>2. DOMAIN s = 1 .. Len(s) /\ DOMAIN Append(s, m) = 1 .. Len(s) + 1
    BY <1>1
  <1> SUFFICES ASSUME NEW k \in 1 .. Len(s) + 1, Append(s, m)[k].kind = "cursor",
                      \A j \in 1 .. Len(s) + 1 :
                          j > k => Append(s, m)[j].kind # "cursor"
               PROVE  Append(s, m)[k].spot = p
    BY <1>2 DEF LastIs
  <1>3. CASE k = Len(s) + 1
    BY <1>1, <1>3
  <1>4. CASE k # Len(s) + 1
    <2>1. k \in 1 .. Len(s) /\ Len(s) + 1 > k /\ Len(s) + 1 \in 1 .. Len(s) + 1
      BY <1>1, <1>4
    <2>2. m.kind # "cursor"
      BY <1>1, <2>1
    <2>3. \A j \in 1 .. Len(s) : j > k => s[j].kind # "cursor"
      BY <1>1
    <2> QED
      BY <1>1, <1>2, <2>1, <2>2, <2>3 DEF LastIs
  <1> QED
    BY <1>3, <1>4

LEMMA InitPointing == Init => Pointing
  BY DEF Init, Pointing, HelloOnly, NoCursorYet, LastCursor, Agreed, Live, Up

LEMMA ClientPointing ==
  ASSUME Structure, Structure', Pointing, NEW c \in Session, Client(c)
  PROVE  Pointing'
  <1> USE DEF clientVars, wireVars, serverVars, viewVars
  <1>0. /\ proc \in [Session -> {"off", "spawned", "hello", "live", "drawn", "gone"}]
        /\ cursor \in [Session -> Spots \cup {NoSpot}]
        /\ session \in Session \cup {None} /\ TypeOK
        /\ \A d \in Session : chan[d] \in Seq(Message)
    BY Bounds DEF Structure, TypeOK
  (* A vnsee that ends.                                                    *)
  <1>1. ASSUME Become(c, "gone"), UNCHANGED <<session, ack, cursor, pointer>>,
               \A d \in Session : d # c => chan'[d] = chan[d],
               proc[c] \notin {"off", "gone"}
        PROVE  Pointing'
    <2>1. /\ c = session /\ proc'[c] = "gone"
          /\ \A d \in Session : d # c => proc'[d] = proc[d]
      BY <1>0, <1>1, Current DEF Become
    <2>2. ~Live'
      BY <1>1, <2>1 DEF Live, Up
    <2>3. HelloOnly' /\ NoCursorYet'
      BY <1>1, <2>1 DEF Pointing, HelloOnly, NoCursorYet, Up
    <2> QED
      BY <2>2, <2>3 DEF Pointing, LastCursor, Agreed
  <1>2. ASSUME NEW cap \in BOOLEAN, Connect(c, cap) PROVE Pointing'
    <2>1. /\ proc[c] = "spawned" /\ proc'[c] = "hello"
          /\ \A d \in Session : d # c => proc'[d] = proc[d]
          /\ UNCHANGED <<session, ack, cursor, pointer>>
      BY <1>0, <1>2 DEF Connect, Become
    <2>2. chan[c] = <<>> /\ ack[c] # "accepted" /\ c = session
      BY <2>1, Current
      DEF Structure, Procs, Quiet, Order, NotYetConnected, Accepted
    <2>3. /\ In(chan'[c]) = In(chan[c]) \cup {Hello(cap)}
          /\ Len(chan'[c]) = Len(chan[c]) + 1
          /\ \A d \in Session : d # c => chan'[d] = chan[d]
      BY <1>0, <1>2, Sent, MessageFacts DEF Connect
    <2>4. Len(chan'[c]) <= 1 /\ \A m \in In(chan'[c]) : m.kind = "hello"
      BY <2>2, <2>3, MessageFacts DEF In
    <2>5. ~Live'
      BY <2>1, <2>2 DEF Live, Up
    <2>6. HelloOnly' /\ NoCursorYet'
      BY <2>1, <2>2, <2>3, <2>4 DEF Pointing, HelloOnly, NoCursorYet, Up
    <2> QED
      BY <2>5, <2>6 DEF Pointing, LastCursor, Agreed
  <1>3. CASE GetAck(c)
    <2>1. CASE ack[c] = "accepted"
      <3>1. /\ proc[c] = "hello" /\ proc'[c] = "live"
            /\ \A d \in Session : d # c => proc'[d] = proc[d]
            /\ UNCHANGED <<session, chan, ack, cursor, pointer>>
        BY <1>0, <1>3, <2>1 DEF GetAck, Become
      <3>2. /\ c = session /\ chan[c] = <<>> /\ DOMAIN chan[c] = {} /\ In(chan[c]) = {}
            /\ pointer = NoSpot /\ cursor[c] = NoSpot
        BY <2>1, <3>1, Current DEF Pointing, HelloOnly, NoCursorYet, In
      <3>3. HelloOnly' /\ NoCursorYet'
        BY <3>1, <3>2 DEF Pointing, HelloOnly, NoCursorYet, Up
      <3>4. LastCursor' /\ Agreed'
        BY <3>1, <3>2 DEF LastCursor, Agreed, LastIs
      <3> QED
        BY <3>3, <3>4 DEF Pointing
    <2>2. CASE ack[c] # "accepted"
      BY <1>1, <1>3, <2>2 DEF GetAck
    <2> QED
      BY <2>1, <2>2
  <1>4. ASSUME NEW r \in Rects, Blit(c, r) PROVE Pointing'
    <2>1. /\ proc[c] = "live" /\ proc'[c] = "drawn"
          /\ \A d \in Session : d # c => proc'[d] = proc[d]
          /\ UNCHANGED <<session, chan, ack, cursor, pointer, lost>>
      BY <1>0, <1>4 DEF Blit, Become
    <2>2. c = session /\ Live
      BY <1>0, <2>1, Current DEF Live, Up, Running
    <2>3. HelloOnly' /\ NoCursorYet'
      BY <2>1 DEF Pointing, HelloOnly, NoCursorYet, Up
    <2> QED
      BY <2>1, <2>2, <2>3 DEF Pointing, LastCursor, Agreed
  (* A frame or a position sent.                                           *)
  <1>5. ASSUME NEW m \in Message, m.kind \in {"frame", "cursor"}, Send(c, m),
               Up(c), Up(c)', c = session, session' = session,
               \A d \in Session : d # c => proc'[d] = proc[d] /\ cursor'[d] = cursor[d],
               UNCHANGED <<ack, pointer>>,
               \/ m.kind = "cursor" /\ cursor'[c] = m.spot
               \/ m.kind = "frame" /\ UNCHANGED <<cursor, lost>>
        PROVE  Pointing'
    <2>1. /\ In(chan'[c]) = In(chan[c]) \cup {m}
          /\ chan'[c] = Append(chan[c], m)
          /\ \A d \in Session : d # c => chan'[d] = chan[d]
      BY <1>0, <1>5, Sent DEF Send, TypeOK
    <2>2. Live
      BY <1>5, Bounds DEF Live
    <2>3. HelloOnly' /\ NoCursorYet'
      BY <1>5, <2>1 DEF Pointing, HelloOnly, NoCursorYet, Up
    <2>4. LastCursor'
      <3> SUFFICES ASSUME ~lost' PROVE LastIs(chan'[c], cursor'[c])
        BY <1>5 DEF LastCursor
      <3> QED
        BY <1>0, <1>5, <2>1, <2>2, LastSent DEF Pointing, LastCursor
    <2>5. Agreed'
      BY <1>5, <2>1, <2>2 DEF Pointing, Agreed, NoCursorIn
    <2> QED
      BY <2>3, <2>4, <2>5 DEF Pointing
  <1>6. CASE Announce(c)
    <2>1. /\ proc[c] = "drawn" /\ proc'[c] = "live" /\ Send(c, Frame(sending))
          /\ \A d \in Session : d # c => proc'[d] = proc[d]
          /\ UNCHANGED <<session, ack, cursor, pointer, lost>>
      BY <1>0, <1>6 DEF Announce, Become
    <2>2. c = session
      BY <2>1, Current
    <2>3. Frame(sending) \in Message /\ Frame(sending).kind = "frame"
      BY <1>0, MessageFacts DEF TypeOK
    <2> QED
      BY <1>5, <2>1, <2>2, <2>3 DEF Up
  <1>7. ASSUME NEW p \in Spots, SendCursorPos(c, p) PROVE Pointing'
    <2>1. /\ proc[c] = "live" /\ UNCHANGED <<session, proc, ack, pointer>>
          /\ cursor'[c] = p /\ lost' = ~HasRoom(c)
          /\ \A d \in Session : d # c => cursor'[d] = cursor[d]
      BY <1>0, <1>7 DEF SendCursorPos
    <2>2. c = session
      BY <2>1, Current
    <2>3. CASE HasRoom(c)
      <3>1. /\ CursorC2S(p) \in Message /\ CursorC2S(p).kind = "cursor"
            /\ CursorC2S(p).spot = p
        BY MessageFacts
      <3> QED
        BY <1>5, <1>7, <2>1, <2>2, <2>3, <3>1 DEF SendCursorPos, Up
    <2>4. CASE ~HasRoom(c)
      <3>1. UNCHANGED chan /\ lost'
        BY <1>7, <2>1, <2>4 DEF SendCursorPos
      <3>2. HelloOnly' /\ NoCursorYet'
        BY <2>1, <3>1 DEF Pointing, HelloOnly, NoCursorYet, Up
      <3> QED
        BY <3>1, <3>2 DEF Pointing, LastCursor, Agreed
    <2> QED
      BY <2>3, <2>4
  <1>8. CASE SayBye(c)
    <2>1. \A d \in Session : d # c => chan'[d] = chan[d]
      BY <1>0, <1>8, Sent, MessageFacts DEF SayBye
    <2> QED
      BY <1>1, <1>8, <2>1 DEF SayBye
  <1>9. CASE Die(c)
    BY <1>1, <1>9 DEF Die
  <1> QED
    BY <1>2, <1>3, <1>4, <1>6, <1>7, <1>8, <1>9 DEF Client

(* The server and the page.                                                *)
LEMMA PointingStep == Structure /\ Structure' /\ Pointing /\ [Next]_vars => Pointing'
  <1> SUFFICES ASSUME Structure, Structure', Pointing, [Next]_vars PROVE Pointing'
    OBVIOUS
  <1> USE DEF clientVars, wireVars, serverVars, viewVars
  <1>0. /\ proc \in [Session -> {"off", "spawned", "hello", "live", "drawn", "gone"}]
        /\ cursor \in [Session -> Spots \cup {NoSpot}]
        /\ ack \in [Session -> {"none", "accepted", "refused"}]
        /\ session \in Session \cup {None} /\ TypeOK
        /\ \A d \in Session : chan[d] \in Seq(Message)
    BY Bounds DEF Structure, TypeOK
  <1>1. ASSUME UNCHANGED <<session, proc, chan, cursor, lost, pointer>>,
               \A d \in Session : ack'[d] = "accepted" => ack[d] = "accepted"
        PROVE  Pointing'
    BY <1>1
    DEF Pointing, HelloOnly, NoCursorYet, LastCursor, Agreed, Live, Up
  <1>2. CASE StartSession
    <2>1. /\ session + 1 \in Session /\ session' = session + 1
          /\ proc'[session + 1] = "spawned"
          /\ \A d \in Session : d # session + 1 => proc'[d] = proc[d]
          /\ proc[session + 1] = "off" /\ ~Running
          /\ UNCHANGED <<chan, ack, cursor, pointer>>
      <3>1. session \in Nat
        BY <1>0, Bounds DEF None
      <3>2. session + 1 \in Session
        BY <1>2, <3>1, Bounds DEF StartSession, Session
      <3>3. proc[session + 1] = "off"
        BY <1>0, <3>1, <3>2 DEF Structure, Procs, OneAtATime
      <3> QED
        BY <1>0, <1>2, <3>2, <3>3 DEF StartSession, Become
    <2>2. ~Live'
      BY <2>1 DEF Live, Up
    <2>3. HelloOnly' /\ NoCursorYet'
      BY <2>1 DEF Pointing, HelloOnly, NoCursorYet, Up
    <2> QED
      BY <2>2, <2>3 DEF Pointing, LastCursor, Agreed
  <1>3. CASE Disconnect
    <2>1. /\ UNCHANGED <<session, chan, ack, cursor, pointer>>
          /\ \A d \in Session : d # session => proc'[d] = proc[d]
          /\ session \in Session => proc'[session] = "gone"
      BY <1>0, <1>3 DEF Disconnect, Become
    <2>2. ~Live'
      BY <1>0, <2>1, Bounds DEF Live, Up
    <2>3. HelloOnly' /\ NoCursorYet'
      BY <2>1 DEF Pointing, HelloOnly, NoCursorYet, Up
    <2> QED
      BY <2>2, <2>3 DEF Pointing, LastCursor, Agreed
  <1>4. CASE Relayout \/ PeriodPasses \/ \E t \in Tiles : Paint(t)
    BY <1>1, <1>4 DEF Relayout, PeriodPasses, Paint
  <1>5. ASSUME NEW c \in Session, Client(c) PROVE Pointing'
    BY <1>5, ClientPointing
  <1>6. CASE OnNewConnection
    <2>1. /\ UNCHANGED <<session, proc, chan, cursor, lost, pointer>>
          /\ \A d \in Session : ack'[d] = "accepted" => ack[d] = "accepted"
      BY <1>0, <1>6 DEF OnNewConnection
    <2> QED
      BY <1>1, <2>1
  (* A message taken.                                                      *)
  <1>7. ASSUME NEW kind \in {"hello", "frame", "cursor", "bye"}, Arrived(kind), Take
        PROVE  /\ socket \in Session /\ Msg.kind = kind
               /\ Len(chan'[socket]) = Len(chan[socket]) - 1
               /\ chan[socket] \in Seq(Message) /\ chan[socket] # <<>>
               /\ Msg = Head(chan[socket]) /\ chan'[socket] = Tail(chan[socket])
               /\ In(chan[socket]) = In(chan'[socket]) \cup {Msg}
               /\ \A d \in Session : d # socket => chan'[d] = chan[d]
               /\ proc[socket] = "hello" => kind = "hello"
               /\ Up(socket) => kind # "hello"
               /\ chan'[socket] \in Seq(Message)
    <2>1. /\ socket \in Session /\ Msg.kind = kind
          /\ chan[socket] # <<>> /\ chan' \in [Session -> Seq(Message)]
          /\ Len(chan'[socket]) = Len(chan[socket]) - 1
          /\ In(chan[socket]) = In(chan'[socket]) \cup {Msg}
          /\ \A d \in Session : d # socket => chan'[d] = chan[d]
      BY <1>0, <1>7, Took
    <2>2. Msg = Head(chan[socket]) /\ chan'[socket] = Tail(chan[socket])
      BY <1>0, <1>7, <2>1 DEF Msg, Take, TypeOK
    <2>3. Msg \in In(chan[socket])
      BY <2>1
    <2> QED
      BY <1>0, <2>1, <2>2, <2>3 DEF Pointing, HelloOnly
  <1>8. CASE HandleHello
    <2>1. /\ Arrived("hello") /\ Take /\ pointer' = NoSpot
          /\ UNCHANGED <<session, proc, cursor, socket>>
          /\ \A d \in Session : d # socket => ack'[d] = ack[d]
      BY <1>0, <1>8 DEF HandleHello
    <2>2. socket \in Session /\ ~Up(socket)
      BY <1>7, <2>1
    <2>3. ~Live'
      <3>1. ~Live
        BY <2>2, LiveServed DEF Live
      <3> QED
        BY <2>1, <3>1 DEF Live, Up
    <2>4. proc[socket] = "hello" => chan'[socket] = <<>>
      <3> SUFFICES ASSUME proc[socket] = "hello" PROVE chan'[socket] = <<>>
        OBVIOUS
      <3>1. Len(chan[socket]) <= 1 /\ Len(chan[socket]) \in Nat
        BY <1>0, <2>2 DEF Pointing, HelloOnly
      <3>2. /\ Len(chan'[socket]) = Len(chan[socket]) - 1
            /\ chan'[socket] \in Seq(Message)
        BY <1>7, <2>1
      <3>3. Len(chan'[socket]) \in Nat
        BY <3>2
      <3>0. \A i, j \in Nat : i <= 1 /\ j = i - 1 => j = 0
        OBVIOUS
      <3>4. Len(chan'[socket]) = 0
        BY <3>0, <3>1, <3>2, <3>3
      <3> QED
        BY <3>2, <3>4
    <2>5. Len(<<>>) = 0 /\ In(<<>>) = {}
      BY DEF In
    <2>6. HelloOnly' /\ NoCursorYet'
      BY <1>7, <2>1, <2>2, <2>4, <2>5 DEF Pointing, HelloOnly, NoCursorYet, Up
    <2> QED
      BY <2>3, <2>6 DEF Pointing, LastCursor, Agreed
  <1>9. ASSUME NEW kind \in {"frame", "cursor", "bye"}, Arrived(kind), Take,
               UNCHANGED <<session, proc, ack, cursor, lost>>,
               IF kind = "cursor" THEN pointer' = Msg.spot ELSE UNCHANGED pointer
        PROVE  Pointing'
    <2>1. /\ socket \in Session /\ Msg.kind = kind
          /\ chan[socket] \in Seq(Message) /\ chan[socket] # <<>>
          /\ Msg = Head(chan[socket]) /\ chan'[socket] = Tail(chan[socket])
          /\ In(chan[socket]) = In(chan'[socket]) \cup {Msg}
          /\ \A d \in Session : d # socket => chan'[d] = chan[d]
          /\ proc[socket] # "hello"
      BY <1>7, <1>9
    <2>2. HelloOnly'
      BY <1>9, <2>1 DEF Pointing, HelloOnly, Up
    <2>3. NoCursorYet'
      BY <1>9, <2>1 DEF Pointing, NoCursorYet, Structure, Order, Accepted
    <2>4. CASE Live /\ ~lost
      <3>1. socket = session /\ LastIs(chan[session], cursor[session])
        BY <2>4, LiveServed DEF Pointing, LastCursor
      <3>2. /\ LastIs(chan'[session], cursor[session])
            /\ kind = "cursor" /\ NoCursorIn(chan'[session])
                 => Msg.spot = cursor[session]
        BY <2>1, <3>1, LastTaken
      <3>3. kind # "cursor" /\ NoCursorIn(chan'[session]) => NoCursorIn(chan[session])
        BY <2>1, <3>1 DEF NoCursorIn
      <3>4. LastCursor'
        BY <1>9, <3>2 DEF LastCursor
      <3>5. Agreed'
        BY <1>9, <2>4, <3>2, <3>3 DEF Pointing, Agreed
      <3> QED
        BY <2>2, <2>3, <3>4, <3>5 DEF Pointing
    <2>5. CASE ~(Live /\ ~lost)
      <3>1. ~(Live' /\ ~lost')
        BY <1>9, <2>5 DEF Live, Up
      <3> QED
        BY <2>2, <2>3, <3>1 DEF Pointing, LastCursor, Agreed
    <2> QED
      BY <2>4, <2>5
  <1>10. CASE DropFrame \/ EmitFrame \/ HandleCursor
    BY <1>9, <1>10 DEF DropFrame, EmitFrame, HandleCursor
  <1>11. CASE DropClient
    <2>1. UNCHANGED <<session, proc, ack, cursor, lost, pointer>>
      BY <1>11 DEF DropClient
    <2>2. CASE Arrived("bye") /\ Take
      BY <1>9, <2>1, <2>2
    <2>3. CASE UNCHANGED chan
      BY <1>1, <2>1, <2>3
    <2> QED
      BY <1>11, <2>2, <2>3 DEF DropClient
  <1>12. CASE UNCHANGED vars
    BY <1>1, <1>12 DEF vars
  <1> QED
    BY <1>2, <1>3, <1>4, <1>5, <1>6, <1>8, <1>10, <1>11, <1>12 DEF Next, Serve

(* The mark of the cursor follows send_cursor_pos(), through positions in  *)
(* the buffer, positions dropped for want of room and the handleHello() of *)
(* a new vnsee; only a dropped last position keeps it behind.              *)
THEOREM CursorFollows == Spec => []CursorAgrees
  <1>1. Structure /\ Structure' /\ Pointing /\ [Next]_vars => Pointing'
    BY PointingStep
  <1> QED
    BY <1>1, InitPointing, StructureInvariance, AgreedIs, PTL DEF Spec, Pointing
-----------------------------------------------------------------------------
(* What vnsee waits for.                                                   *)

(* A Hello that is not answered is the first of its connection, and that   *)
(* is served or waits to be accepted.                                      *)
Asks(c) == proc[c] = "hello" /\ ack[c] = "none"
Greeting(c) == chan[c] # <<>> /\ Head(chan[c]).kind = "hello"
Greeted == \A c \in Session : Asks(c) => Greeting(c) /\ (c \in In(backlog) \/ socket = c)

LEMMA NeverInVainIs == Structure /\ Greeted => NeverInVain
  <1> SUFFICES ASSUME Structure, Greeted, NEW c \in Session
               PROVE  /\ Asks(c) => Pending(c) \/ (ToTake(c) /\ Greeting(c))
                      /\ proc[c] = "drawn" /\ ~HasRoom(c) => ToTake(c)
    BY DEF NeverInVain, Asks, Greeting
  <1>1. Asks(c) => Pending(c) \/ (ToTake(c) /\ Greeting(c))
    BY DEF Greeted, Greeting, In, Pending, ToTake
  <1>2. ASSUME proc[c] = "drawn", ~HasRoom(c) PROVE ToTake(c)
    <2>1. socket = c
      BY <1>2 DEF Structure, Order, Accepted, Up
    <2>2. chan[c] # <<>>
      BY <1>2, Bounds DEF HasRoom
    <2> QED
      BY <2>1, <2>2 DEF ToTake
  <1> QED
    BY <1>1, <1>2

LEMMA InitGreeted == Init => Greeted
  BY DEF Init, Greeted, Asks

LEMMA GreetedStep == Structure /\ Greeted /\ [Next]_vars => Greeted'
  <1> SUFFICES ASSUME Structure, Greeted, [Next]_vars, NEW c \in Session, Asks(c)'
               PROVE  (Greeting(c) /\ (c \in In(backlog) \/ socket = c))'
    BY DEF Greeted
  <1> USE DEF clientVars, wireVars, serverVars, viewVars
  <1>0. /\ proc \in [Session -> {"off", "spawned", "hello", "live", "drawn", "gone"}]
        /\ ack \in [Session -> {"none", "accepted", "refused"}]
        /\ backlog \in Seq(Session) /\ chan \in [Session -> Seq(Message)]
        /\ session \in 0 .. Sessions
    BY DEF Structure, TypeOK
  (* The connection is as it was.                                          *)
  <1>1. ASSUME Asks(c), chan'[c] = chan[c],
               c \in In(backlog) \/ socket = c => c \in In(backlog') \/ socket' = c
        PROVE  (Greeting(c) /\ (c \in In(backlog) \/ socket = c))'
    BY <1>1 DEF Greeted, Greeting
  <1>2. CASE UNCHANGED <<proc, ack, chan, backlog, socket>>
    BY <1>1, <1>2 DEF Asks
  <1>3. CASE StartSession
    <2>1. /\ proc' = [proc EXCEPT ![session + 1] = "spawned"]
          /\ UNCHANGED <<ack, chan, backlog, socket>>
      BY <1>3 DEF StartSession, Become
    <2> QED
      BY <1>0, <1>1, <2>1 DEF Asks
  <1>4. CASE Disconnect
    <2>1. /\ proc' = [proc EXCEPT ![session] = "gone"]
          /\ UNCHANGED <<ack, chan, backlog, socket>>
      BY <1>4 DEF Disconnect, Become
    <2> QED
      BY <1>0, <1>1, <2>1 DEF Asks
  <1>5. ASSUME NEW d \in Session, Client(d)
        PROVE  (Greeting(c) /\ (c \in In(backlog) \/ socket = c))'
    <2>1. CASE d # c
      <3>1. proc'[c] = proc[c] /\ UNCHANGED ack
        BY <1>0, <1>5, <2>1
        DEF Client, Connect, GetAck, Blit, Announce, SendCursorPos, SayBye, Die, Become
      <3>2. c = session /\ d = session
        <4>1. proc[d] \notin {"off", "gone"} /\ proc[c] \notin {"off", "gone"}
          BY <1>5, <3>1
          DEF Asks, Client, Connect, GetAck, Blit, Announce, SendCursorPos, SayBye, Die
        <4> QED
          BY <4>1, Current
      <3> QED
        BY <2>1, <3>2
    <2>2. CASE d = c
      <3>1. PICK cap \in BOOLEAN : Connect(c, cap)
        BY <1>0, <1>5, <2>2
        DEF Asks, Client, GetAck, Blit, Announce, SendCursorPos, SayBye, Die, Become
      <3>2. chan[c] = <<>> /\ c \in In(backlog')
        BY <1>0, <3>1, Appended DEF Connect, Structure, Procs, Quiet
      <3>3. /\ chan'[c] \in Seq(Message) /\ chan'[c] # <<>>
            /\ chan'[c][Len(chan[c]) + 1] = Hello(cap)
        BY <3>1, Sent, MessageFacts DEF Connect, Structure
      <3>4. chan'[c][1] = Hello(cap)
        BY <3>2, <3>3
      <3>5. Head(chan'[c]) = Hello(cap)
        BY <3>3, <3>4
      <3> QED
        BY <3>2, <3>3, <3>5, MessageFacts DEF Greeting
    <2> QED
      BY <2>1, <2>2
  <1>6. CASE OnNewConnection
    <2>1. /\ backlog # <<>> /\ backlog' = Tail(backlog) /\ UNCHANGED <<proc, chan>>
          /\ \/ socket = None /\ socket' = Head(backlog) /\ UNCHANGED ack
             \/ ack' = [ack EXCEPT ![Head(backlog)] = "refused"] /\ UNCHANGED socket
      BY <1>6 DEF OnNewConnection
    <2>2. In(backlog) = In(backlog') \cup {Head(backlog)} /\ Head(backlog) \in Session
      BY <1>0, <2>1, Tailed
    <2>3. Asks(c)
      BY <1>0, <2>1, <2>2 DEF Asks
    <2>4. c \in In(backlog) \/ socket = c => c \in In(backlog') \/ socket' = c
      BY <1>0, <2>1, <2>2, Bounds DEF Asks
    <2> QED
      BY <1>1, <2>1, <2>3, <2>4
  (* The server takes a message: of another connection, or the Hello,      *)
  (* which it answers.                                                     *)
  <1>7. ASSUME NEW kind, Arrived(kind), Take, UNCHANGED <<proc, backlog>>,
               UNCHANGED ack \/ ack' = [ack EXCEPT ![socket] = "accepted"],
               kind = "hello" => ack' = [ack EXCEPT ![socket] = "accepted"],
               socket # c => socket' # c, socket' \in {socket, None}
        PROVE  (Greeting(c) /\ (c \in In(backlog) \/ socket = c))'
    <2>1. /\ socket \in Session /\ Head(chan[socket]).kind = kind
          /\ \A d \in Session : d # socket => chan'[d] = chan[d]
      BY <1>7, Took DEF Structure, Msg
    <2>2. Asks(c)
      BY <1>0, <1>7, <2>1 DEF Asks
    <2>3. socket # c
      BY <1>0, <1>7, <2>1, <2>2 DEF Greeted, Greeting, Asks
    <2> QED
      BY <1>1, <1>7, <2>1, <2>2, <2>3
  <1>8. CASE HandleHello
    BY <1>7, <1>8 DEF HandleHello
  <1>9. CASE DropFrame \/ EmitFrame \/ HandleCursor
    <2>1. PICK kind \in {"frame", "cursor"} :
            Arrived(kind) /\ Take /\ UNCHANGED <<proc, backlog, ack, socket>>
      BY <1>9 DEF DropFrame, EmitFrame, HandleCursor
    <2> QED
      BY <1>7, <2>1
  <1>10. CASE DropClient
    <2>1. CASE Arrived("bye") /\ Take
      BY <1>7, <1>10, <2>1, Bounds DEF DropClient
    <2>2. CASE closed[socket] /\ UNCHANGED chan
      <3>1. Asks(c) /\ UNCHANGED backlog
        BY <1>10 DEF DropClient, Asks
      <3>2. socket # c
        BY <2>2, <3>1 DEF Asks, Structure, Chans, OverIsGone
      <3> QED
        BY <1>1, <2>2, <3>1, <3>2
    <2> QED
      BY <1>10, <2>1, <2>2 DEF DropClient
  <1> QED
    BY <1>2, <1>3, <1>4, <1>5, <1>6, <1>8, <1>9, <1>10
    DEF Next, Serve, vars, Relayout, PeriodPasses, Paint

(* recv_all() of the HelloAck and send_all() of a Frame have no timeout,   *)
(* and need none: the server has something left to do that ends the wait.  *)
THEOREM NeverWaitsInVain == Spec => []NeverInVain
  <1> QED
    BY StructureInvariance, InitGreeted, GreetedStep, NeverInVainIs, PTL DEF Spec
=============================================================================
