-------------------------------- MODULE Cast --------------------------------
(***************************************************************************)
(* The way of a picture from vnsee to the page of the tablet: the client   *)
(* of vncast (vncast_client.cpp), the server in xochitl (server.cpp) and   *)
(* the item that paints (frame_view.cpp).                                  *)
(*                                                                         *)
(* The pixels go through shared memory, and only a Frame message tells     *)
(* that they are there: the client writes a rectangle and then sends the   *)
(* message, the server turns it into frameReady, the view marks the        *)
(* rectangle dirty and the scene graph paints it when it likes.  So a      *)
(* paint may show pixels before they are announced, and a lost, early or   *)
(* misplaced announcement leaves old pixels on the panel.                  *)
(*                                                                         *)
(* The panel is a set of tiles; a rectangle is the set of the tiles it     *)
(* covers.  The pixels of a tile are the number of the frame that drew     *)
(* them.  Sessions follow one another: each is a process, a connection     *)
(* and a page, while the server and its shared memory stay.                *)
(*                                                                         *)
(* A step of the server takes one message.  The handler takes all that     *)
(* have arrived, but how many have is up to the kernel, and between two of *)
(* them only the client and the painter can act.                           *)
(***************************************************************************)
EXTENDS Integers, Sequences

CONSTANTS
    Tiles,
    Rects,          \* rectangles the client updates, as sets of tiles
    SmallRects,     \* those of at most 256 x 256 pixels
    Spots,          \* positions of the cursor
    Sessions,       \* bound: number of sessions
    MaxFrames,      \* bound: number of frames, over all sessions
    Room            \* messages that fit in the socket's buffer

ASSUME RectsAssumption == SmallRects \subseteq Rects /\ Rects \subseteq SUBSET Tiles
ASSUME BoundsAssumption ==
    Sessions \in Nat /\ MaxFrames \in Nat /\ Room \in Nat \ {0}

None == 0
NoSpot == "none"
ASSUME SpotsAssumption == NoSpot \notin Spots
Session == 1 .. Sessions
White == 0

VARIABLES
    session,    \* the last session started, None before the first
    proc,       \* each session's vnsee
    cast,       \* frames drawn so far: the number of the next is one more
    shm,        \* frame whose pixels each tile of the shared memory has
    sending,    \* rectangle written to shm and not yet announced
    cursor,     \* the cursor as each client has cached it
    lost,       \* its last position found no room in the buffer
    chan,       \* messages to the server, per connection
    closed,     \* the client's end is closed
    ack,        \* what came back: nothing, a HelloAck, or the end
    backlog,    \* connections not yet accepted
    socket,     \* m_socket: the connection served
    capped,     \* m_fps_cap > 0
    emitted,    \* m_last_emit_ms: never, less than a period ago, or before
    pointer,    \* the cursor as the server reports it
    page,       \* the session page, with its FrameView, is open
    seen,       \* m_lastSeq # 0
    fitted,     \* m_scale is that of the present geometry
    dirty,      \* tiles the scene graph has been asked to paint
    shown,      \* what the page shows in each tile, White for no pixels
    skipped,    \* history: tiles of frames the cap kept from being painted
    base        \* history: cast when the session started

clientVars == <<session, proc, cast, sending, cursor, lost>>
wireVars == <<chan, closed, ack, backlog>>
serverVars == <<socket, capped, emitted, pointer>>
viewVars == <<page, seen, fitted, dirty, shown>>
vars == <<clientVars, shm, wireVars, serverVars, viewVars, skipped, base>>

Message == [kind : {"hello", "frame", "cursor", "bye"}, cap : BOOLEAN,
            rect : SUBSET Tiles, spot : Spots \cup {NoSpot}]
Plain == [kind |-> "bye", cap |-> FALSE, rect |-> {}, spot |-> NoSpot]
Hello(cap) == [kind |-> "hello", cap |-> cap, rect |-> {}, spot |-> NoSpot]
Frame(r) == [Plain EXCEPT !.kind = "frame", !.rect = r]
CursorC2S(p) == [Plain EXCEPT !.kind = "cursor", !.spot = p]
Bye == Plain

Up(c) == proc[c] \in {"live", "drawn"}
Send(c, m) == chan' = [chan EXCEPT ![c] = Append(@, m)]
HasRoom(c) == Len(chan[c]) < Room
Become(c, s) == proc' = [proc EXCEPT ![c] = s]

Init ==
    /\ session = None /\ cast = 0
    /\ proc = [c \in Session |-> "off"]
    /\ shm = [t \in Tiles |-> White]
    /\ sending = {}
    /\ cursor = [c \in Session |-> NoSpot]
    /\ lost = FALSE
    /\ chan = [c \in Session |-> <<>>]
    /\ closed = [c \in Session |-> FALSE]
    /\ ack = [c \in Session |-> "none"]
    /\ backlog = <<>>
    /\ socket = None /\ capped = FALSE /\ emitted = "never" /\ pointer = NoSpot
    /\ page = FALSE /\ seen = FALSE /\ fitted = FALSE /\ dirty = {}
    /\ shown = [t \in Tiles |-> White]
    /\ skipped = {} /\ base = 0

-----------------------------------------------------------------------------
(* The page: started and left by the user.                                 *)

Running == session # None /\ proc[session] \notin {"off", "gone"}

\* Mutated: Connect again does not ask for the old vnsee.
StartSessionAgain ==
    /\ session < Sessions
    /\ session' = session + 1
    /\ Become(session + 1, "spawned")
    /\ sending' = {} /\ lost' = FALSE
    /\ page' = TRUE /\ seen' = FALSE /\ fitted' = FALSE /\ dirty' = Tiles
    /\ shown' = [t \in Tiles |-> White]
    /\ skipped' = {} /\ base' = cast
    /\ UNCHANGED <<cast, cursor, shm, wireVars, serverVars>>

(* startSession() with no vnsee running, then the page with a new          *)
(* FrameView, to be painted whole.                                         *)
StartSession ==
    /\ ~page /\ ~Running
    /\ session < Sessions
    /\ session' = session + 1
    /\ Become(session + 1, "spawned")
    /\ sending' = {} /\ lost' = FALSE
    /\ page' = TRUE /\ seen' = FALSE /\ fitted' = FALSE /\ dirty' = Tiles
    /\ shown' = [t \in Tiles |-> White]
    /\ skipped' = {} /\ base' = cast
    /\ UNCHANGED <<cast, cursor, shm, wireVars, serverVars>>

(* "Disconnect": vnsee is killed before stopSession() returns, then the    *)
(* page and its view go.                                                   *)
Disconnect ==
    /\ page
    /\ page' = FALSE /\ seen' = FALSE /\ fitted' = FALSE /\ dirty' = {}
    /\ shown' = [t \in Tiles |-> White]
    /\ skipped' = {}
    /\ Become(session, "gone")
    /\ closed' = [closed EXCEPT ![session] = TRUE]
    /\ UNCHANGED <<session, cast, sending, cursor, lost, shm, chan, ack,
                   backlog, serverVars, base>>

\* Mutated: the new geometry is not painted.
RelayoutUnpainted ==
    /\ page
    /\ fitted' = FALSE
    /\ UNCHANGED <<clientVars, shm, wireVars, serverVars, page, seen, dirty,
                   shown, skipped, base>>

(* A flip or a change of geometry: the whole item is painted again.        *)
Relayout ==
    /\ page
    /\ fitted' = FALSE /\ dirty' = Tiles
    /\ UNCHANGED <<clientVars, shm, wireVars, serverVars, page, seen, shown,
                   skipped, base>>

-----------------------------------------------------------------------------
(* vnsee.                                                                  *)

(* connect() and the Hello, with the frame rate cap of VNCAST_FPS.         *)
Connect(c, cap) ==
    /\ proc[c] = "spawned"
    /\ Become(c, "hello")
    /\ Send(c, Hello(cap))
    /\ backlog' = Append(backlog, c)
    /\ UNCHANGED <<session, cast, sending, cursor, lost, shm, closed, ack,
                   serverVars, viewVars, skipped, base>>

(* The answer: shm is mapped, or the constructor throws and main() ends.   *)
GetAck(c) ==
    /\ proc[c] = "hello" /\ ack[c] # "none"
    /\ Become(c, IF ack[c] = "accepted" THEN "live" ELSE "gone")
    /\ closed' = [closed EXCEPT ![c] = ack[c] # "accepted"]
    /\ UNCHANGED <<session, cast, sending, cursor, lost, shm, chan, ack,
                   backlog, serverVars, viewVars, skipped, base>>

(* blit_rect_to_shm()                                                      *)
Blit(c, r) ==
    /\ proc[c] = "live" /\ cast < MaxFrames
    /\ Become(c, "drawn")
    /\ cast' = cast + 1
    /\ shm' = [t \in Tiles |-> IF t \in r THEN cast + 1 ELSE shm[t]]
    /\ sending' = r
    /\ UNCHANGED <<session, cursor, lost, wireVars, serverVars, viewVars,
                   skipped, base>>

\* Mutated: sent as the cursor is, if there is room.
AnnounceIfRoom(c) ==
    /\ proc[c] = "drawn"
    /\ Become(c, "live")
    /\ IF HasRoom(c) THEN Send(c, Frame(sending)) ELSE UNCHANGED chan
    /\ sending' = {}
    /\ UNCHANGED <<session, cast, cursor, lost, shm, closed, ack, backlog,
                   serverVars, viewVars, skipped, base>>

(* send_all() of the Frame waits for room.                                 *)
Announce(c) ==
    /\ proc[c] = "drawn" /\ HasRoom(c)
    /\ Become(c, "live")
    /\ Send(c, Frame(sending))
    /\ sending' = {}
    /\ UNCHANGED <<session, cast, cursor, lost, shm, closed, ack, backlog,
                   serverVars, viewVars, skipped, base>>

\* Mutated: queued without asking for room.
SendCursorPosAnyway(c, p) ==
    /\ proc[c] = "live" /\ p # cursor[c]
    /\ cursor' = [cursor EXCEPT ![c] = p]
    /\ lost' = FALSE
    /\ Send(c, CursorC2S(p))
    /\ UNCHANGED <<session, proc, cast, sending, shm, closed, ack, backlog,
                   serverVars, viewVars, skipped, base>>

(* send_cursor_pos(): cached first, then sent if there is room.            *)
SendCursorPos(c, p) ==
    /\ proc[c] = "live" /\ p # cursor[c]
    /\ cursor' = [cursor EXCEPT ![c] = p]
    /\ lost' = ~HasRoom(c)
    /\ IF HasRoom(c) THEN Send(c, CursorC2S(p)) ELSE UNCHANGED chan
    /\ UNCHANGED <<session, proc, cast, sending, shm, closed, ack, backlog,
                   serverVars, viewVars, skipped, base>>

(* The destructor, when the VNC session ends.                              *)
SayBye(c) ==
    /\ proc[c] = "live" /\ HasRoom(c)
    /\ Become(c, "gone")
    /\ Send(c, Bye)
    /\ closed' = [closed EXCEPT ![c] = TRUE]
    /\ UNCHANGED <<session, cast, sending, cursor, lost, shm, ack, backlog,
                   serverVars, viewVars, skipped, base>>

(* vnsee ends without a Bye: killed, crashed, or never connected.          *)
Die(c) ==
    /\ proc[c] \notin {"off", "gone"}
    /\ Become(c, "gone")
    /\ closed' = [closed EXCEPT ![c] = TRUE]
    /\ UNCHANGED <<session, cast, sending, cursor, lost, shm, chan, ack,
                   backlog, serverVars, viewVars, skipped, base>>

-----------------------------------------------------------------------------
(* The server, on the GUI thread.                                          *)

\* Mutated: others are left alone.
OnNewConnectionIgnored ==
    /\ backlog # <<>>
    /\ backlog' = Tail(backlog)
    /\ socket' = IF socket = None THEN Head(backlog) ELSE socket
    /\ UNCHANGED <<clientVars, shm, chan, closed, ack, capped, emitted, pointer,
                   viewVars, skipped, base>>
(* onNewConnection(): one client at a time, others are closed.             *)
OnNewConnection ==
    /\ backlog # <<>>
    /\ backlog' = Tail(backlog)
    /\ IF socket = None
       THEN socket' = Head(backlog) /\ UNCHANGED ack
       ELSE ack' = [ack EXCEPT ![Head(backlog)] = "refused"] /\ UNCHANGED socket
    /\ UNCHANGED <<clientVars, shm, chan, closed, capped, emitted, pointer,
                   viewVars, skipped, base>>

Arrived(kind) == socket # None /\ chan[socket] # <<>> /\ Head(chan[socket]).kind = kind
Take == chan' = [chan EXCEPT ![socket] = Tail(@)]
Msg == Head(chan[socket])

\* Mutated: the old cursor stays.
HandleHelloKeepsCursor ==
    /\ Arrived("hello") /\ Take
    /\ capped' = Msg.cap
    /\ emitted' = "never"
    /\ ack' = [ack EXCEPT ![socket] = "accepted"]
    /\ UNCHANGED <<clientVars, shm, closed, backlog, socket, pointer, viewVars,
                   skipped, base>>

(* handleHello(): what the last client left is reset.                      *)
HandleHello ==
    /\ Arrived("hello") /\ Take
    /\ capped' = Msg.cap
    /\ emitted' = "never"
    /\ pointer' = NoSpot
    /\ ack' = [ack EXCEPT ![socket] = "accepted"]
    /\ UNCHANGED <<clientVars, shm, closed, backlog, socket, viewVars, skipped, base>>

(* The frame cap, which small rectangles bypass.                           *)
Limited(m) == capped /\ m.rect \notin SmallRects
TooSoon(m) == Limited(m) /\ emitted = "recent"

DropFrame ==
    /\ Arrived("frame") /\ Take
    /\ TooSoon(Msg)
    /\ skipped' = skipped \cup Msg.rect
    /\ UNCHANGED <<clientVars, shm, closed, ack, backlog, serverVars, viewVars, base>>

(* mapSourceRect(): only with the scale of the present geometry does it    *)
(* give the tiles of the rectangle.                                        *)
MapSourceRect(r) == IF fitted THEN {r} ELSE SUBSET Tiles

(* onFrameReady(): the first frame marks everything.                       *)
OnFrameReady(r) ==
    /\ seen' = page
    /\ \E s \in MapSourceRect(r) :
         dirty' = IF ~page THEN {} ELSE IF seen THEN dirty \cup s ELSE Tiles

EmitFrame ==
    /\ Arrived("frame") /\ Take
    /\ ~TooSoon(Msg)
    /\ emitted' = IF Limited(Msg) THEN "recent" ELSE emitted
    /\ OnFrameReady(Msg.rect)
    /\ UNCHANGED <<clientVars, shm, closed, ack, backlog, socket, capped,
                   pointer, page, fitted, shown, skipped, base>>

HandleCursor ==
    /\ Arrived("cursor") /\ Take
    /\ pointer' = Msg.spot
    /\ UNCHANGED <<clientVars, shm, closed, ack, backlog, socket, capped,
                   emitted, viewVars, skipped, base>>

\* Mutated: a client that is silent is dropped.
DropClientSilent ==
    /\ socket # None
    /\ \/ Arrived("bye") /\ Take
       \/ chan[socket] = <<>> /\ UNCHANGED chan
    /\ socket' = None
    /\ UNCHANGED <<clientVars, shm, closed, ack, backlog, capped, emitted,
                   pointer, viewVars, skipped, base>>

(* The Bye, or the end of the connection behind all its messages:          *)
(* onSocketDisconnected().                                                 *)
DropClient ==
    /\ socket # None
    /\ \/ Arrived("bye") /\ Take
       \/ closed[socket] /\ chan[socket] = <<>> /\ UNCHANGED chan
    /\ socket' = None
    /\ UNCHANGED <<clientVars, shm, closed, ack, backlog, capped, emitted,
                   pointer, viewVars, skipped, base>>

(* A period of the frame cap goes by.                                      *)
PeriodPasses ==
    /\ emitted = "recent" /\ emitted' = "past"
    /\ UNCHANGED <<clientVars, shm, wireVars, socket, capped, pointer,
                   viewVars, skipped, base>>

-----------------------------------------------------------------------------
(* paint(), tile by tile, concurrent with all of the above: the picture,   *)
(* or the placeholder while no client is served or no frame has come.      *)
Picture(t) == IF socket = None \/ ~seen THEN White ELSE shm[t]

Paint(t) ==
    /\ page /\ t \in dirty
    /\ fitted' = TRUE
    /\ dirty' = dirty \ {t}
    /\ shown' = [shown EXCEPT ![t] = Picture(t)]
    /\ skipped' = skipped \ {t}
    /\ UNCHANGED <<clientVars, shm, wireVars, serverVars, page, seen, base>>

Client(c) == \/ \E cap \in BOOLEAN : Connect(c, cap)
             \/ GetAck(c)
             \/ \E r \in Rects : Blit(c, r)
             \/ Announce(c)
             \/ \E p \in Spots : SendCursorPos(c, p)
             \/ SayBye(c)
             \/ Die(c)
Serve == HandleHello \/ DropFrame \/ EmitFrame \/ HandleCursor \/ DropClient
Next == \/ StartSession \/ Disconnect \/ Relayout
        \/ \E c \in Session : Client(c)
        \/ OnNewConnection \/ Serve \/ PeriodPasses
        \/ \E t \in Tiles : Paint(t)

Spec == Init /\ [][Next]_vars

(* The event loop handles what arrives, the scene graph paints what is     *)
(* dirty, and send_all() goes on as soon as there is room.  Nothing makes  *)
(* vnsee draw, the user act or a session end.                              *)
Fairness ==
    /\ WF_vars(Serve)
    /\ \A t \in Tiles : WF_vars(Paint(t))
    /\ \A c \in Session : WF_vars(Announce(c))
FairSpec == Spec /\ Fairness

-----------------------------------------------------------------------------
TypeOK ==
    /\ session \in 0 .. Sessions /\ cast \in 0 .. MaxFrames
    /\ proc \in [Session -> {"off", "spawned", "hello", "live", "drawn", "gone"}]
    /\ shm \in [Tiles -> 0 .. cast] /\ shown \in [Tiles -> 0 .. cast]
    /\ sending \in SUBSET Tiles
    /\ cursor \in [Session -> Spots \cup {NoSpot}] /\ lost \in BOOLEAN
    /\ chan \in [Session -> Seq(Message)]
    /\ \A c \in Session : Len(chan[c]) <= Room
    /\ closed \in [Session -> BOOLEAN]
    /\ ack \in [Session -> {"none", "accepted", "refused"}]
    /\ backlog \in Seq(Session)
    /\ socket \in 0 .. Sessions /\ capped \in BOOLEAN
    /\ emitted \in {"never", "recent", "past"} /\ pointer \in Spots \cup {NoSpot}
    /\ page \in BOOLEAN /\ seen \in BOOLEAN /\ fitted \in BOOLEAN
    /\ dirty \subseteq Tiles /\ skipped \subseteq Tiles
    /\ base \in 0 .. cast

(* Every pixel this session has put in shared memory is on the page, or    *)
(* its announcement is on the way, or it is waiting to be painted, or the  *)
(* frame cap skipped it.                                                   *)
OnItsWay ==
    sending \cup UNION {chan[session][k].rect : k \in DOMAIN chan[session]}
Live == session # None /\ Up(session)
NothingForgotten ==
    Live => \A t \in Tiles : shm[t] > base =>
        shown[t] = shm[t] \/ t \in dirty \cup OnItsWay \cup skipped

(* The cursor the page marks is where the client last said it is, unless   *)
(* that is still in the buffer or was dropped for want of room: a new      *)
(* session never inherits the old one's (send_cursor_pos, handleHello).    *)
CursorAgrees ==
    Live /\ ~lost /\ (\A k \in DOMAIN chan[session] : chan[session][k].kind # "cursor")
        => pointer = cursor[session]

(* vnsee waits without a timeout for the HelloAck (recv_all) and for room  *)
(* for a Frame (send_all), with the VNC session standing still behind it.  *)
(* It never waits in vain: the server has its connection yet to accept or  *)
(* refuse, or serves it and has a message of it yet to take, whatever the  *)
(* connections of earlier sessions have left behind.                       *)
Pending(c) == \E k \in DOMAIN backlog : backlog[k] = c
ToTake(c) == socket = c /\ chan[c] # <<>>
NeverInVain == \A c \in Session :
    /\ proc[c] = "hello" /\ ack[c] = "none" =>
         Pending(c) \/ (ToTake(c) /\ Head(chan[c]).kind = "hello")
    /\ proc[c] = "drawn" /\ ~HasRoom(c) => ToTake(c)

(* A client is refused only while the connection of a vnsee that has       *)
(* already ended waits to be dropped: two that run are never told apart by *)
(* who came first (onNewConnection, startSession).                         *)
RefusedOnlyBehindDead ==
    [][\A c \in Session : ack[c] # "refused" /\ ack'[c] = "refused" =>
         proc[socket] = "gone"]_vars

(* Of what the page shows and shared memory holds, this session's part.    *)
Own(p) == [t \in Tiles |-> IF p[t] > base THEN p[t] ELSE White]
M == INSTANCE Mirror WITH live <- Live, drawn <- Own(shm), shown <- Own(shown)

(* The session's picture never goes back (Mirror).                         *)
MirrorSpec == M!Spec

(* Without a frame cap, or for what the cap does not skip, everything      *)
(* drawn is shown.                                                         *)
ShownUnlessSkipped ==
    \A t \in Tiles : M!Behind(t) ~> (~M!Behind(t) \/ t \in skipped)

(* "Fires on every client FRAME message" (server.h, frameReady): then      *)
(* everything drawn is shown.                                              *)
EveryFrameShown == M!EveryFrameShown
=============================================================================
