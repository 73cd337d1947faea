------------------------------- MODULE Screen -------------------------------
(***************************************************************************)
(* The VNC client of vnsee: app::screen, the client event loop and the two *)
(* threads that touch the screen behind its back.                          *)
(*                                                                         *)
(*   main    connects, decodes server messages rectangle by rectangle,     *)
(*           accumulates them in update_info, repaints when due            *)
(*   input   (AppLoad backend only) handles touch, keyboard and buttons,   *)
(*           and repaints on its own                                       *)
(*   sensor  (--auto-rotate only) switches the orientation and marks the   *)
(*           whole source dirty                                            *)
(*                                                                         *)
(* No lock protects update_info, so a step here is one access to it: the   *)
(* read of commit_updates and its write are two steps, as are the three    *)
(* parts of repaint().  The five fields are read and written together; a   *)
(* thread seeing half of another's write is not modelled.                  *)
(*                                                                         *)
(* Pixel values are abstracted to their currency: a cell of a buffer holds *)
(* the source pixel whose present value it shows, or Stale.  A rectangle   *)
(* decoded by libvncclient makes every cell that shows one of its pixels   *)
(* Stale.  Time is the age of the last repaint: 0 just now, 1 at least     *)
(* fast_repaint_delay, 2 at least standard_repaint_delay.                  *)
(***************************************************************************)
EXTENDS Geometry

CONSTANTS
    PanelW, PanelH,     \* device.get_xres(), get_yres()
    SrcSizes,           \* sizes the server's desktop may have
    UpdateRects,        \* damage the server may send, besides full frames
    MaxRects,           \* bound: rectangles in one FramebufferUpdate
    Requested,          \* --orientation
    Vncast,             \* the backend: vncast or AppLoad's qtfb
    AutoRotate,         \* --auto-rotate
    BlitOf,             \* map_device_to_blit, on the tilts that may be read
    TouchCells          \* panel cells the user touches

ASSUME PanelAssumption == PanelW \in Nat \ {0} /\ PanelH \in Nat \ {0}
ASSUME SizesAssumption == \A s \in SrcSizes : s \in Size /\ s.w > 0 /\ s.h > 0
ASSUME RectsAssumption == UpdateRects \subseteq Rect /\ MaxRects \in Nat \ {0}
ASSUME ModeAssumption == /\ Requested \in Orientations \cup {"Auto"}
                         /\ Vncast \in BOOLEAN /\ AutoRotate \in BOOLEAN
ASSUME TiltAssumption ==
    /\ BlitOf \in [DOMAIN BlitOf -> Orientations \cup {"Auto"}]
    /\ "Unknown" \notin DOMAIN BlitOf

Panel == [w |-> PanelW, h |-> PanelH]
Cells == Pixels(Panel)
ASSUME TouchAssumption == TouchCells \subseteq Cells

NoSize == [w |-> 0, h |-> 0]
Stale == <<-1, -1>>
Nothing == [rect |-> NoRect, has |-> FALSE]

VARIABLES
    effective,  \* effective_
    mode,       \* repaint_mode
    age,        \* now - last_repaint, against the two delays
    src,        \* src_width_, src_height_
    received,   \* pixels the server has sent since src_buffer_ was allocated
    info,       \* update_info: its rectangle and has_update
    fb,         \* device.get_data(): what blit_rotated last put in each cell
    panel,      \* what device.update() last handed to the display
    pc,         \* where each thread is
    timed,      \* the poll in progress has a timeout
    left,       \* rectangles of the current message not yet decoded
    cur,        \* arguments of commit_updates
    snap,       \* update_info as commit_updates read it
    dst,        \* rectangle blit_rotated returned to each thread's repaint()
    pointer,    \* last pointer event sent: cell touched, server pixel, button
    tilt        \* OrientationSensor::last_

loopVars == <<timed, left>>
commitVars == <<cur, snap>>
pictureVars == <<fb, panel, dst>>
vars == <<effective, mode, age, src, received, info, fb, panel, pc, timed,
          left, cur, snap, dst, pointer, tilt>>

Painters == {"main", "input"}
Running == pc.main # "closed"

(* Thread t goes on to place p.                                            *)
Goto(t, p) == pc' = [pc EXCEPT ![t] = p]

-----------------------------------------------------------------------------
(* Constructors of screen and client, up to rfbInitClient.                 *)

Init ==
    /\ effective = IF Requested = "Auto" THEN "Portrait" ELSE Requested
    /\ mode = IF Vncast THEN "fast" ELSE "standard"
    /\ age = 2
    /\ src = NoSize
    /\ received = {}
    /\ info = Nothing
    /\ fb = [q \in Cells |-> Stale]
    /\ panel = [q \in Cells |-> Stale]
    /\ pc = [main |-> "init", input |-> "absent",
             sensor |-> IF AutoRotate THEN "idle" ELSE "absent"]
    /\ timed = FALSE
    /\ left = 0
    /\ cur = NoRect
    /\ snap = Nothing
    /\ dst = [t \in Painters |-> NoRect]
    /\ pointer = [at |-> <<0, 0>>, to |-> <<0, 0>>, button |-> "None"]
    /\ tilt = "Unknown"

(* Auto left unresolved; and as the code resolves it.                      *)
ResolveNever(sz) == Requested

(* Auto is resolved against the panel each time a buffer is allocated.     *)
Resolve(sz) ==
    IF Requested # "Auto" THEN effective
    ELSE IF (PanelH > PanelW) # (sz.h > sz.w) THEN "LandscapeCCW"
    ELSE "Portrait"

(* create_framebuf: a new source buffer, so no cell shows anything current *)
CreateFramebuf(sz) ==
    /\ src' = sz
    /\ effective' = Resolve(sz)
    /\ received' = {}
    /\ fb' = [q \in Cells |-> Stale]
    /\ panel' = [q \in Cells |-> Stale]

(* rfbInitClient succeeds; then the input thread is started, unless vncast *)
Connect(sz) ==
    /\ pc.main = "init"
    /\ CreateFramebuf(sz)
    /\ pc' = [pc EXCEPT !.main = "poll",
                        !.input = IF Vncast THEN "absent" ELSE "idle"]
    /\ UNCHANGED <<mode, age, info, loopVars, commitVars, dst, pointer, tilt>>

(* rfbInitClient or HandleRFBServerMessage fails: the process ends.        *)
ServerCloses ==
    /\ pc.main \in {"init", "poll", "rects"}
    /\ Goto("main", "closed")
    /\ UNCHANGED <<effective, mode, age, src, received, info, pictureVars,
                   loopVars, commitVars, pointer, tilt>>

-----------------------------------------------------------------------------
(* client::event_loop: poll, HandleRFBServerMessage, screen::event_loop.   *)

(* A message with n rectangles; n = 0 stands for every other message.      *)
MessageArrives(n) ==
    /\ pc.main = "poll"
    /\ Goto("main", IF n = 0 THEN "loop" ELSE "rects")
    /\ left' = n
    /\ timed' = FALSE
    /\ UNCHANGED <<effective, mode, age, src, received, info, pictureVars,
                   commitVars, pointer, tilt>>

DamageRects == {r \in UpdateRects : Within(r, src)} \cup {FullRect(src)}

(* What is left of a picture once the pixels of r have new values.         *)
Outdate(picture, r) ==
    [q \in Cells |-> IF picture[q] \in Pix(r) THEN Stale ELSE picture[q]]

(* libvncclient decodes a rectangle into src_buffer_, then calls           *)
(* GotFrameBufferUpdate.                                                   *)
RecvRect(r) ==
    /\ pc.main = "rects"
    /\ received' = received \cup Pix(r)
    /\ fb' = Outdate(fb, r)
    /\ panel' = Outdate(panel, r)
    /\ cur' = r
    /\ left' = left - 1
    /\ Goto("main", "commitRead")
    /\ UNCHANGED <<effective, mode, age, src, info, timed, snap, dst, pointer, tilt>>

(* Where a message continues when n of its rectangles remain.              *)
Rest(n) == IF n = 0 THEN "loop" ELSE "rects"

(* A NewFBSize rectangle: create_framebuf again, update_info kept.         *)
Resize(sz) ==
    /\ pc.main = "rects"
    /\ CreateFramebuf(sz)
    /\ left' = left - 1
    /\ Goto("main", Rest(left - 1))
    /\ UNCHANGED <<mode, age, info, timed, commitVars, dst, pointer, tilt>>

(* commit_updates, 564-586: reads update_info and decides.                 *)
CommitRead ==
    /\ pc.main = "commitRead"
    /\ snap' = info
    /\ Goto("main", "commitWrite")
    /\ UNCHANGED <<effective, mode, age, src, received, info, pictureVars,
                   loopVars, cur, pointer, tilt>>

(* device.update(x, y, w, h): the display takes the cells of r from fb.    *)
Present(r) == panel' = [q \in Cells |-> IF q \in Pix(r) THEN fb[q] ELSE panel[q]]

(* commit_updates, 588-621: a fresh accumulator, the flush of a bad merge  *)
(* (straight to device.update, in source coordinates, without a blit), or  *)
(* the bounding box, which leaves has_update as it is.                     *)
StartFresh ==
    /\ ~snap.has
    /\ info' = [rect |-> cur, has |-> TRUE]
    /\ UNCHANGED panel

FlushBadMerge ==
    /\ snap.has /\ BadMerge(snap.rect, cur)
    /\ Present(snap.rect)
    /\ info' = [rect |-> cur, has |-> TRUE]

MergeIn ==
    /\ snap.has /\ ~BadMerge(snap.rect, cur)
    /\ info' = [info EXCEPT !.rect = Merge(snap.rect, cur)]
    /\ UNCHANGED panel

CommitWrite ==
    /\ pc.main = "commitWrite"
    /\ StartFresh \/ FlushBadMerge \/ MergeIn
    /\ cur' = NoRect
    /\ snap' = Nothing
    /\ Goto("main", Rest(left))
    /\ UNCHANGED <<effective, mode, age, src, received, fb, dst, loopVars, pointer, tilt>>

(* The timeout of poll; with age a mere class, when it fires is left open. *)
PollTimeout ==
    /\ pc.main = "poll" /\ timed
    /\ Goto("main", "loop")
    /\ timed' = FALSE
    /\ UNCHANGED <<effective, mode, age, src, received, info, pictureVars,
                   left, commitVars, pointer, tilt>>

(* As in event_loop, were the poll after a postponed repaint given no      *)
(* timeout, or given one as long as anything is dirty.                     *)
NeverWaits == FALSE
WaitsWhileDirty == info.has

Due == IF mode = "standard" THEN age >= 2 ELSE age >= 1

MustWait == info.has /\ ~Due

(* screen::event_loop: repaint, or poll again until the repaint is due.    *)
EventLoop ==
    /\ pc.main = "loop"
    /\ Goto("main", IF info.has /\ Due THEN "clear" ELSE "poll")
    /\ timed' = MustWait
    /\ UNCHANGED <<effective, mode, age, src, received, info, pictureVars,
                   left, commitVars, pointer, tilt>>

-----------------------------------------------------------------------------
(* screen::repaint, run by the main or the input thread.                   *)

Home(t) == IF t = "main" THEN "poll" ELSE "idle"

(* 167-172: only standard mode clears has_update.                          *)
RepaintClear(t) ==
    /\ Running /\ pc[t] = "clear"
    /\ info' = [info EXCEPT !.has = @ /\ mode # "standard"]
    /\ age' = 0
    /\ Goto(t, "blit")
    /\ UNCHANGED <<effective, mode, src, received, pictureVars, loopVars,
                   commitVars, pointer, tilt>>

(* blit_rotated: the pixels of a clamped rectangle that land on cell q.    *)
Landing(q, r) == {p \in Pix(ClampTo(r, src)) : ToPanel(effective, src, p) = q}

(* What a blit of r leaves in cell q, were it made on a blank buffer; and  *)
(* as the code makes it, over what is there.                               *)
DrawnOnBlank(q, r) == IF Landing(q, r) = {} THEN Stale
                      ELSE CHOOSE p \in Landing(q, r) : TRUE
Drawn(q, r) == IF Landing(q, r) = {} THEN fb[q]
               ELSE CHOOSE p \in Landing(q, r) : TRUE

RepaintBlit(t) ==
    /\ Running /\ pc[t] = "blit"
    /\ LET r == info.rect
           out == PanelRect(effective, src, Panel, r)
       IN /\ fb' = [q \in Cells |-> Drawn(q, r)]
          /\ dst' = [dst EXCEPT ![t] = out]
          /\ Goto(t, IF Empty(out) THEN Home(t) ELSE "present")
    /\ UNCHANGED <<effective, mode, age, src, received, info, panel, loopVars,
                   commitVars, pointer, tilt>>

RepaintPresent(t) ==
    /\ Running /\ pc[t] = "present"
    /\ Present(dst[t])
    /\ dst' = [dst EXCEPT ![t] = NoRect]
    /\ Goto(t, Home(t))
    /\ UNCHANGED <<effective, mode, age, src, received, info, fb, loopVars,
                   commitVars, pointer, tilt>>

Repaint(t) == RepaintClear(t) \/ RepaintBlit(t) \/ RepaintPresent(t)

(* 500 ms and 16 ms go by, or the delays VNSEE_WAVEFORM_MODE selects.      *)
Tick ==
    /\ Running /\ age < 2
    /\ age' = age + 1
    /\ UNCHANGED <<effective, mode, src, received, info, pictureVars, pc,
                   loopVars, commitVars, pointer, tilt>>

-----------------------------------------------------------------------------
(* The input thread: touch, virtual keyboard and button handlers.          *)

(* client::send_button_press of a touch at cell q.                         *)
SendPointer(q, button) ==
    pointer' = [at |-> q, to |-> ToSource(effective, src, q), button |-> button]

InputTouch(kind, q) ==
    /\ Running /\ pc.input = "idle"
    /\ mode' = IF kind = "press" THEN "fast" ELSE mode
    /\ SendPointer(q, "Left")
    /\ Goto("input", IF kind = "release" THEN "lift" ELSE "idle")
    /\ UNCHANGED <<effective, age, src, received, info, pictureVars, loopVars,
                   commitVars, tilt>>

(* The second half of a release: button up, standard mode, repaint().      *)
InputLift ==
    /\ Running /\ pc.input = "lift"
    /\ SendPointer(pointer.at, "None")
    /\ mode' = "standard"
    /\ Goto("input", "clear")
    /\ UNCHANGED <<effective, age, src, received, info, pictureVars, loopVars,
                   commitVars, tilt>>

(* AppLoad's keyboard opens (0xf001) or closes (0xf000); other keys only   *)
(* go to the server.                                                       *)
KeyboardOpens ==
    /\ Running /\ pc.input = "idle"
    /\ mode' = "fast"
    /\ UNCHANGED <<effective, age, src, received, info, pictureVars, pc,
                   loopVars, commitVars, pointer, tilt>>

KeyboardCloses ==
    /\ Running /\ pc.input = "idle"
    /\ mode' = "standard"
    /\ Goto("input", "clear")
    /\ UNCHANGED <<effective, age, src, received, info, pictureVars, loopVars,
                   commitVars, pointer, tilt>>

(* KEY_HOME refreshes the whole panel, KEY_POWER calls exit(0).            *)
ButtonHome ==
    /\ Running /\ pc.input = "idle"
    /\ Present(FullRect(Panel))
    /\ UNCHANGED <<effective, mode, age, src, received, info, fb, dst, pc,
                   loopVars, commitVars, pointer, tilt>>

ButtonPower ==
    /\ Running /\ pc.input = "idle"
    /\ Goto("main", "closed")
    /\ UNCHANGED <<effective, mode, age, src, received, info, pictureVars,
                   loopVars, commitVars, pointer, tilt>>

-----------------------------------------------------------------------------
(* The sensor thread: run() calls back on a change of tilt, and            *)
(* set_effective_orientation exchanges effective_, then marks the source.  *)

SensorTilt(d) ==
    /\ Running /\ pc.sensor = "idle" /\ d # tilt
    /\ tilt' = d
    /\ LET turn == BlitOf[d] # "Auto" /\ BlitOf[d] # effective
       IN /\ effective' = IF turn THEN BlitOf[d] ELSE effective
          /\ Goto("sensor", IF turn THEN "mark" ELSE "idle")
    /\ UNCHANGED <<mode, age, src, received, info, pictureVars, loopVars,
                   commitVars, pointer>>

(* The source marked dirty without has_update; and as the code marks it.   *)
WholeSourceUnflagged == [rect |-> FullRect(src), has |-> info.has]
WholeSource == IF src.w > 0 /\ src.h > 0 THEN [rect |-> FullRect(src), has |-> TRUE]
               ELSE info

SensorMark ==
    /\ Running /\ pc.sensor = "mark"
    /\ info' = WholeSource
    /\ Goto("sensor", "idle")
    /\ UNCHANGED <<effective, mode, age, src, received, pictureVars, loopVars,
                   commitVars, pointer, tilt>>

-----------------------------------------------------------------------------

(* Steps the program takes by itself: fair.                                *)
DecodeRest == \/ \E r \in DamageRects : RecvRect(r)
              \/ \E sz \in SrcSizes : Resize(sz)
MainStep == CommitRead \/ CommitWrite \/ EventLoop \/ Repaint("main")
InputStep == InputLift \/ Repaint("input")
Clock == PollTimeout \/ Tick

(* Steps of the server, the user and the device: they may never come.      *)
Network == \/ \E sz \in SrcSizes : Connect(sz)
           \/ \E n \in 0 .. MaxRects : MessageArrives(n)
           \/ ServerCloses
User == \/ \E kind \in {"press", "update", "release"}, q \in TouchCells : InputTouch(kind, q)
        \/ KeyboardOpens \/ KeyboardCloses \/ ButtonHome \/ ButtonPower
Sensor == SensorMark \/ \E d \in DOMAIN BlitOf : SensorTilt(d)

Next == DecodeRest \/ MainStep \/ InputStep \/ Clock \/ Network \/ User \/ Sensor

(* Every thread that can move does, a message that was begun is completed, *)
(* time passes and a timeout fires.  Nothing makes the server, the user or *)
(* the accelerometer say anything.                                         *)
Fairness == /\ WF_vars(DecodeRest) /\ WF_vars(MainStep) /\ WF_vars(InputStep)
            /\ WF_vars(PollTimeout) /\ WF_vars(Tick) /\ WF_vars(SensorMark)

Spec == Init /\ [][Next]_vars
FairSpec == Spec /\ Fairness

-----------------------------------------------------------------------------
(* What the display still owes the server's picture.                       *)

(* The received pixels that have a cell on the panel; and those of them    *)
(* whose cell shows something else.                                        *)
OnPanel == {p \in received : ToPanel(effective, src, p) \in Cells}
Damaged == {p \in received : LET q == ToPanel(effective, src, p)
                             IN q \in Cells /\ panel[q] # p}

(* Those a blit must still put where they belong in the drawing buffer.    *)
Owed == {p \in received : LET q == ToPanel(effective, src, p)
                          IN q \in Cells /\ fb[q] # p}

(* A thread or the accumulator still has p in hand: it is in update_info,  *)
(* in the rectangle being committed, in the one a repaint() is about to    *)
(* blit, or the sensor thread is about to mark the whole source.           *)
Pending(p) == info.has /\ p \in Pix(info.rect)
Committing(p) == pc.main \in {"commitRead", "commitWrite"} /\ p \in Pix(cur)
Painting(p) == (\E t \in Painters : pc[t] = "blit") /\ p \in Pix(info.rect)
Turning == pc.sensor = "mark"

Tracked(p) == Pending(p) \/ Committing(p) \/ Painting(p) \/ Turning
Untracked == {p \in Owed : Running /\ ~Tracked(p)}

-----------------------------------------------------------------------------
(* Properties.                                                             *)

(* Every variable keeps the type of what it stands for in the source.      *)
TypeOK ==
    /\ effective \in Orientations
    /\ mode \in {"fast", "standard"}
    /\ age \in 0 .. 2
    /\ src \in SrcSizes \cup {NoSize}
    /\ received \subseteq Pixels(src)
    /\ info \in [rect : Rect, has : BOOLEAN]
    /\ fb \in [Cells -> (Nat \X Nat) \cup {Stale}]
    /\ panel \in [Cells -> (Nat \X Nat) \cup {Stale}]
    /\ pc \in [main : {"init", "poll", "rects", "commitRead", "commitWrite",
                       "loop", "clear", "blit", "present", "closed"},
                input : {"absent", "idle", "lift", "clear", "blit", "present"},
                sensor : {"absent", "idle", "mark"}]
    /\ timed \in BOOLEAN
    /\ left \in 0 .. MaxRects
    /\ cur \in Rect
    /\ snap \in [rect : Rect, has : BOOLEAN]
    /\ dst \in [Painters -> Rect]
    /\ pointer \in [at : Cells, to : Int \X Int, button : {"Left", "None"}]
    /\ tilt \in DOMAIN BlitOf \cup {"Unknown"}

(* Damage is never forgotten: while a received pixel is not where it       *)
(* belongs in the drawing buffer, update_info or a thread in the middle of *)
(* a step covers it (commit_updates, repaint, set_effective_orientation).  *)
NoLostDamage == Untracked = {}

(* When damage is forgotten, it is in commit_updates' write, and there for *)
(* one of three reasons: the bad-merge branch flushed a rectangle that was *)
(* never blitted (588-607); update_info changed between the read and the   *)
(* write, so the write undoes another thread's (609 or 616); or the input  *)
(* thread had cleared has_update and not yet blitted when a fresh          *)
(* rectangle replaced the one it was to paint (169, 614).                  *)
LossExplained ==
    /\ pc.main = "commitWrite"
    /\ \/ snap.has /\ BadMerge(snap.rect, cur)
       \/ info # snap
       \/ ~snap.has /\ pc.input = "blit"
DamageLostOnlyByFlushOrRace ==
    [][~(Untracked' \subseteq Untracked) => LossExplained]_vars

(* The rectangle a repaint() hands to device.update() covers every cell    *)
(* its blit changed: a cell where the drawing buffer is ahead of the panel *)
(* is in a rectangle about to be presented (345-468, 178-195).             *)
PresentedExactly ==
    Running => \A q \in Cells : fb[q] # panel[q] =>
        \E t \in Painters : pc[t] = "present" /\ q \in Pix(dst[t])

(* The client sleeps in a poll without a timeout only when the panel shows *)
(* all it received: neither the throttle nor a message that ends a timed   *)
(* poll makes it forget a repaint (event_loop, 217-247; client 222-250).   *)
AsleepIsUpToDate == pc.main = "poll" /\ ~timed => Damaged = {}

(* The picture never goes back (Display): a repaint of either thread, the  *)
(* flush of a rectangle never blitted or the refresh of KEY_HOME, at any   *)
(* moment, takes nothing off the panel that is still current.              *)
AllPixels == UNION {Pixels(s) : s \in SrcSizes}
D == INSTANCE Display WITH Pixel <- AllPixels, received <- OnPanel,
                           shown <- OnPanel \ Damaged
DisplaySpec == D!Spec

(* A pixel the server sent reaches the panel, or the session ends: the     *)
(* throttle of event_loop and the timeout of poll delay a repaint, they    *)
(* never skip the last one.                                                *)
EventuallyShown ==
    \A p \in AllPixels :
        p \in Damaged ~> (p \notin Damaged \/ ~Running)

(* A message from the server, told from a timeout: both end a timed poll   *)
(* in the same way when the message has no rectangle.                      *)
ServerSpeaks == \/ \E n \in 1 .. MaxRects : MessageArrives(n)
                \/ ~timed /\ MessageArrives(0)

(* Unless the server keeps talking, the client ends up asleep in a poll    *)
(* without timeout: damage waiting for its delay never turns event_loop    *)
(* into a busy or a ticking loop, though fast mode never clears has_update *)
IdleWhenQuiet ==
    \/ []<><<ServerSpeaks>>_vars
    \/ <>[](~Running \/ pc.main = "init" \/ (pc.main = "poll" /\ ~timed))

(* A touch is sent to the server as the pixel the user sees under the      *)
(* finger (send_button_press, transform_input).                            *)
TouchHitsShownPixel ==
    [][pointer' # pointer => panel[pointer'.at] \in {pointer'.to, Stale}]_vars

(* screen.hpp:49-52 of set_effective_orientation: "trigger a full repaint  *)
(* so the new orientation lands on the panel immediately".  Once the       *)
(* device is held still, the panel keeps coming to show all it received.   *)
RotationLands ==
    <>[](pc.sensor = "idle") => []<>(Damaged = {} \/ ~Running)

(* screen.cpp:636-638: the race on update_info is at worst "a single-frame *)
(* race that resolves on the following repaint cycle".  When every thread  *)
(* is at rest and no update is pending, no received pixel's cell is left   *)
(* holding another pixel, one that another orientation put there.          *)
AtRest == /\ pc.main = "poll" /\ pc.input \in {"absent", "idle"}
          /\ pc.sensor \in {"absent", "idle"} /\ ~info.has
TurnRaceHeals ==
    AtRest => \A p \in received : LET q == ToPanel(effective, src, p)
                                 IN q \in Cells => fb[q] \in {p, Stale}

(* main.cpp:212-213, --auto-rotate "Overrides --orientation while active": *)
(* between turns the blit uses what the last tilt maps to.                 *)
AutoRotateWins ==
    tilt # "Unknown" /\ BlitOf[tilt] # "Auto" => effective = BlitOf[tilt]

=============================================================================
