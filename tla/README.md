# rmcast in TLA+

rmcast mirrors a desktop to a reMarkable tablet. This directory models its core
logic in TLA+, checks small instances with TLC, and proves the main results with
TLAPS for every value of the constants. Paths below are relative to the
repository (`src/` is its root).

## 1. The system

**vnsee** (`src/src`) is a VNC client that draws into a framebuffer.

| component | state | operations |
|---|---|---|
| `app::screen` | `update_info` (one damage box and a flag), `last_repaint`, `repaint_mode`, `effective_`, source size and buffer | `create_framebuf`, `commit_updates`, `event_loop`, `repaint`, `blit_rotated`, `transform_input`, `set_effective_orientation` |
| `app::client` | poll set, timeout | connect, poll and handle one server message, send pointer and key events |
| input thread | none of its own | touch, virtual keyboard and button handlers; a release calls `repaint()` |
| `OrientationSensor` | last tilt | on a change of tilt, calls `set_effective_orientation` |
| `rmioc::screen` | the drawing buffer; a vncast or an AppLoad connection | `update`, `update_cursor` |
| rotation lock (`main.cpp`) | saved values of the sensor files | silence, restore on exit and on signals |

**vncast** (`src/middleware/extension`) runs in the tablet's UI: `Server` accepts one
vnsee over a local socket and shares memory with it, `FrameView` paints that memory,
`Launcher` starts and stops both, QML pages drive it, `Settings` and `detect` configure
it. `fbmanagement` and `FBController` are the other side of vnsee's AppLoad backend.

How they interact: libvncclient calls `create_framebuf` and `commit_updates` from
the main thread's `HandleRFBServerMessage`; the input thread calls `repaint()` and sends
on the VNC socket; the sensor thread writes `effective_` (atomic) and `update_info` (not);
`rmioc::screen` sends `Frame` messages to `Server`, whose signal makes `FrameView` repaint.
Nothing in vnsee takes a lock.

What is hard: three threads on one unlocked accumulator; a throttle and a poll timeout
that must not skip the last repaint; two coordinate systems; a session that can be
resized, turned or closed at any step; and, between processes, dropped frames,
reconnections, kills and restarts. `PROJECT.json` lists each hazard at its line.

What makes each part correct:

- screen: a pixel received is drawn, presented, and never forgotten; the client
  sleeps when there is nothing to do; touches go to the pixel under the finger; a turn
  reaches the panel.
- server and view: the last frame is painted; a new client is accepted once the old one is
  gone; nothing of an old session is shown as current.
- launcher: one process and one server per session; shared memory outlives its readers;
  the status agrees with the process.
- rotation lock: after the last vnsee is gone the sensor files hold what they held before.
- fbmanagement: the two sides find each other whichever comes first; nothing dead is used; no
  wait for a paint blocks the paint.

## 2. Modules

| module | content |
|---|---|
| `Geometry` | rectangles, damage merge, clamping, rotation of pixels, rectangles and touches: pure operators with the arithmetic of `screen.cpp` |
| `Tilt` | `classify()` of the orientation sensor |
| `Display` | the abstract specification of the panel: the picture never goes back |
| `Screen` | screen, client event loop, input thread, sensor thread; with a fixed orientation implements `Display` |
| `RotationLock` | the guard in `main.cpp` that silences and restores the sensor files |
| `Mono1` | the decoder that `patches/` adds to libvncclient |
| `Mirror` | the abstract specification of casting: what a page may show of a session's picture |
| `Cast` | vnsee's vncast connection, the server and the frame view, over several sessions; implements `Mirror` |
| `Launcher` | the overlay, the process of vnsee and the life of the server |
| `Management` | the AppLoad side: client threads, the GUI thread and the scene graph on shared framebuffers |
| `MCScreen`, `MCRotationLock`, `MCCast`, `MCLauncher`, `MCManagement` | values for TLC |
| `GeometryProofs`, `ScreenProofs`, `RotationLockProofs`, `Mono1Proofs`, `CastProofs`, `LauncherProofs`, `ManagementProofs` | theorems |
| `QueueProofs` | lemmas about queues of messages, used by `CastProofs` and `ManagementProofs` |

The modules meet at narrow places. `Screen`'s `Present` is `rmioc::screen::update`, whose
vncast side is the `Blit` and `Announce` of `Cast`; `Cast`'s `StartSession` and
`Disconnect` are `startSession` and `stopSession` in the order that `Launcher` establishes
(`OneVnsee`, `ReplacedOnlyWhenDead`); `Launcher` keeps of the frames only the first. What a
decoder does between two messages is `RecvRect` of `Screen` and, for one encoding, all of
`Mono1`.

### Screen

Variables keep the source's roles: `info` is `update_info`, `effective`, `mode` and `src`
are `effective_`, `repaint_mode` and `src_width_`/`src_height_`, `fb` is what
`device.get_data()` points to, `panel` what `device.update()` last refreshed, `dst` the
rectangle `blit_rotated` returned, `cur` and `snap` the arguments and the tests of
`commit_updates`, `tilt` the sensor's `last_`, `pc` where each thread is.

| action | code |
|---|---|
| `Connect`, `Resize` | `client::client` up to the input thread; `create_framebuf` on NewFBSize |
| `MessageArrives`, `RecvRect`, `ServerCloses` | poll returns; libvncclient decodes a rectangle; the session ends |
| `CommitRead`, `CommitWrite` | the two halves of `commit_updates`: its test of `update_info`, and the branch it takes (`StartFresh`, `FlushBadMerge`, `MergeIn`) |
| `EventLoop`, `PollTimeout` | `screen::event_loop` and the timeout it hands to poll |
| `RepaintClear`, `RepaintBlit`, `RepaintPresent` | the three parts of `repaint()`, in either thread |
| `InputTouch`, `InputLift` | `touch::handle_event`: a press, update or release, and the second half of a release |
| `KeyboardOpens`, `KeyboardCloses`, `ButtonHome`, `ButtonPower` | the other input handlers |
| `SensorTilt`, `SensorMark` | the exchange of `effective_`, then the marking of the whole source |
| `Tick` | time passes |

Abstractions. *Pixels*: a cell holds the source pixel whose present value it shows, or
`Stale`; decoding a rectangle makes every cell that shows one of its pixels stale. This tells
a current picture from an old one and one place from another, which is all the
properties need. *Time*: the age of the last repaint is 0, at least the fast delay (1), or at
least the standard delay (2). *Atomicity*: a step reads or writes the five fields of
`update_info` together, and decodes or blits a rectangle at once; finer
interleavings, data races within a field and freed memory are not modelled.
*libvncclient* is external: a message is at most `MaxRects` rectangles, each a damage
rectangle, a full frame or a resize, and any other message is one with none. A message
already in its read buffer is taken to wake poll. *Buttons*: `KEY_HOME` and
`KEY_POWER` are modelled as `buttons.cpp` handles them, although the tree's own
`common.h` gives buttons other codes. Keys that are only forwarded change nothing here.

### RotationLock

`file` is the kernel's state and outlives every process; `prior`, `saved` and `armed` are
the guard's members, `stage` and `at` where each instance is.

| action | code (`main.cpp`) |
|---|---|
| `Start`, `Read`, `Write`, `Arm` | the constructor: one file access each, then the handlers |
| `Return`, `Restore` | the end of `main`, and `restore()` one file at a time |
| `Signal` | SIGINT, SIGTERM, SIGHUP, SIGQUIT, with and without a handler, also during `restore()` |
| `Kill`, `Power` | the launcher's SIGKILL; the power button's `exit(0)` (`buttons.cpp`) |

`blame` is a history variable: it names the ends after which the files may rightly differ.

### Cast

The panel is a set of tiles; a rectangle is the set of tiles it covers; the pixels of a tile
are the number of the frame that drew them. The socket's buffer holds `Room` messages.

| action | code |
|---|---|
| `StartSession`, `Disconnect`, `Relayout` | the page: `startSession` with a new `FrameView`, `stopSession` and the view's end, a flip or a new geometry |
| `Connect`, `GetAck` | `vncast_client.cpp`: connect, Hello, the answer |
| `Blit`, `Announce`, `SendCursorPos`, `SayBye`, `Die` | its frames (pixels, then the message), cursor with its cache, Bye, and the ways to end without one |
| `OnNewConnection`, `HandleHello`, `DropFrame`, `EmitFrame`, `HandleCursor`, `DropClient` | `server.cpp`: accept or refuse, and one message at a time |
| `PeriodPasses` | the clock of the frame cap |
| `Paint` | `frame_view.cpp`: `paint()` tile by tile; `OnFrameReady` and `MapSourceRect` are part of `EmitFrame` |

`skipped` and `base` are history: tiles whose last frame the cap kept from being painted, and
the number of frames before this session. Client and server are taken to speak the same
version of the protocol; a wrong magic or version ends the connection like `Die`.

### Launcher

`mproc` is `m_proc`, `link` is `m_socket`, `server` the format of the shared memory,
`status` the status line, from which the pages derive full screen.

| action | code |
|---|---|
| `OpenOverlay`, `CloseOverlay`, `Refuse`, `StartSession` | the pages and `startSession()`: `NullCall`, `ServerFails`, `SpawnFails` and `Spawn` are its outcomes |
| `StopSession` | `stopSession()`: `NothingToStop`, `Kill`, `KillTimesOut` |
| `Exit`, `ConnectsTo`, `SendFirst` | vnsee, another process |
| `Finished`, `Accept`, `ReadFirst`, `Dropped` | the handlers, one event at a time and in any order |

`NullCall` is undefined behaviour in `Server::stop()`: `disconnectFromServer()` may run the
handler that clears `m_socket`, on which `deleteLater()` is then called. It may go unnoticed or
end xochitl (`down`). `Dropped` waits for the process to be gone, while the code may hear of a
closed connection before the process is reaped; nothing that is checked depends on it.

### Management

A backend is named for the client that made it. `pc` is where each client's thread is and
`errand` what it goes to the controller for, `gui` where in a handler the GUI thread is,
`brush` how far `paint()` has come, `held` the `QPointer` a thread has copied.

| action | code |
|---|---|
| `Join`, `Make` | `handleInitialize`, under the mutex |
| `SendUpdate`, `End` | the client asks for an update, without the mutex; it ends |
| `Close`, `Free` | `close:`: leave the backend; destroy it and release the mutex |
| `Find`, `Fetch`, `Test`, `Await`, `Write`, `Post` | what a thread does on its errand: `framebuffers.find()`, `framebuffers[]`, `isNull()`, the look at `isMidPaint`, and the two halves of `associateSHM()`, the second also the queueing of an update. The errands are `tryToMatchUp` (bind), `handleUpdateRegion` (update) and the dissociation (cut) |
| `Create`, `SetFramebufferID`, `Destroy`, `Vanish` | `FBController` comes, changes its key, unregisters, and is gone |
| `Register`, `Emplace`, `Look`, `Take`, `Deref`, `Attach` | `registerController` and its `tryToMatchUp` on the GUI thread, without the mutex |
| `HandleCheck`, `Erase`, `ReadImage`, `SetActive` | the check that `associateSHM` queues: the look-up, then the image erased or read, then `setActive` |
| `MarkedUpdate` | an update that was queued |
| `Input`, `ForwardUserInput` | the event handlers, which take the mutex |
| `PaintBegin`, `PaintTest`, `PaintImage`, `PaintEnd` | `paint()` on the render thread, with the GUI thread held |

The GUI thread and the paint share the map of controllers, the image, `isMidPaint` and the
controller itself with client threads, and no common lock. So every access to one of these is
a step of its own: a `find()` and the `operator[]` after it, an `isNull()` and the use after
it, the test of the image and its drawing. Two accesses share a step only where the mutex
covers both, or where no other thread can tell their order, and each such step says why: `Make`
and `Close` with the mutex, `SetFramebufferID` (nobody reads both the entry and the key),
`Attach` (image and queue before its handler is over), `SetActive` (others read only
`isMidPaint`), `Post` (the key, which changes before the call is queued only if the controller
moves). `operator[]` on a missing key inserts a null entry, as it does in the code.

`races` collects the races of the code that have happened, each noted only by the step at
which it does: `moved` (the controller changed its key), `orphaned` (an `operator[]` inserted
a null entry), `late` (the GUI thread goes on with a backend that is not that of the key any
more), `erased` (a check takes away an image newer than its look-up), `painted` (a paint
begins between the last look at `isMidPaint` and the dissociation) and `ended` (the controller
ends between a test that it is not null and its use). `misused` says that a dead image,
backend or controller has been used; what follows is undefined, and the model stops there. An
access to a map is itself never torn in the model, though the code has no lock for it.

### Mono1 and Tilt

`Mono1` decodes one rectangle of any size from any bytes into a buffer that holds anything:
`ReadPlain`, `ReadCompressed` and `Fail`, one action per kind of run (`RepeatRun`,
`LiteralRun`, `BreakOff` for a run cut short, `EndRuns`), then `DrawRow` and `RectDone`.
`Encodes` defines the format without a decoder, by where each run begins in the payload and
in the bytes it stands for. `Tilt` is the one function `Classify`.

## 3. Runs

**Screen.** The panel is 2 x 3, portrait as the device is, and the desktop 3 x 2, so that it
fills the panel when turned; a second, 1 x 2 desktop leaves cells uncovered and resolves Auto
the other way. That is the smallest size on which two far corners are a bad merge
(6 > 2 * 2), pixels on all sides of a turned rectangle differ, and a damage box can be wrong
by one. Two rectangles per message (`MaxRects`) make a merge happen inside a message;
merges across messages happen whatever the bound.

**RotationLock.** Two instances, which may overlap or follow one another, and four files: an
ordinary one, one that cannot be parsed, one that does not exist, and the Hall switch. The
instances are symmetric.

**Cast.** Two sessions, so that everything the first leaves in the server, in shared memory
and in late messages meets the second; three frames, so that a session has a last frame
behind one that started the cap's period; a buffer of two messages, which fills; a tile that a
small rectangle redraws past the cap and one that it does not.

**Launcher.** Three runs: one that outlives its stop or whose end is heard late, one
started while its connection is still served, and one after both.

**Management.** Two clients on one key, where the second joins, is refused or comes after the
first has gone; two controllers, one after the other, so that a key
orphaned or an image erased by the first meets the second; one change of key and one update.
With one key such a change is to none; the proofs cover any number of keys.

| run | configuration | shows |
|---|---|---|
| `session` | vncast, fixed orientation from Auto, resizes, damage that always merges | `TypeOK`; `NoLostDamage`; `AsleepIsUpToDate`: an untimed poll begins only with nothing left to show; `EventuallyShown`; `IdleWhenQuiet` |
| `input` | AppLoad, fixed orientation, far damage, touches and buttons | `PresentedExactly`; `DamageLostOnlyByFlushOrRace`; `TouchHitsShownPixel`; `DisplaySpec`: `Screen` implements `Display` |
| `rotation` | AppLoad with `--auto-rotate`: all three threads, one rectangle per message | `PresentedExactly`; `DamageLostOnlyByFlushOrRace` |
| `rotation_lock` | signals, SIGKILL and the power button between any two file accesses | `LeftAsFound`: the files are put back but for four named ends; `SilentWhileRunning` |
| `cast` | with and without a frame cap, kills and late disconnections | `NothingForgotten`: every pixel drawn is on its way to the page; `CursorAgrees`; `NeverInVain`: a vnsee that waits without a timeout has a connection or a message the server has yet to take; `RefusedOnlyBehindDead`; `MirrorSpec`: `Cast` implements `Mirror`; `ShownUnlessSkipped` |
| `launcher` | events in any order, kills that time out, allocation and spawn failures | `OnlyWhileServed`; `OneVnsee`; `CastIsFullscreen`; `ReplacedOnlyWhenDead`; `FullscreenEnds` |
| `management` | two client threads, GUI thread and scene graph | `BackendLives`; `MatchedUp`; `DeadOnlyByRace`; `OneDeadlock`: who has the mutex can go on or waits for a paint that comes, but for one deadlock; `LetGo`: a closing thread is let go but for that one |
| `flush_without_blit` | vncast, far damage | `NoLostDamage` is **violated** |
| `rotation_quiet` | vncast with `--auto-rotate`, full frames only | `RotationLands` is **violated** |
| `rotation_race` | AppLoad with `--auto-rotate`, damage that always merges | `TurnRaceHeals` is **violated** |
| `rotation_override` | `--orientation auto --auto-rotate` | `AutoRotateWins` is **violated** |
| `cast_capped` | as `cast` | `EveryFrameShown` is **violated** |

Each module but `Geometry`, `Tilt`, `Display`, `Mirror` and `Mono1` also has a type invariant, checked in
one of its runs. `Tilt` and `Mono1` have no run of their own: what is said of them is proved
for every input.

The five violations are disagreements between the code and what its comments or its help
say; `PROJECT.json` quotes the lines. In short: the bad-merge flush presents what was never
blitted; a turn does not wake the poll; a turn that races a commit is lost for
good, not for one frame; Auto's resolution overrides the sensor; and a frame that the cap
skips is painted only if another one comes.

Some properties name their exceptions, and those are results too. `LeftAsFound` excepts two
overlapping instances, a signal before the handlers are installed, SIGKILL, and the power
button. `DeadOnlyByRace` excepts `moved`, `late`, `painted` and `ended`: a changed key, and
three tests of another thread's state that are stale when acted upon; each is noted only if it
happens exactly there, so every other order is covered. `MatchedUp` excepts `moved`, and two
races after which the sides miss each other for good: `erased`, a client that comes between the
look-up of a check and its erasure and is then shown by nobody, and `orphaned`, a null entry
that makes `registerController` refuse every later controller of its key. A backend that the
GUI thread attaches late is no exception there: a queued check takes it away again.
`OneDeadlock` and `LetGo` except a thread that holds the mutex and waits for a paint while the GUI thread waits for the mutex to forward input.

Deadlock is not checked: a session may end, a bound may be reached, and a client whose server
is silent rightly waits for ever. Where everyone waiting on everyone is the question,
`OneDeadlock` and `NeverInVain` state it as an invariant, and `LetGo` with fairness.

Fairness is weak fairness of what the program does by itself, and none of the user, the
server on the desktop, the accelerometer or the end of a process:

- `Screen`: the steps of the main and input threads, the rest of a message once begun, the
  timeout of poll, time, and the sensor's second half-step. The operating system schedules
  every thread and nothing here waits for a lock. `IdleWhenQuiet` counts a rectangle-free
  message that ends a timed poll as a timeout, since the two are the same step.
- `Cast`: the server's event loop takes what has arrived (`Serve`), the scene graph paints
  what is dirty (`Paint`), and `send_all()` goes on once there is room (`Announce`). vnsee
  need not draw anything, nor a session end.
- `Launcher`: the event loop of xochitl delivers what has happened (`Finished`, `Accept`,
  `ReadFirst`, `Dropped`).
- `Management`: a client thread on its errand or before its end goes on, the GUI thread ends
  its handlers and takes what is queued, and what is scheduled is painted. Who gets the mutex
  is not promised: no property needs it.

## 4. Proofs

Every theorem holds for all values of the constants that meet the named assumptions of its
module (positive sizes, bounds that are natural numbers, names that differ); those of
`Mono1Proofs` state their assumption, `Rectangle`, themselves.

**Geometry and Tilt.** `TouchInvertsBlit`: the touch map is the two-sided inverse of the
pixel map. `BlitReported`: a panel cell the blit writes is in the rectangle it reports, clamps
included. With `ClampKeeps` and `MergeCovers` these are the facts the rest uses.
`StrongestAxis` and `TurnedOver` say what a reported tilt means; `NoHysteresis` shows that the
threshold compares one axis and not the difference of two, against the comment above it.

**Screen.**

- `TypeCorrect`: from the inductive `Inv == TypeOK /\ RectsRemain`. `RectsRemain`
  (a thread decoding still has a rectangle to decode) is needed because decoding
  decrements the count.
- `PresentedCorrect`: `PresentedExactly` is inductive with `Inv`; the one hard
  step is the blit, which needs `BlitReported`.
- `LossOnlyAsExplained`: every step but `CommitWrite` keeps each owed pixel tracked
  or draws it; the blit needs the injectivity of the pixel map (`BlitSettles`), and
  `CommitWrite` needs that a merge covers both boxes. What is left are the three reasons in
  `LossExplained`.
- `VncastLosesOnlyByFlush`: with no second thread, `info = snap` at the write
  (`Alone`), which rules out the two races.
- `TouchCorrect`: with a fixed orientation every drawn pixel stays at its own cell
  (`InPlace`), so the inverse map finds the pixel shown.
- `MergedDamageIsKept`: on vncast with a fixed orientation `NoLostDamage` holds for any
  damage that always merges (`MergeableIn(Boxes)`: some set of boxes contains the damage, is
  closed under merging damage in, and never refuses). The invariant is `Alone` with `Boxed`:
  what is accumulated is one of the boxes and what is committed is damage, so neither the
  flush nor a race of `LossExplained` is left. The hypothesis is not idle: the four boxes of
  the `session` run meet it, and `FullFramesAreKept` shows that whole frames of a desktop of
  any size do.
- `NeverAsleepOnDamage`: under the same hypothesis, `AsleepIsUpToDate`. It needs `PaidUp`:
  after a repaint, and in an untimed poll, nothing is owed; a blit pays everything because
  everything owed is in the box it draws (`BlitPays`). This is the safety half of
  `EventuallyShown`: a pixel can be late only where a timeout is armed.
- `ImplementsDisplay`: with a fixed orientation, on both backends and with any damage. Every
  step is a `Replace`, a `Receive`, a `Show` or a stutter of `Display`. Besides `InPlace` it
  needs `Ahead`: where the panel shows a current pixel the drawing buffer has the same one, so
  that presenting any rectangle at any moment takes nothing current off the panel.
- `NeverHalfTurnedWhenFixed` and `OverriddenOnlyByAuto` bound two of the findings: without
  `--auto-rotate` no cell is left with another's pixel, and an orientation requested by name
  is overridden by the sensor as `main.cpp` says.

**RotationLock.** `TypeCorrect`, `PutsBack` and `StaysSilent`, from one invariant: while
`blame` is empty at most one instance is alive (`Alone`), and it knows the files (`Held`): the
values it will write are the original ones, what it has not taken is untouched, and what it
has taken is silent until `restore()` reaches it.

**Mono1.** `StaysInBounds`: whatever is sent, every access is within what came and what was
allocated. `DrawsWhatWasEncoded`: between two runs the decoder stands where a run of the
encoding begins and has decoded those before it (`Between`), so at the end every pixel is that
of the bytes encoded, provided the runs reach the end of the rectangle.

**Cast.** The invariant is built in layers, each proved from the ones before.

- `Structure` (`TypeCorrect`, `RefusesBehindDead`): one vnsee at a time, connections
  accepted in the order of their sessions, a Bye or an end only from a vnsee that is gone.
- `Picturing` (`NoPixelForgotten`): adds that a view with a stale geometry is dirty all
  over, that a page shows nothing before its first frame (`View`), and of the pixels that before
  the first frame is taken everything drawn still has its announcement to come (`AllWait`) and
  that the first frame is never capped (`FirstIsNotCapped`): so nothing is lost by being drawn
  before the page shows pixels at all.
- `Pointing` (`CursorFollows`): the last cursor message on the way is the client's cache
  (`LastCursor`), and nothing of an earlier session is left when a client is accepted.
- `ImplementsMirror`: each step maps to a step of `Mirror` or a stutter, under the
  mapping of `M`, which shows of shared memory and page this session's part. `Picturing` is what
  makes a paint show what is drawn, not something of another session.
- `NeverWaitsInVain` (`NeverInVain`): adds `Greeted` to `Structure`. A Hello without an answer
  is the first message of a connection that waits to be accepted or is served; so the wait for
  the HelloAck ends in an acceptance or a refusal, and a Frame that waits for room has a
  reader, whatever earlier sessions left in the backlog.

**Launcher.** `Inv` is the conjunction of the safety properties with `TypeOK` and two facts: a
run not yet spawned has no connection (`Fresh`), and a client whose first frame
is on its way is, or was, served (`FirstIsServed`). `ServedOnly`, `NeverTwo`,
`BeginsFullscreen` and `ReplacedWhenDead` follow from it.

**Management.**

- `Types` adds to `TypeOK` that threads that have begun have named a key and that a thread is
  on an errand exactly while it visits the controller.
- `Sharing` (`Lives`): members of a backend are the threads past their initialisation and not
  yet through `close:`, a backend without members is the one being destroyed, and only its
  destroyer has the mutex meanwhile.
- `Standing`: controllers are numbered, so a stale `QPointer` is never mistaken for the present
  one (`Numbered`); the GUI thread's backend is one of the key (`Found`); unless it moves, a
  controller stays registered for the key of every thread that has looked it up
  (`Registered`), and as long as it has an image (`Shown`).
- `Showing` (`NothingDeadIsUsed`): unless moved, late, painted or ended, a thread that has
  tested the controller can use it (`Holds`); what the controller shows is the backend of its
  key, or the doomed one while a thread is on its way to take it away (`Shows`); and no thread
  writes while that is painted (`Paints`).
- `Matching` (`TheTwoMeet`): unless moved or erased, a backend that its controller does not show
  has somebody on the way to bring it, the GUI thread or the thread with the mutex (`Bringing`);
  an image without a backend of the key has a check queued or a thread on its way to cut it
  (`Taking`); every change of the image has a check behind it (`Activity`), which asks for the
  present key (`Checks`); and a controller is registered unless orphaned (`Enrolled`). The hard
  step is `Attach` of a backend looked up earlier: if it is alive, it is the one of the key or
  the key has none (`FoundIs`).
- `NobodyElseIsStuck` (`OneDeadlock`): outside a paint `isMidPaint` is set only with a paint
  scheduled (`Promised`), also when it is not initialised, and the awaited controller is one
  that exists. So the holder waits for nothing that cannot come, but for the paint that a GUI
  thread in `forwardUserInput()` holds up.

Only model-checked: the liveness properties `EventuallyShown`, `IdleWhenQuiet`,
`ShownUnlessSkipped`, `FullscreenEnds` and `LetGo` (the prover has no fairness or ENABLED
reasoning), and the violations. Every invariant and action property of a passing run is
the conclusion of a theorem.

## 5. Plan

Done, in the order planned: `Geometry` and `Screen`, then `Display` above it; `Cast`
with the abstract `Mirror`; `Launcher`; `Management`; `RotationLock`; the decoder and the tilt.

What would be worth adding, in this order:

1. Scaled mode and refresh modes of `Management`, and a second `initialize` on one connection.
2. The three axes of a reading taken one after the other while the tablet turns.
3. `Settings`: a crash between the truncation of the file and its write.

## 6. Not modelled

- Pixel formats, waveform constants, logging, layout of pages, scripts and installers:
  configuration, output or build.
- libvncclient, but for the patch: `Screen` takes from it a bounded list of rectangles. How
  it matches the names of encodings is why `PROJECT.json` lists, by reading only, that the
  second name of `screen.cpp:136` may never be advertised.
- `main.cpp` beyond the rotation lock: options, and the choice of a landscape buffer for
  AppLoad.
- The waveform hook's interposition of a closed library; `Launcher` has only whether it is on.
- `Settings` and `detect`: straight-line file access and a table.
- The rounds of `middleware/PROTOCOL.md` that no source file implements, and peers of another
  version of the protocol.
- `fbmanagement` and `FBController` are not compiled by `vncast.pro`; `Management` models them as
  they stand. Scaled and refresh modes, and torn accesses to the unlocked maps, are left out.
- Memory lifetimes within vnsee: the reallocation of `src_buffer_` under the input thread, and
  handlers used while `main` destroys the client. Data races within a field.
