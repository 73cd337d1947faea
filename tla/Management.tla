----------------------------- MODULE Management -----------------------------
(***************************************************************************)
(* The framebuffers of qtfb, as AppLoad serves them: fbmanagement.cpp and  *)
(* FBController.cpp, the ancestors of the server and the view of Cast.     *)
(*                                                                         *)
(* A client names a framebuffer by its key; the first to do so makes the   *)
(* backend (the shared memory and the image over it), others join it, and  *)
(* the last to leave destroys it.  An FBController on the screen registers *)
(* for a key, and whichever of the two comes second brings them together.  *)
(*                                                                         *)
(* Each client has its own thread.  One mutex guards initialisation, the   *)
(* end of a client and the forwarding of input; the GUI thread registers   *)
(* and looks up without it, and the scene graph paints without it, with    *)
(* the GUI thread held.  A step makes one access to what another thread    *)
(* may touch at the same time: a find() and the operator[] after it, an    *)
(* isNull() and the use after it, are steps of their own.  Two accesses    *)
(* share a step only where the mutex covers both, or where no other thread *)
(* can tell their order (each such step says so).  An access to a map is   *)
(* itself never torn.                                                      *)
(***************************************************************************)
EXTENDS Integers, Sequences

CONSTANTS
    Clients,        \* threads of clients
    Keys,           \* keys of framebuffers
    MaxControllers, \* bound: controllers created, one after the other
    MaxUpdates      \* bound: updates sent by clients

None == "none"
Null == 0           \* a QPointer to nothing
Absent == -1        \* no entry in a map
ASSUME NamesAssumption ==
    None \notin Clients \cup Keys /\ Clients \cap {"idle", "begun", "seen"} = {}
ASSUME BoundsAssumption == MaxControllers \in Nat /\ MaxUpdates \in Nat

VARIABLES
    pc,             \* where each client's thread is
    errand,         \* what it goes to the controller for: bind, update or cut
    key,            \* fbKey of each connection
    connections,    \* backend of each key; a backend is named for its maker
    members,        \* ClientBackend::connections
    alive,          \* backends not yet destroyed
    mutex,          \* holder of the mutex: a client's thread, or None
    doomed,         \* backendToKill of the thread that holds the mutex
    held,           \* the QPointer a thread has copied from framebuffers
    updates,        \* number of updates sent
    framebuffers,   \* QPointer registered for each key
    ctl,            \* the controller on the screen, Null for none
    born,           \* number of controllers created
    fbid,           \* _framebufferID of the controller
    image,          \* backend whose image the controller shows
    active,         \* _active
    midPaint,       \* isMidPaint
    dirty,          \* a paint is scheduled
    queue,          \* calls queued for the GUI thread
    gui,            \* idle, or where in a handler the GUI thread is
    found,          \* backend that handler has looked up
    brush,          \* image the scene graph draws, or how far paint() has come
    races,          \* history: which of the races below have happened
    misused         \* history: a dead object has been used

clientVars == <<pc, errand, key, connections, members, alive, mutex, doomed,
                held, updates>>
guiVars == <<ctl, born, fbid, gui, found>>
itemVars == <<active, midPaint, dirty, brush>>
sharedVars == <<framebuffers, image, queue>>
vars == <<clientVars, guiVars, itemVars, sharedVars, races, misused>>

Init ==
    /\ pc = [c \in Clients |-> "off"] /\ key = [c \in Clients |-> None]
    /\ errand = [c \in Clients |-> "none"]
    /\ connections = [k \in Keys |-> None]
    /\ members = [b \in Clients |-> {}] /\ alive = {}
    /\ mutex = None /\ doomed = None
    /\ held = [c \in Clients |-> Null] /\ updates = 0
    /\ framebuffers = [k \in Keys |-> Absent]
    /\ ctl = Null /\ born = 0 /\ fbid = None /\ queue = <<>>
    /\ gui = "idle" /\ found = None
    /\ image = None /\ active = FALSE /\ midPaint = FALSE /\ dirty = FALSE
    /\ brush = "idle"
    /\ races = {} /\ misused = FALSE

At(c, label) == ~misused /\ pc[c] = label
Goto(c, label) == pc' = [pc EXCEPT ![c] = label]
Visits(c, what) == errand' = [errand EXCEPT ![c] = what] /\ Goto(c, "find")
Check(k) == [kind |-> "check", key |-> k]
Update == [kind |-> "update", key |-> None]

(* A QPointer is null once its controller is gone.  A controller is not to *)
(* be used as soon as its destructor runs, which is before that.           *)
IsNull(n) == n = Null \/ ctl # n
Dead(n) == IsNull(n) \/ gui = "dying"
(* What follows the use of a dead object is undefined: the model stops     *)
(* there (At, On).                                                         *)
Uses(dead) == misused' = (misused \/ dead)

(* The races of this code, noted as they happen:                           *)
(*   moved     the controller changes its key,                             *)
(*   orphaned  an operator[] inserts a null QPointer for a key that was    *)
(*             unregistered since the find() before it,                    *)
(*   late      the GUI thread goes on with a backend that is not, or no    *)
(*             longer, that of the key,                                    *)
(*   erased    the queued check takes away the image of a backend that     *)
(*             came after its look-up,                                     *)
(*   painted   a paint begins after the wait for isMidPaint and before the *)
(*             dissociation,                                               *)
(*   ended     the controller ends after a thread has found it not null    *)
(*             and before it has used it.                                  *)
Race(name, happens) == races' = IF happens THEN races \cup {name} ELSE races

-----------------------------------------------------------------------------
(* A client's thread.                                                      *)

(* handleInitialize(), for a key that has a backend: the client joins it,  *)
(* or is refused because it asks for another format or size.               *)
Join(c, k) ==
    /\ At(c, "off") /\ mutex = None /\ connections[k] # None
    /\ key' = [key EXCEPT ![c] = k]
    /\ \/ /\ Goto(c, "up")
          /\ members' = [members EXCEPT ![connections[k]] = @ \cup {c}]
       \/ Goto(c, "close") /\ UNCHANGED members
    /\ UNCHANGED <<errand, connections, alive, mutex, doomed, held, updates,
                   guiVars, itemVars, sharedVars, races, misused>>

\* Mutated: without the mutex.
MakeUnlocked(c, k) ==
    /\ At(c, "off") /\ connections[k] = None
    /\ key' = [key EXCEPT ![c] = k]
    /\ Visits(c, "bind") /\ mutex' = c
    /\ alive' = alive \cup {c}
    /\ members' = [members EXCEPT ![c] = {c}]
    /\ connections' = [connections EXCEPT ![k] = c]
    /\ UNCHANGED <<doomed, held, updates, guiVars, itemVars, sharedVars,
                   races, misused>>
(* The first client of a key makes the backend and, still with the mutex,  *)
(* tries to match it up (nobody else can take it out of connections        *)
(* meanwhile); or createSHM() fails.                                       *)
Make(c, k) ==
    /\ At(c, "off") /\ mutex = None /\ connections[k] = None
    /\ key' = [key EXCEPT ![c] = k]
    /\ \/ /\ Visits(c, "bind") /\ mutex' = c
          /\ alive' = alive \cup {c}
          /\ members' = [members EXCEPT ![c] = {c}]
          /\ connections' = [connections EXCEPT ![k] = c]
       \/ Goto(c, "close") /\ UNCHANGED <<errand, mutex, alive, members, connections>>
    /\ UNCHANGED <<doomed, held, updates, guiVars, itemVars, sharedVars,
                   races, misused>>

(* MESSAGE_UPDATE: invokeOnConnectedFramebuffer(), without the mutex.      *)
SendUpdate(c) ==
    /\ At(c, "up") /\ updates < MaxUpdates
    /\ updates' = updates + 1
    /\ Visits(c, "update")
    /\ UNCHANGED <<key, connections, members, alive, mutex, doomed, held,
                   guiVars, itemVars, sharedVars, races, misused>>

(* The client ends, or asks for something that cannot be done.             *)
End(c) ==
    /\ At(c, "up") /\ Goto(c, "close")
    /\ UNCHANGED <<errand, key, connections, members, alive, mutex, doomed,
                   held, updates, guiVars, itemVars, sharedVars, races, misused>>

\* Mutated: whoever leaves takes the backend along.
LastOfAny(c, b) == c \in members[b]
LastOf(c, b) == members[b] = {c}

(* "close:", up to the look-up of the controller.                          *)
Close(c) ==
    /\ At(c, "close") /\ mutex = None
    /\ LET b == connections[key[c]] IN
       IF b # None /\ LastOf(c, b)
       THEN /\ connections' = [connections EXCEPT ![key[c]] = None]
            /\ members' = [members EXCEPT ![b] = {}]
            /\ doomed' = b /\ mutex' = c
            /\ Visits(c, "cut")
       ELSE /\ members' = [d \in Clients |-> IF d = b THEN members[d] \ {c} ELSE members[d]]
            /\ Goto(c, "gone")
            /\ UNCHANGED <<errand, connections, doomed, mutex>>
    /\ UNCHANGED <<key, alive, held, updates, guiVars, itemVars, sharedVars,
                   races, misused>>

Free(c) ==
    /\ At(c, "free") /\ Goto(c, "gone")
    /\ alive' = alive \ {doomed} /\ doomed' = None /\ mutex' = None
    /\ UNCHANGED <<errand, key, connections, members, held, updates, guiVars,
                   itemVars, sharedVars, races, misused>>

-----------------------------------------------------------------------------
(* What the three errands to the controller of a key have in common:       *)
(* tryToMatchUp() (bind, with the mutex), handleUpdateRegion() (update,    *)
(* without it) and the dissociation by the last client (cut, with it).     *)

Visiting == {"find", "fetch", "test", "await", "write", "post"}
(* Nothing more to do for this errand.                                     *)
Done(c) ==
    /\ Goto(c, IF errand[c] = "cut" THEN "free" ELSE "up")
    /\ mutex' = IF errand[c] = "bind" THEN None ELSE mutex
    /\ held' = [held EXCEPT ![c] = Null] /\ errand' = [errand EXCEPT ![c] = "none"]

\* Mutated: only the registration of a controller matches up.
FindForOthers(c) ==
    /\ At(c, "find")
    /\ IF framebuffers[key[c]] = Absent \/ errand[c] = "bind"
       THEN Done(c)
       ELSE Goto(c, "fetch") /\ UNCHANGED <<errand, mutex, held>>
    /\ UNCHANGED <<key, connections, members, alive, doomed, updates,
                   guiVars, itemVars, sharedVars, races, misused>>
(* framebuffers.find()                                                     *)
Find(c) ==
    /\ At(c, "find")
    /\ \/ framebuffers[key[c]] = Absent /\ Done(c)
       \/ framebuffers[key[c]] # Absent /\ Goto(c, "fetch") /\ UNCHANGED <<errand, mutex, held>>
    /\ UNCHANGED <<key, connections, members, alive, doomed, updates,
                   guiVars, itemVars, sharedVars, races, misused>>

(* framebuffers[], which inserts a null QPointer where there is no entry.  *)
Fetch(c) ==
    /\ At(c, "fetch") /\ Goto(c, "test")
    /\ LET absent == framebuffers[key[c]] = Absent
           n == IF absent THEN Null ELSE framebuffers[key[c]] IN
       /\ held' = [held EXCEPT ![c] = n]
       /\ framebuffers' = [framebuffers EXCEPT ![key[c]] = n]
       /\ Race("orphaned", absent)
    /\ UNCHANGED <<errand, key, connections, members, alive, mutex, doomed,
                   updates, guiVars, itemVars, image, queue, misused>>

(* QPointer::isNull(), before the first use and, for a cut, before each    *)
(* further look at isMidPaint.                                             *)
Onward(c) == CASE errand[c] = "bind" -> "write"
              [] errand[c] = "update" -> "post"
              [] errand[c] = "cut" -> "await"
Test(c) ==
    /\ At(c, "test")
    /\ \/ IsNull(held[c]) /\ Done(c) /\ UNCHANGED races
       \/ /\ ~IsNull(held[c]) /\ Goto(c, Onward(c)) /\ UNCHANGED <<errand, mutex, held>>
          /\ Race("ended", gui = "dying")
    /\ UNCHANGED <<key, connections, members, alive, doomed, updates,
                   guiVars, itemVars, sharedVars, misused>>

\* Mutated: the paint is not waited for.
AwaitNot(c) ==
    /\ At(c, "await") /\ Uses(Dead(held[c]))
    /\ Goto(c, "write")
    /\ UNCHANGED <<errand, key, connections, members, alive, mutex, doomed, held,
                   updates, guiVars, itemVars, sharedVars, races>>
(* The wait for isMidPaint.                                                *)
Await(c) ==
    /\ At(c, "await") /\ Uses(Dead(held[c]))
    /\ \/ midPaint /\ Goto(c, "test")
       \/ ~midPaint /\ Goto(c, "write")
    /\ UNCHANGED <<errand, key, connections, members, alive, mutex, doomed, held,
                   updates, guiVars, itemVars, sharedVars, races>>

(* associateSHM() on a client's thread: the image is replaced ...          *)
Write(c) ==
    /\ At(c, "write") /\ Goto(c, "post") /\ Uses(Dead(held[c]))
    /\ image' = IF errand[c] = "cut" THEN None ELSE c
    /\ UNCHANGED <<errand, key, connections, members, alive, mutex, doomed, held,
                   updates, guiVars, itemVars, framebuffers, queue, races>>

(* ... and the GUI thread told to check that the key is still associated;  *)
(* or it is told to update.  The key is read in the same step: it changes  *)
(* before the call is queued only if the controller moves.                 *)
Post(c) ==
    /\ At(c, "post") /\ Done(c) /\ Uses(Dead(held[c]))
    /\ queue' = Append(queue, IF errand[c] = "update" THEN Update ELSE Check(fbid))
    /\ UNCHANGED <<key, connections, members, alive, doomed, updates,
                   guiVars, itemVars, framebuffers, image, races>>

Visit(c) == Find(c) \/ Fetch(c) \/ Test(c) \/ Await(c) \/ Write(c) \/ Post(c)

-----------------------------------------------------------------------------
(* The GUI thread: never while the scene graph paints.                     *)
On(label) == ~misused /\ gui = label
Idle == On("idle") /\ brush = "idle"
(* Without its entry, whichever it is (the map without a key it has not).  *)
Unregistered == [k \in Keys |-> IF k = fbid THEN Absent ELSE framebuffers[k]]

(* A new item is to be painted; isMidPaint is not initialised.             *)
Create ==
    /\ Idle /\ ctl = Null /\ born < MaxControllers
    /\ ctl' = born + 1 /\ born' = born + 1
    /\ midPaint' \in BOOLEAN /\ dirty' = TRUE
    /\ UNCHANGED <<clientVars, fbid, gui, found, active, brush, sharedVars,
                   races, misused>>

(* setFramebufferID(), also to -1 (None): the old key is unregistered, not *)
(* dissociated.  No thread reads both the entry and _framebufferID, hence  *)
(* one step.  (The same key again is refused like any that has an entry.)  *)
(* Bound: one change of key.                                               *)
SetFramebufferID(k) ==
    /\ Idle /\ ctl # Null /\ fbid # k /\ "moved" \notin races
    /\ framebuffers' = Unregistered
    /\ fbid' = k /\ Race("moved", fbid # None)
    /\ gui' = IF k = None THEN "idle" ELSE "register"
    /\ UNCHANGED <<clientVars, ctl, born, found, itemVars, image, queue, misused>>

(* registerController(): is the key taken, if only by a null QPointer?     *)
Register ==
    /\ On("register")
    /\ gui' = IF framebuffers[fbid] # Absent THEN "idle" ELSE "emplace"
    /\ UNCHANGED <<clientVars, ctl, born, fbid, found, itemVars, sharedVars,
                   races, misused>>

(* std::map::emplace() leaves an entry alone that has come meanwhile.      *)
Emplace ==
    /\ On("emplace") /\ gui' = "look"
    /\ framebuffers' = [framebuffers EXCEPT ![fbid] = IF @ = Absent THEN ctl ELSE @]
    /\ UNCHANGED <<clientVars, ctl, born, fbid, found, itemVars, image, queue,
                   races, misused>>

(* tryToMatchUp() on the GUI thread: connections.find().  Its own find()   *)
(* of the entry just made, which only this thread erases, succeeds.        *)
Look ==
    /\ On("look")
    /\ gui' = IF connections[fbid] = None THEN "idle" ELSE "take"
    /\ UNCHANGED <<clientVars, ctl, born, fbid, found, itemVars, sharedVars,
                   races, misused>>

(* connections[]: a backend that has gone since is inserted as NULL, the   *)
(* dereference of which ends the process before anything else matters.     *)
Take ==
    /\ On("take")
    /\ found' = connections[fbid]
    /\ gui' = IF found' = None THEN "idle" ELSE "deref"
    /\ Uses(found' = None) /\ Race("late", found' = None)
    /\ UNCHANGED <<clientVars, ctl, born, fbid, itemVars, sharedVars>>

Late == connections[fbid] # found
(* connection->shm, and the null QPointer that emplace() may have left     *)
(* alone: no other thread changes an entry that is there.                  *)
Deref ==
    /\ On("deref") /\ Uses(found \notin alive) /\ Race("late", Late)
    /\ IF IsNull(framebuffers[fbid]) THEN gui' = "idle" /\ found' = None
                                     ELSE gui' = "attach" /\ UNCHANGED found
    /\ UNCHANGED <<clientVars, ctl, born, fbid, itemVars, sharedVars>>

(* connection->image and associateSHM().  Nobody else reads the image or   *)
(* the queue before this handler is over, hence one step for both.         *)
Attach ==
    /\ On("attach") /\ gui' = "idle" /\ found' = None
    /\ Uses(found \notin alive) /\ Race("late", Late)
    /\ image' = found /\ queue' = Append(queue, Check(fbid))
    /\ UNCHANGED <<clientVars, ctl, born, fbid, itemVars, framebuffers>>

(* isControllerAssociated()                                                *)
BackendOf(k) == IF k \in Keys THEN connections[k] ELSE None

(* The call queued by associateSHM(): the look-up, ...                     *)
HandleCheck ==
    /\ Idle /\ queue # <<>> /\ Head(queue).kind = "check"
    /\ queue' = Tail(queue)
    /\ gui' = IF BackendOf(Head(queue).key) = None THEN "erase" ELSE "read"
    /\ UNCHANGED <<clientVars, ctl, born, fbid, found, itemVars, framebuffers,
                   image, races, misused>>

(* ... then image = nullptr, or else a look at the image, ...              *)
Erase ==
    /\ On("erase") /\ gui' = "inactivate"
    /\ image' = None
    /\ Race("erased", image # None /\ image = BackendOf(fbid))
    /\ UNCHANGED <<clientVars, ctl, born, fbid, found, itemVars, framebuffers,
                   queue, misused>>
ReadImage ==
    /\ On("read")
    /\ gui' = IF image = None THEN "inactivate" ELSE "activate"
    /\ UNCHANGED <<clientVars, ctl, born, fbid, found, itemVars, sharedVars,
                   races, misused>>

(* ... and setActive().  Of what it writes others read only isMidPaint.    *)
SetActive ==
    /\ On("activate") \/ On("inactivate")
    /\ gui' = "idle"
    /\ active' = (gui = "activate")
    /\ midPaint' = TRUE /\ dirty' = TRUE
    /\ UNCHANGED <<clientVars, ctl, born, fbid, found, brush, sharedVars, races,
                   misused>>

\* Mutated: isMidPaint without update().
MarkedUpdateUnscheduled ==
    /\ Idle /\ queue # <<>> /\ Head(queue).kind = "update"
    /\ queue' = Tail(queue)
    /\ midPaint' = TRUE
    /\ UNCHANGED <<clientVars, guiVars, framebuffers, image, active, dirty, brush,
                   races, misused>>
(* markedUpdate()                                                          *)
MarkedUpdate ==
    /\ Idle /\ queue # <<>> /\ Head(queue).kind = "update"
    /\ queue' = Tail(queue)
    /\ midPaint' = TRUE /\ dirty' = TRUE
    /\ UNCHANGED <<clientVars, guiVars, framebuffers, image, active, brush,
                   races, misused>>

(* A pen, a finger or a key: forwardUserInput() takes the mutex.           *)
Input ==
    /\ Idle /\ fbid # None /\ gui' = "input"
    /\ UNCHANGED <<clientVars, ctl, born, fbid, found, itemVars, sharedVars,
                   races, misused>>
ForwardUserInput ==
    /\ On("input") /\ mutex = None /\ gui' = "idle"
    /\ UNCHANGED <<clientVars, ctl, born, fbid, found, itemVars, sharedVars,
                   races, misused>>

(* The item goes: ~FBController() unregisters it ...                       *)
Destroy ==
    /\ Idle /\ ctl # Null /\ gui' = "dying"
    /\ framebuffers' = Unregistered
    /\ Race("ended", \E c \in Clients :
                 pc[c] \in {"await", "write", "post"} /\ held[c] = ctl)
    /\ UNCHANGED <<clientVars, ctl, born, fbid, found, itemVars, image, queue,
                   misused>>
(* ... and ~QObject() clears every QPointer and drops what is queued.      *)
Vanish ==
    /\ On("dying") /\ gui' = "idle"
    /\ ctl' = Null /\ fbid' = None /\ queue' = <<>>
    /\ image' = None /\ active' = FALSE /\ midPaint' = FALSE /\ dirty' = FALSE
    /\ UNCHANGED <<clientVars, born, found, brush, framebuffers, races, misused>>

-----------------------------------------------------------------------------
(* The scene graph, with the GUI thread held between two handlers: paint() *)
(* sets isMidPaint, tests the image and _active, reads the image once more *)
(* and draws it, and resets isMidPaint.                                    *)

PaintBegin ==
    /\ Idle /\ ctl # Null /\ dirty
    /\ brush' = "begun"
    /\ midPaint' = TRUE /\ dirty' = FALSE
    /\ Race("painted", \E c \in Clients : pc[c] = "write" /\ errand[c] = "cut")
    /\ UNCHANGED <<clientVars, guiVars, active, sharedVars, misused>>

PaintTest ==
    /\ ~misused /\ brush = "begun"
    /\ brush' = IF active /\ image # None THEN "seen" ELSE None
    /\ UNCHANGED <<clientVars, guiVars, active, midPaint, dirty, sharedVars,
                   races, misused>>

PaintImage ==
    /\ ~misused /\ brush = "seen" /\ brush' = image
    /\ Uses(image = None)
    /\ UNCHANGED <<clientVars, guiVars, active, midPaint, dirty, sharedVars, races>>

\* Mutated: isMidPaint stays set.
PaintEndStays ==
    /\ ~misused /\ brush \in Clients \cup {None} /\ brush' = "idle"
    /\ Uses(brush \notin alive \cup {None})
    /\ UNCHANGED <<clientVars, guiVars, active, midPaint, dirty, sharedVars, races>>
PaintEnd ==
    /\ ~misused /\ brush \in Clients \cup {None} /\ brush' = "idle"
    /\ Uses(brush \notin alive \cup {None})
    /\ midPaint' = FALSE
    /\ UNCHANGED <<clientVars, guiVars, active, dirty, sharedVars, races>>

-----------------------------------------------------------------------------
Client(c) == \/ \E k \in Keys : Join(c, k) \/ Make(c, k)
             \/ SendUpdate(c) \/ End(c) \/ Close(c) \/ Visit(c) \/ Free(c)
Handle == \/ Register \/ Emplace \/ Look \/ Take \/ Deref \/ Attach
          \/ HandleCheck \/ Erase \/ ReadImage \/ SetActive \/ MarkedUpdate
          \/ ForwardUserInput \/ Vanish
Paint == PaintBegin \/ PaintTest \/ PaintImage \/ PaintEnd

Next == \/ \E c \in Clients : Client(c)
        \/ \E k \in Keys \cup {None} : SetFramebufferID(k)
        \/ Create \/ Destroy \/ Input
        \/ Handle \/ Paint

Spec == Init /\ [][Next]_vars

(* Threads run, the GUI thread ends its handlers and takes what is queued, *)
(* and what is scheduled is painted.  Who gets the mutex is not promised.  *)
Fairness ==
    /\ \A c \in Clients : WF_vars(Visit(c) \/ Free(c))
    /\ WF_vars(Handle) /\ WF_vars(Paint)
FairSpec == Spec /\ Fairness

-----------------------------------------------------------------------------
Locked(c) == pc[c] = "free" \/ (pc[c] \in Visiting /\ errand[c] # "update")
Closing(c) == pc[c] = "free" \/ (pc[c] \in Visiting /\ errand[c] = "cut")
Handlers == {"idle", "register", "emplace", "look", "take", "deref", "attach",
             "erase", "read", "activate", "inactivate", "input", "dying"}
Races == {"moved", "orphaned", "late", "erased", "painted", "ended"}

TypeOK ==
    /\ pc \in [Clients -> {"off", "up", "close", "free", "gone"} \cup Visiting]
    /\ errand \in [Clients -> {"none", "bind", "update", "cut"}]
    /\ \A c \in Clients : Locked(c) => mutex = c
    /\ key \in [Clients -> Keys \cup {None}]
    /\ connections \in [Keys -> Clients \cup {None}]
    /\ members \in [Clients -> SUBSET Clients] /\ alive \subseteq Clients
    /\ mutex \in Clients \cup {None} /\ doomed \in Clients \cup {None}
    /\ held \in [Clients -> 0 .. MaxControllers] /\ updates \in 0 .. MaxUpdates
    /\ framebuffers \in [Keys -> {Absent} \cup 0 .. MaxControllers]
    /\ ctl \in 0 .. MaxControllers /\ born \in 0 .. MaxControllers
    /\ fbid \in Keys \cup {None}
    /\ queue \in Seq([kind : {"check", "update"}, key : Keys \cup {None}])
    /\ gui \in Handlers /\ found \in Clients \cup {None}
    /\ image \in Clients \cup {None}
    /\ brush \in Clients \cup {None, "idle", "begun", "seen"}
    /\ {active, midPaint, dirty, misused} \subseteq BOOLEAN
    /\ races \subseteq Races

(* A backend lives as long as a client that was accepted uses it, and goes *)
(* with the last, whatever clients join, are refused or leave meanwhile.   *)
Accepted(c) == pc[c] = "up" \/ (pc[c] \in Visiting /\ errand[c] # "cut")
BackendLives ==
    /\ \A c \in Clients : Accepted(c) =>
         connections[key[c]] \in alive /\ c \in members[connections[key[c]]]
    /\ \A b \in alive : members[b] # {} \/ b = doomed

(* Whichever comes second, the client or the controller, the two find each *)
(* other (tryToMatchUp, isControllerAssociated).  Once nobody is on the    *)
(* way, a controller that has been given a key is registered for it,       *)
(* unless a client's operator[] has put a null QPointer in its place; and  *)
(* one that is registered shows the backend of its key, if there is one,   *)
(* and is active exactly then, unless a controller has changed its key, or *)
(* a check has erased a backend that came after it looked.  A backend that *)
(* is attached late, without the mutex, is taken away again by the check.  *)
AtRest == ~misused /\ gui = "idle" /\ queue = <<>> /\ mutex = None
MatchedUp ==
    AtRest /\ fbid # None =>
        /\ framebuffers[fbid] = ctl \/ "orphaned" \in races
        /\ framebuffers[fbid] = ctl /\ races \cap {"moved", "erased"} = {} =>
             image = connections[fbid] /\ active = (image # None)

(* A dead image is painted, or a dead controller or backend touched, only  *)
(* by one of these races: the controller has changed its key and kept the  *)
(* image; the GUI thread has gone on with a backend that had gone; a paint *)
(* has begun between the check of isMidPaint and the dissociation; or the  *)
(* controller has ended between a check that it is not null and its use.   *)
(* In every other order the wait for isMidPaint is enough ("Delay          *)
(* destruction of the backend to after the (potential) object had          *)
(* dissotiated").  That a key is orphaned or an image erased harms nobody. *)
DeadOnlyByRace ==
    misused \/ brush \notin alive \cup {"idle", "begun", "seen", None} =>
        races \cap {"moved", "late", "painted", "ended"} # {}

(* Everyone waiting on everyone: the thread that has the mutex can go on   *)
(* by itself, or waits for a paint that is under way or that the GUI       *)
(* thread will let happen, or for an end of the controller that has begun, *)
(* in whatever order isMidPaint is set (not initialised, or before a       *)
(* paint), the controller ends and another comes.  The exception is a GUI  *)
(* thread that waits for the same mutex in forwardUserInput().             *)
Waiting(c) == pc[c] \in {"test", "await"} /\ errand[c] = "cut"
HolderMoves == Locked(mutex) /\ (Waiting(mutex) => IsNull(held[mutex]) \/ ~midPaint)
PaintComes == brush # "idle" \/ (ctl # Null /\ dirty /\ gui # "input")
OneDeadlock ==
    mutex # None /\ ~HolderMoves /\ ~PaintComes /\ gui # "dying" => gui = "input"

(* A client that ends is let go, and the mutex with it, unless its thread  *)
(* waits for a paint that the GUI thread holds up, itself waiting for the  *)
(* mutex in forwardUserInput(): the one deadlock of this protocol.         *)
LetGo == \A c \in Clients :
    <>[]Closing(c) => <>[](misused \/ (Waiting(c) /\ midPaint /\ gui = "input"))
=============================================================================
