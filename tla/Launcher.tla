------------------------------ MODULE Launcher ------------------------------
(***************************************************************************)
(* The launcher of the extension (launcher.cpp) and the life of its server *)
(* (server.cpp: start, stop, the connection), driven by the pages of the   *)
(* overlay.  All of it runs on the GUI thread of xochitl, one handler at a *)
(* time; vnsee is another process, whose end and whose connection reach    *)
(* the event loop as separate events, in any order.                        *)
(*                                                                         *)
(* What the user sees follows from the status line alone: the page is full *)
(* screen exactly while it reads "Receiving frames" (session.qml).         *)
(*                                                                         *)
(* Of the frames only the first of a client matters here (seq 1); what     *)
(* follows it is in Cast.                                                  *)
(***************************************************************************)
EXTENDS Integers

CONSTANT MaxRuns        \* bound: how often vnsee is spawned
ASSUME RunsAssumption == MaxRuns \in Nat

None == 0
Run == 1 .. MaxRuns
Format(gray) == IF gray THEN "gray" ELSE "color"

VARIABLES
    page,       \* the overlay: closed, the config page or the session page
    mproc,      \* m_proc: the run whose QProcess the launcher holds
    run,        \* the vnsee of each run: not spawned, running or gone
    server,     \* none, or the format of its shared memory
    link,       \* m_socket: the run served
    peer,       \* each run's connection, as the server knows it
    first,      \* each run's first frame: unsent, sent or read
    status,     \* the status line
    active,     \* the waveform hook rewrites the updates of the panel
    spared,     \* history: runs that outlived stopSession()
    down        \* xochitl has crashed

serverVars == <<server, link, peer, active>>
vars == <<page, mproc, run, serverVars, first, status, spared, down>>

Init ==
    /\ page = "closed" /\ mproc = None
    /\ run = [r \in Run |-> "none"]
    /\ server = "none" /\ link = None
    /\ peer = [r \in Run |-> "none"]
    /\ first = [r \in Run |-> "unsent"]
    /\ status = "empty" /\ active = FALSE
    /\ spared = {} /\ down = FALSE

-----------------------------------------------------------------------------
(* The overlay.                                                            *)

OpenOverlay ==
    /\ ~down /\ page = "closed" /\ page' = "config"
    /\ UNCHANGED <<mproc, run, serverVars, first, status, spared, down>>

CloseOverlay ==
    /\ ~down /\ page = "config" /\ page' = "closed"
    /\ UNCHANGED <<mproc, run, serverVars, first, status, spared, down>>

-----------------------------------------------------------------------------
(* startSession(), from the config page, which gives way to the session    *)
(* page whatever comes of it.                                              *)

\* Mutated: a vnsee that still runs is not asked for.
IdleAnyway == TRUE
(* QProcess is not running, as far as the event loop has heard.            *)
Idle == mproc = None

ConnectTapped ==
    /\ ~down /\ page = "config" /\ page' = "session"
    /\ UNCHANGED first

Refuse ==
    /\ ConnectTapped /\ ~Idle
    /\ UNCHANGED <<mproc, run, serverVars, status, spared, down>>

(* stop(): the connection served is closed, which its handler reports as   *)
(* any other end, and those not yet accepted are lost.                     *)
StopServer ==
    /\ link' = None
    /\ active' = (active /\ link = None)
    /\ peer' = [r \in Run |-> IF peer[r] \in {"waiting", "served"} THEN "over"
                              ELSE peer[r]]

(* ensureServerStarted(): a server of the same format is kept, another is  *)
(* stopped first; the new one may fail to allocate or to listen.           *)
OpenServer(gray, started) ==
    IF server = Format(gray)
    THEN started /\ UNCHANGED serverVars
    ELSE StopServer /\ server' = IF started THEN Format(gray) ELSE "none"

(* stop() calls m_socket->deleteLater() after the handler of disconnected, *)
(* called within disconnectFromServer(), has cleared m_socket: undefined   *)
(* behaviour that may go unnoticed (OpenServer) or end xochitl.            *)
NullCall(gray) ==
    /\ ConnectTapped /\ Idle
    /\ server \notin {"none", Format(gray)} /\ link # None
    /\ down' = TRUE
    /\ UNCHANGED <<mproc, run, serverVars, status, spared>>

ServerFails(gray) ==
    /\ ConnectTapped /\ Idle
    /\ OpenServer(gray, FALSE)
    /\ status' = "unserved"
    /\ UNCHANGED <<mproc, run, spared, down>>

SpawnFails(gray) ==
    /\ ConnectTapped /\ Idle
    /\ OpenServer(gray, TRUE)
    /\ status' = "unspawned"
    /\ UNCHANGED <<mproc, run, spared, down>>

Spawn(gray, r) ==
    /\ ConnectTapped /\ Idle
    /\ run[r] = "none" /\ \A q \in Run : q < r => run[q] # "none"
    /\ OpenServer(gray, TRUE)
    /\ run' = [run EXCEPT ![r] = "running"]
    /\ mproc' = r
    /\ status' = "spawned"
    /\ UNCHANGED <<spared, down>>

StartSession == \E gray \in BOOLEAN :
    \/ NullCall(gray) \/ ServerFails(gray) \/ SpawnFails(gray)
    \/ \E r \in Run : Spawn(gray, r)

-----------------------------------------------------------------------------
(* "Disconnect": stopSession(), then the overlay closes.                   *)

DisconnectTapped ==
    /\ ~down /\ page = "session" /\ page' = "closed"
    /\ status' = "disconnected"
    /\ UNCHANGED <<serverVars, first, down>>

NothingToStop ==
    /\ DisconnectTapped /\ mproc = None
    /\ UNCHANGED <<mproc, run, spared>>

\* Mutated: m_proc is let go without waiting for the process to end.
KillUnwaited ==
    /\ DisconnectTapped /\ mproc # None
    /\ mproc' = None
    /\ UNCHANGED <<run, spared>>
(* terminate() or kill() ends it, and waitForFinished() runs the handler   *)
(* of finished, which clears m_proc.                                       *)
Kill ==
    /\ DisconnectTapped /\ mproc # None
    /\ run' = [run EXCEPT ![mproc] = "gone"]
    /\ mproc' = None
    /\ UNCHANGED spared

(* Both waits of 1500 ms run out: the launcher still holds it.             *)
KillTimesOut ==
    /\ DisconnectTapped /\ mproc # None
    /\ run[mproc] = "running"
    /\ spared' = spared \cup {mproc}
    /\ UNCHANGED <<mproc, run>>

StopSession == NothingToStop \/ Kill \/ KillTimesOut

-----------------------------------------------------------------------------
(* vnsee.                                                                  *)

Exit(r) ==
    /\ ~down /\ run[r] = "running"
    /\ run' = [run EXCEPT ![r] = "gone"]
    /\ UNCHANGED <<page, mproc, serverVars, first, status, spared, down>>

ConnectsTo(r) ==
    /\ ~down /\ run[r] = "running" /\ peer[r] = "none" /\ server # "none"
    /\ peer' = [peer EXCEPT ![r] = "waiting"]
    /\ UNCHANGED <<page, mproc, run, server, link, active, first, status,
                   spared, down>>

SendFirst(r) ==
    /\ ~down /\ run[r] = "running" /\ peer[r] = "served" /\ first[r] = "unsent"
    /\ first' = [first EXCEPT ![r] = "sent"]
    /\ UNCHANGED <<page, mproc, run, serverVars, status, spared, down>>

-----------------------------------------------------------------------------
(* The event loop.                                                         *)

(* The handler of finished.                                                *)
Finished ==
    /\ ~down /\ mproc # None /\ run[mproc] = "gone"
    /\ mproc' = None
    /\ status' = "exited"
    /\ UNCHANGED <<page, run, serverVars, first, spared, down>>

(* onNewConnection(), in the order they came, and the handler of           *)
(* clientConnected.                                                        *)
Accept ==
    /\ ~down
    /\ \E r \in Run :
         /\ peer[r] = "waiting" /\ \A q \in Run : q < r => peer[q] # "waiting"
         /\ IF link = None
            THEN /\ link' = r /\ peer' = [peer EXCEPT ![r] = "served"]
                 /\ status' = "connected"
            ELSE /\ peer' = [peer EXCEPT ![r] = "over"]
                 /\ UNCHANGED <<link, status>>
    /\ UNCHANGED <<page, mproc, run, server, active, first, spared, down>>

\* Mutated: only seq 0 counts as the first frame, and vnsee counts from 1.
ReadFirstZero ==
    /\ ~down /\ link # None /\ first[link] = "sent"
    /\ first' = [first EXCEPT ![link] = "read"]
    /\ UNCHANGED <<page, mproc, run, serverVars, status, spared, down>>
(* The handler of frameReady for the first frame.                          *)
ReadFirst ==
    /\ ~down /\ link # None /\ first[link] = "sent"
    /\ first' = [first EXCEPT ![link] = "read"]
    /\ status' = "receiving"
    /\ active' = TRUE
    /\ UNCHANGED <<page, mproc, run, server, link, peer, spared, down>>

\* Mutated: m_socket is not cleared.
DroppedKeepsLink ==
    /\ ~down /\ link # None /\ run[link] = "gone" /\ first[link] # "sent"
    /\ peer' = [peer EXCEPT ![link] = "over"]
    /\ status' = "lost"
    /\ active' = FALSE
    /\ UNCHANGED <<page, mproc, run, server, link, first, spared, down>>
\* Mutated: the hook is left on.
DroppedStillActive ==
    /\ ~down /\ link # None /\ run[link] = "gone" /\ first[link] # "sent"
    /\ link' = None
    /\ peer' = [peer EXCEPT ![link] = "over"]
    /\ status' = "lost"
    /\ UNCHANGED <<page, mproc, run, server, active, first, spared, down>>
\* Mutated: the handler of finished is trusted to set the status.
DroppedQuietly ==
    /\ ~down /\ link # None /\ run[link] = "gone" /\ first[link] # "sent"
    /\ link' = None
    /\ peer' = [peer EXCEPT ![link] = "over"]
    /\ active' = FALSE
    /\ UNCHANGED <<page, mproc, run, server, first, status, spared, down>>
(* onSocketDisconnected(), behind what was still to be read, and the       *)
(* handler of clientDisconnected.                                          *)
Dropped ==
    /\ ~down /\ link # None /\ run[link] = "gone" /\ first[link] # "sent"
    /\ link' = None
    /\ peer' = [peer EXCEPT ![link] = "over"]
    /\ status' = "lost"
    /\ active' = FALSE
    /\ UNCHANGED <<page, mproc, run, server, first, spared, down>>

EventLoop == Finished \/ Accept \/ ReadFirst \/ Dropped

Next ==
    \/ OpenOverlay \/ CloseOverlay
    \/ Refuse \/ StartSession \/ StopSession
    \/ \E r \in Run : Exit(r) \/ ConnectsTo(r) \/ SendFirst(r)
    \/ EventLoop

Spec == Init /\ [][Next]_vars

(* The event loop of xochitl delivers what has happened.                   *)
Fairness == /\ WF_vars(Finished) /\ WF_vars(Accept)
            /\ WF_vars(ReadFirst) /\ WF_vars(Dropped)
FairSpec == Spec /\ Fairness

-----------------------------------------------------------------------------
TypeOK ==
    /\ page \in {"closed", "config", "session"}
    /\ mproc \in {None} \cup Run
    /\ run \in [Run -> {"none", "running", "gone"}]
    /\ server \in {"none", "gray", "color"}
    /\ peer \in [Run -> {"none", "waiting", "served", "over"}]
    /\ link \in {None} \cup {r \in Run : peer[r] = "served"}
    /\ first \in [Run -> {"unsent", "sent", "read"}]
    /\ status \in {"empty", "unserved", "unspawned", "spawned",
                   "connected", "receiving", "exited", "lost", "disconnected"}
    /\ active \in BOOLEAN /\ down \in BOOLEAN
    /\ spared \subseteq Run

(* The page is full screen and the hook rewrites xochitl's own updates     *)
(* only while a connection is served: a first frame read late, behind      *)
(* stopSession() or behind the end of vnsee, does not leave them so (the   *)
(* handlers of frameReady, clientDisconnected and finished).               *)
OnlyWhileServed == status = "receiving" \/ active => link # None

(* At most one vnsee runs, also when one could not be killed, and it is    *)
(* the one the launcher holds (startSession, stopSession).                 *)
OneVnsee == \A r \in Run : run[r] = "running" => mproc = r

(* A cast whose first frame has come is full screen, whatever late event   *)
(* of an earlier run is still delivered, unless it should have been        *)
(* stopped and could not be.                                               *)
CastIsFullscreen ==
    link # None /\ first[link] = "read" /\ run[link] = "running"
    /\ link \notin spared => status = "receiving"

(* "The vnsee process should already have been killed by stopSession()     *)
(* before we get here" (ensureServerStarted): a server is replaced, and    *)
(* xochitl brought down by it, only when no vnsee runs.                    *)
ReplacedOnlyWhenDead ==
    [][(server # "none" /\ server' # server) \/ (down' /\ ~down)
        => \A r \in Run : run[r] # "running"]_vars

(* A page that is full screen for a vnsee that has ended does not stay so. *)
FullscreenEnds ==
    (status = "receiving" /\ link # None /\ run[link] = "gone")
        ~> (status # "receiving" \/ down)
=============================================================================
