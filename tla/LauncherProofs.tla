--------------------------- MODULE LauncherProofs ---------------------------
(* Theorems about Launcher, for any number of runs of vnsee.               *)
EXTENDS Launcher, TLAPS

(* The server knows nothing of a vnsee that has not been spawned, and has  *)
(* served the one a frame comes from.                                      *)
Fresh == \A r \in Run : run[r] = "none" => peer[r] = "none"
FirstIsServed == \A r \in Run : first[r] # "unsent" => peer[r] \in {"served", "over"}

Inv == TypeOK /\ Fresh /\ FirstIsServed /\ OnlyWhileServed /\ OneVnsee /\ CastIsFullscreen

LEMMA NoneIsNoRun == None \notin Run
  BY RunsAssumption DEF None, Run

LEMMA InitInv == Init => Inv
  BY NoneIsNoRun
  DEF Init, Inv, TypeOK, Fresh, FirstIsServed, OnlyWhileServed, OneVnsee,
      CastIsFullscreen, serverVars

(* While the launcher holds no process, none runs.                         *)
LEMMA IdleIsAlone ==
  ASSUME OneVnsee, Idle PROVE \A r \in Run : run[r] # "running"
  BY NoneIsNoRun DEF OneVnsee, Idle

(* What becomes of the server and its connection when a session starts.    *)
LEMMA ServerOpened ==
  ASSUME TypeOK, Fresh, FirstIsServed, OnlyWhileServed, first' = first,
         NEW gray \in BOOLEAN, NEW started \in BOOLEAN, OpenServer(gray, started)
  PROVE  /\ server' \in {"none", "gray", "color"}
         /\ peer' \in [Run -> {"none", "waiting", "served", "over"}]
         /\ link' \in {None} \cup {r \in Run : peer'[r] = "served"}
         /\ active' \in BOOLEAN /\ (active' => link' # None)
         /\ link' \in {None, link}
         /\ \A r \in Run : peer[r] = "none" => peer'[r] = "none"
         /\ FirstIsServed'
  <1>1. CASE server = Format(gray)
    <2>1. UNCHANGED serverVars
      BY <1>1 DEF OpenServer
    <2> QED
      BY <2>1 DEF serverVars, TypeOK, FirstIsServed, OnlyWhileServed
  <1>2. CASE server # Format(gray)
    <2>1. /\ server' = IF started THEN Format(gray) ELSE "none"
          /\ link' = None
          /\ active' = (active /\ link = None)
          /\ peer' = [r \in Run |-> IF peer[r] \in {"waiting", "served"}
                                    THEN "over" ELSE peer[r]]
      BY <1>2 DEF OpenServer, StopServer
    <2>2. Format(gray) \in {"gray", "color"}
      BY DEF Format
    <2>3. active' = FALSE
      BY <2>1 DEF OnlyWhileServed, TypeOK
    <2>4. FirstIsServed'
      BY <2>1 DEF FirstIsServed, TypeOK
    <2> QED
      BY <2>1, <2>2, <2>3, <2>4 DEF TypeOK
  <1> QED
    BY <1>1, <1>2

(* startSession() with a process spawned or not.                           *)
LEMMA StartStep == Inv /\ StartSession => Inv'
  <1> SUFFICES ASSUME Inv, NEW gray \in BOOLEAN,
                      \/ NullCall(gray) \/ ServerFails(gray) \/ SpawnFails(gray)
                      \/ \E r \in Run : Spawn(gray, r)
               PROVE  Inv'
    BY DEF StartSession
  <1> USE DEF Inv
  <1>0. (\A r \in Run : run[r] # "running") /\ page' = "session" /\ first' = first
    BY IdleIsAlone DEF NullCall, ServerFails, SpawnFails, Spawn, ConnectTapped
  <1>1. CASE NullCall(gray)
    BY <1>1 DEF NullCall, ConnectTapped, serverVars, TypeOK, Fresh,
         FirstIsServed, OnlyWhileServed, OneVnsee, CastIsFullscreen
  <1>2. ASSUME NEW started \in BOOLEAN, OpenServer(gray, started),
               UNCHANGED <<mproc, run, spared, down>>,
               status' \in {"unserved", "unspawned"}
        PROVE  Inv'
    <2>1. TypeOK'
      BY <1>0, <1>2, ServerOpened DEF TypeOK
    <2>2. Fresh' /\ FirstIsServed'
      BY <1>0, <1>2, ServerOpened DEF Fresh
    <2>3. OnlyWhileServed'
      BY <1>0, <1>2, ServerOpened DEF OnlyWhileServed
    <2>4. OneVnsee' /\ CastIsFullscreen'
      BY <1>0, <1>2, ServerOpened, NoneIsNoRun, <2>1 DEF OneVnsee, CastIsFullscreen, TypeOK
    <2> QED
      BY <2>1, <2>2, <2>3, <2>4
  <1>3. ASSUME NEW r \in Run, Spawn(gray, r) PROVE Inv'
    <2>1. /\ OpenServer(gray, TRUE)
          /\ run[r] = "none" /\ run' = [run EXCEPT ![r] = "running"]
          /\ mproc' = r /\ status' = "spawned" /\ UNCHANGED <<spared, down>>
      BY <1>3 DEF Spawn
    <2>2. TypeOK'
      BY <1>0, <2>1, ServerOpened DEF TypeOK
    <2>3. Fresh' /\ FirstIsServed'
      BY <1>0, <2>1, ServerOpened DEF Fresh, TypeOK
    <2>4. OnlyWhileServed'
      BY <1>0, <2>1, ServerOpened DEF OnlyWhileServed
    <2>5. OneVnsee'
      BY <1>0, <2>1 DEF OneVnsee, TypeOK
    <2>6. link' # r
      BY <2>1, <1>0, ServerOpened, NoneIsNoRun DEF Fresh, TypeOK
    <2>7. CastIsFullscreen'
      BY <1>0, <2>1, <2>2, <2>6, NoneIsNoRun DEF CastIsFullscreen, TypeOK
    <2> QED
      BY <2>2, <2>3, <2>4, <2>5, <2>7
  <1> QED
    BY <1>1, <1>2, <1>3 DEF ServerFails, SpawnFails

LEMMA StopStep == Inv /\ StopSession => Inv'
  <1> SUFFICES ASSUME Inv, StopSession PROVE Inv'
    OBVIOUS
  <1> USE DEF Inv
  <1>1. /\ UNCHANGED <<serverVars, first, down>>
        /\ page' = "closed" /\ status' = "disconnected"
    BY DEF StopSession, NothingToStop, Kill, KillTimesOut, DisconnectTapped
  <1>2. /\ run' \in [Run -> {"none", "running", "gone"}]
        /\ mproc' \in {None} \cup Run /\ spared' \subseteq Run
        /\ \A r \in Run : run'[r] = "none" => run[r] = "none"
        /\ \A r \in Run : run'[r] = "running" =>
             run[r] = "running" /\ mproc = r /\ mproc' = r /\ r \in spared'
    BY NoneIsNoRun
    DEF StopSession, NothingToStop, Kill, KillTimesOut, TypeOK, OneVnsee
  <1>3. TypeOK'
    BY <1>1, <1>2 DEF TypeOK, serverVars
  <1>4. Fresh' /\ FirstIsServed'
    BY <1>1, <1>2 DEF Fresh, FirstIsServed, serverVars
  <1>5. OnlyWhileServed'
    BY <1>1 DEF OnlyWhileServed, serverVars
  <1>6. OneVnsee' /\ CastIsFullscreen'
    BY <1>1, <1>2, NoneIsNoRun DEF OneVnsee, CastIsFullscreen, TypeOK, serverVars
  <1> QED
    BY <1>3, <1>4, <1>5, <1>6

(* vnsee and the event loop.                                               *)
LEMMA VnseeStep ==
  ASSUME Inv, NEW r \in Run, Exit(r) \/ ConnectsTo(r) \/ SendFirst(r) PROVE Inv'
  <1> USE NoneIsNoRun
      DEF Inv, TypeOK, Fresh, FirstIsServed, OnlyWhileServed, OneVnsee,
          CastIsFullscreen, serverVars
  <1>1. CASE Exit(r)
    BY <1>1 DEF Exit
  <1>2. CASE ConnectsTo(r)
    BY <1>2 DEF ConnectsTo
  <1>3. CASE SendFirst(r)
    BY <1>3 DEF SendFirst
  <1> QED
    BY <1>1, <1>2, <1>3

LEMMA EventLoopStep == Inv /\ EventLoop => Inv'
  <1> SUFFICES ASSUME Inv, EventLoop PROVE Inv'
    OBVIOUS
  <1> USE NoneIsNoRun
      DEF Inv, TypeOK, Fresh, FirstIsServed, OnlyWhileServed, OneVnsee,
          CastIsFullscreen, serverVars
  <1>1. CASE Finished
    BY <1>1 DEF Finished
  <1>2. CASE Accept
    <2> PICK r \in Run :
          /\ peer[r] = "waiting"
          /\ IF link = None
             THEN /\ link' = r /\ peer' = [peer EXCEPT ![r] = "served"]
                  /\ status' = "connected"
             ELSE /\ peer' = [peer EXCEPT ![r] = "over"]
                  /\ UNCHANGED <<link, status>>
      BY <1>2 DEF Accept
    <2>1. UNCHANGED <<page, mproc, run, server, active, first, spared, down>>
      BY <1>2 DEF Accept
    <2>2. CASE link = None
      BY <2>1, <2>2
    <2>3. CASE link # None
      BY <2>1, <2>3
    <2> QED
      BY <2>2, <2>3
  <1>3. CASE ReadFirst
    BY <1>3 DEF ReadFirst
  <1>4. CASE Dropped
    BY <1>4 DEF Dropped
  <1> QED
    BY <1>1, <1>2, <1>3, <1>4 DEF EventLoop

LEMMA InvStep == Inv /\ [Next]_vars => Inv'
  <1> SUFFICES ASSUME Inv, [Next]_vars PROVE Inv'
    OBVIOUS
  <1>1. CASE OpenOverlay \/ CloseOverlay \/ Refuse \/ UNCHANGED vars
    BY <1>1 DEF OpenOverlay, CloseOverlay, Refuse, ConnectTapped, Inv, TypeOK,
         Fresh, FirstIsServed, OnlyWhileServed, OneVnsee, CastIsFullscreen,
         vars, serverVars
  <1> QED
    BY <1>1, StartStep, StopStep, VnseeStep, EventLoopStep DEF Next

(* The launcher's state and its server agree at every step of startSession, *)
(* stopSession, onVnseeFinished and the events of the process and the       *)
(* connection: the invariant the theorems below read their parts from.      *)
THEOREM Invariance == Spec => []Inv
  BY InitInv, InvStep, PTL DEF Spec

-----------------------------------------------------------------------------
(* Every variable keeps its type, and m_socket is always a connection that *)
(* is being served.                                                        *)
THEOREM TypeCorrect == Spec => []TypeOK
  BY Invariance, PTL DEF Inv

(* Neither a late first frame, nor the end of vnsee, nor a server that is  *)
(* replaced leaves the page full screen or the hook on without a client    *)
(* (the handlers of frameReady, clientDisconnected and finished).          *)
THEOREM ServedOnly == Spec => []OnlyWhileServed
  BY Invariance, PTL DEF Inv

(* However often sessions are started and stopped, and even if a vnsee     *)
(* cannot be killed, two never run (startSession, stopSession).            *)
THEOREM NeverTwo == Spec => []OneVnsee
  BY Invariance, PTL DEF Inv

(* A cast that has begun is full screen, whatever events of earlier runs   *)
(* are still delivered (setStatus).                                        *)
THEOREM BeginsFullscreen == Spec => []CastIsFullscreen
  BY Invariance, PTL DEF Inv

(* The server is replaced, which may bring xochitl down, only while no     *)
(* vnsee runs (ensureServerStarted, stop).                                 *)
THEOREM ReplacedWhenDead == Spec => ReplacedOnlyWhenDead
  <1>1. ASSUME Inv, [Next]_vars,
               (server # "none" /\ server' # server) \/ (down' /\ ~down)
        PROVE  \A r \in Run : run[r] # "running"
    <2>1. CASE StartSession
      BY <1>1, <2>1, IdleIsAlone
      DEF StartSession, NullCall, ServerFails, SpawnFails, Spawn, Inv
    <2>2. CASE ~StartSession
      <3>1. UNCHANGED <<server, down>>
        BY <1>1, <2>2 DEF Next, OpenOverlay, CloseOverlay, Refuse, StopSession,
           NothingToStop, Kill, KillTimesOut, DisconnectTapped, ConnectTapped,
           Exit, ConnectsTo, SendFirst, EventLoop, Finished, Accept, ReadFirst,
           Dropped, vars, serverVars
      <3> QED
        BY <1>1, <3>1
    <2> QED
      BY <2>1, <2>2
  <1>2. Inv /\ [Next]_vars =>
          [(server # "none" /\ server' # server) \/ (down' /\ ~down)
             => \A r \in Run : run[r] # "running"]_vars
    BY <1>1
  <1> QED
    BY <1>2, Invariance, PTL DEF Spec, ReplacedOnlyWhenDead
=============================================================================
