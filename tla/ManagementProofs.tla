-------------------------- MODULE ManagementProofs --------------------------
(* Theorems about Management, for any clients and keys and any number of   *)
(* controllers and updates.                                                *)
EXTENDS Management, QueueProofs

-----------------------------------------------------------------------------
(* Types.                                                                  *)

Label == {"off", "up", "close", "free", "gone"} \cup Visiting
Errand == {"none", "bind", "update", "cut"}
Call == [kind : {"check", "update"}, key : Keys \cup {None}]
Brush == Clients \cup {None, "idle", "begun", "seen"}

(* Of the variables of the clients, and of the others.                     *)
ClientOK ==
    /\ pc \in [Clients -> Label] /\ errand \in [Clients -> Errand]
    /\ key \in [Clients -> Keys \cup {None}]
    /\ connections \in [Keys -> Clients \cup {None}]
    /\ members \in [Clients -> SUBSET Clients] /\ alive \subseteq Clients
    /\ mutex \in Clients \cup {None} /\ doomed \in Clients \cup {None}
    /\ held \in [Clients -> 0 .. MaxControllers] /\ updates \in 0 .. MaxUpdates
Exclusion == \A c \in Clients : Locked(c) => mutex = c
GuiOK ==
    /\ framebuffers \in [Keys -> {Absent} \cup 0 .. MaxControllers]
    /\ ctl \in 0 .. MaxControllers /\ born \in 0 .. MaxControllers
    /\ fbid \in Keys \cup {None} /\ queue \in Seq(Call)
    /\ gui \in Handlers /\ found \in Clients \cup {None}
    /\ image \in Clients \cup {None} /\ brush \in Brush
    /\ active \in BOOLEAN /\ midPaint \in BOOLEAN /\ dirty \in BOOLEAN
    /\ misused \in BOOLEAN /\ races \subseteq Races

LEMMA TypeParts == TypeOK <=> ClientOK /\ Exclusion /\ GuiOK
  BY DEF TypeOK, ClientOK, Exclusion, GuiOK, Label, Errand, Call, Brush

LEMMA Bounds ==
  /\ MaxControllers \in Nat /\ MaxUpdates \in Nat
  /\ None \notin Clients /\ None \notin Keys
  /\ Clients \cap {"idle", "begun", "seen"} = {}
  /\ None = "none" /\ Null = 0 /\ Absent = -1
  BY BoundsAssumption, NamesAssumption DEF None, Null, Absent

LEMMA Calls ==
  /\ \A k \in Keys \cup {None} : Check(k) \in Call
  /\ \A k : Check(k).kind = "check" /\ Check(k).key = k
  /\ Update \in Call /\ Update.kind = "update"
  BY DEF Check, Update, Call

(* A client that has begun has named a key, and so has the controller that *)
(* looks for a backend.                                                    *)
KeyKnown == \A c \in Clients : pc[c] # "off" => key[c] \in Keys
FbidKnown == gui \in {"register", "emplace", "look", "take", "deref", "attach"}
                => fbid \in Keys
(* A thread is on an errand exactly when it visits the controller.         *)
Errands == \A c \in Clients :
    /\ pc[c] \in Visiting <=> errand[c] # "none"
    /\ pc[c] = "await" => errand[c] = "cut"
    /\ pc[c] = "write" => errand[c] # "update"
Types == ClientOK /\ Exclusion /\ GuiOK /\ KeyKnown /\ FbidKnown /\ Errands

LEMMA InitTypes == Init => Types
  <1> SUFFICES ASSUME Init PROVE Types
    OBVIOUS
  <1> USE Bounds
  <1>1. /\ pc \in [Clients -> Label] /\ key \in [Clients -> Keys \cup {None}]
        /\ errand \in [Clients -> Errand]
        /\ connections \in [Keys -> Clients \cup {None}]
        /\ members \in [Clients -> SUBSET Clients]
        /\ held \in [Clients -> 0 .. MaxControllers]
        /\ framebuffers \in [Keys -> {Absent} \cup 0 .. MaxControllers]
    BY DEF Init, Label, Errand
  <1>2. ClientOK
    BY <1>1 DEF Init, ClientOK
  <1>3. Exclusion /\ KeyKnown /\ FbidKnown /\ Errands
    BY DEF Init, Exclusion, Locked, Visiting, KeyKnown, FbidKnown, Errands
  <1>4. queue \in Seq(Call)
    BY DEF Init
  <1>5. ctl \in 0 .. MaxControllers /\ born \in 0 .. MaxControllers
    BY DEF Init
  <1>7. /\ active \in BOOLEAN /\ midPaint \in BOOLEAN /\ dirty \in BOOLEAN
        /\ misused \in BOOLEAN /\ races \subseteq Races
    BY DEF Init
  <1>6. /\ fbid \in Keys \cup {None} /\ gui \in Handlers
        /\ found \in Clients \cup {None} /\ image \in Clients \cup {None}
        /\ brush \in Brush
    BY DEF Init, Handlers, Brush
  <1> QED
    BY <1>1, <1>2, <1>3, <1>4, <1>5, <1>6, <1>7 DEF Types, GuiOK

(* Queues that grow by a call or lose their first.                         *)
LEMMA QueueOK ==
  ASSUME queue \in Seq(Call)
  PROVE  /\ \A m \in Call : Append(queue, m) \in Seq(Call)
                            /\ In(Append(queue, m)) = In(queue) \cup {m}
         /\ queue # <<>> => /\ Head(queue) \in Call /\ Tail(queue) \in Seq(Call)
                            /\ In(queue) = In(Tail(queue)) \cup {Head(queue)}
  BY Appended, Tailed

(* Whatever a thread does on its errand, it goes on with it or is done.    *)
Continues(c) == /\ pc'[c] \in Visiting \ {"find"} /\ errand'[c] = errand[c]
                /\ pc'[c] = "await" => errand[c] = "cut"
                /\ pc'[c] = "write" => errand[c] # "update"
                /\ mutex' = mutex
Finishes(c) == /\ pc'[c] = (IF errand[c] = "cut" THEN "free" ELSE "up")
               /\ errand'[c] = "none"
               /\ mutex' = (IF errand[c] = "bind" THEN None ELSE mutex)

LEMMA DoneIs ==
  ASSUME Types, NEW c \in Clients, Done(c)
  PROVE  /\ Finishes(c)
         /\ \A d \in Clients : d # c => pc'[d] = pc[d] /\ errand'[d] = errand[d]
         /\ held' = [held EXCEPT ![c] = Null] /\ held' \in [Clients -> 0 .. MaxControllers]
         /\ pc' \in [Clients -> Label] /\ errand' \in [Clients -> Errand]
         /\ mutex' \in Clients \cup {None}
  BY Bounds DEF Types, ClientOK, Done, Goto, Finishes, Label, Errand

LEMMA Visited ==
  ASSUME Types, NEW c \in Clients, Visit(c)
  PROVE  /\ ~misused /\ pc[c] \in Visiting /\ errand[c] # "none"
         /\ Continues(c) \/ Finishes(c)
         /\ \A d \in Clients : d # c => pc'[d] = pc[d] /\ errand'[d] = errand[d]
                                        /\ held'[d] = held[d]
         /\ pc' \in [Clients -> Label] /\ errand' \in [Clients -> Errand]
         /\ held' \in [Clients -> 0 .. MaxControllers]
         /\ framebuffers' \in [Keys -> {Absent} \cup 0 .. MaxControllers]
         /\ mutex' \in Clients \cup {None}
         /\ image' \in Clients \cup {None} /\ queue' \in Seq(Call)
         /\ misused' \in BOOLEAN /\ races' \subseteq Races
         /\ UNCHANGED <<key, connections, members, alive, doomed, updates, guiVars,
                        itemVars>>
  <1> DEFINE Frame == /\ pc' \in [Clients -> Label] /\ errand' \in [Clients -> Errand]
                      /\ held' \in [Clients -> 0 .. MaxControllers]
                      /\ mutex' \in Clients \cup {None}
                      /\ \A d \in Clients : d # c => pc'[d] = pc[d]
                                   /\ errand'[d] = errand[d] /\ held'[d] = held[d]
             Rest == /\ framebuffers' \in [Keys -> {Absent} \cup 0 .. MaxControllers]
                     /\ image' \in Clients \cup {None} /\ queue' \in Seq(Call)
                     /\ misused' \in BOOLEAN /\ races' \subseteq Races
                     /\ UNCHANGED <<key, connections, members, alive, doomed,
                                    updates, guiVars, itemVars>>
  <1>0. /\ pc \in [Clients -> Label] /\ errand \in [Clients -> Errand]
        /\ held \in [Clients -> 0 .. MaxControllers]
        /\ mutex \in Clients \cup {None} /\ GuiOK /\ key \in [Clients -> Keys \cup {None}]
        /\ framebuffers \in [Keys -> {Absent} \cup 0 .. MaxControllers]
        /\ image \in Clients \cup {None} /\ queue \in Seq(Call)
        /\ misused \in BOOLEAN /\ races \subseteq Races
        /\ pc[c] \in Visiting <=> errand[c] # "none"
        /\ pc[c] # "off" => key[c] \in Keys
        /\ pc[c] = "await" => errand[c] = "cut"
        /\ pc[c] = "write" => errand[c] # "update"
    BY DEF Types, ClientOK, GuiOK, Errands, KeyKnown
  <1>1. pc[c] \in Visiting /\ ~misused
    BY DEF Visit, Find, Fetch, Test, Await, Write, Post, At, Visiting
  <1>2. ASSUME NEW l \in {"fetch", "test", "await", "write", "post"}, Goto(c, l),
               UNCHANGED <<errand, mutex>>, held' \in [Clients -> 0 .. MaxControllers],
               \A d \in Clients : d # c => held'[d] = held[d],
               l = "await" => errand[c] = "cut", l = "write" => errand[c] # "update"
        PROVE  Continues(c) /\ Frame
    BY <1>0, <1>2 DEF Goto, Continues, Label, Visiting
  <1>3. Done(c) => Finishes(c) /\ Frame
    BY DoneIs, <1>0
  <1>4. CASE Find(c)
    <2>1. Rest
      BY <1>0, <1>4 DEF Find, sharedVars
    <2>2. Done(c) \/ (Goto(c, "fetch") /\ UNCHANGED <<errand, mutex, held>>)
      BY <1>4 DEF Find
    <2> QED
      BY <1>0, <1>1, <1>2, <1>3, <2>1, <2>2
  <1>5. CASE Fetch(c)
    <2> DEFINE n == IF framebuffers[key[c]] = Absent THEN Null ELSE framebuffers[key[c]]
    <2>0. key[c] \in Keys
      BY <1>0, <1>5 DEF Fetch, At
    <2>1. n \in 0 .. MaxControllers
      BY <1>0, <2>0, Bounds
    <2>2. /\ held' = [held EXCEPT ![c] = n]
          /\ framebuffers' = [framebuffers EXCEPT ![key[c]] = n]
          /\ Goto(c, "test") /\ UNCHANGED <<errand, mutex>>
          /\ races' \subseteq races \cup {"orphaned"}
          /\ UNCHANGED <<key, connections, members, alive, doomed, updates, guiVars,
                         itemVars, image, queue, misused>>
      BY <1>5 DEF Fetch, Race
    <2> HIDE DEF n
    <2>3. /\ held' \in [Clients -> 0 .. MaxControllers]
          /\ framebuffers' \in [Keys -> {Absent} \cup 0 .. MaxControllers]
          /\ \A d \in Clients : d # c => held'[d] = held[d]
      BY <1>0, <2>1, <2>2
    <2>4. Rest
      BY <1>0, <2>2, <2>3 DEF Races
    <2> QED
      BY <1>0, <1>1, <1>2, <2>2, <2>3, <2>4
  <1>6. CASE Test(c)
    <2>1. Rest
      BY <1>0, <1>6 DEF Test, Race, Races, sharedVars
    <2>2. CASE Done(c)
      BY <1>0, <1>1, <1>3, <2>1, <2>2
    <2>3. CASE Goto(c, Onward(c)) /\ UNCHANGED <<errand, mutex, held>>
      <3>1. errand[c] \in {"bind", "update", "cut"}
        BY <1>0, <1>1 DEF Errand
      <3>2. /\ Onward(c) \in {"write", "post", "await"}
            /\ Onward(c) = "await" => errand[c] = "cut"
            /\ Onward(c) = "write" => errand[c] # "update"
        BY <3>1 DEF Onward
      <3> QED
        BY <1>0, <1>1, <1>2, <2>1, <2>3, <3>2
    <2> QED
      BY <1>6, <2>2, <2>3 DEF Test
  <1>7. CASE Await(c)
    <2>1. Rest
      BY <1>0, <1>7 DEF Await, Uses, sharedVars
    <2>2. /\ Goto(c, "test") \/ Goto(c, "write")
          /\ UNCHANGED <<errand, mutex, held>> /\ errand[c] = "cut"
      BY <1>0, <1>7 DEF Await, At
    <2> QED
      BY <1>0, <1>1, <1>2, <2>1, <2>2
  <1>8. CASE Write(c)
    <2>1. Rest
      BY <1>0, <1>8 DEF Write, Uses, sharedVars
    <2>2. Goto(c, "post") /\ UNCHANGED <<errand, mutex, held>>
      BY <1>8 DEF Write
    <2> QED
      BY <1>0, <1>1, <1>2, <2>1, <2>2
  <1>9. CASE Post(c)
    <2>0. queue' \in Seq(Call)
      BY <1>0, <1>9, QueueOK, Calls DEF Post, GuiOK
    <2>1. Rest
      BY <1>0, <1>9, <2>0 DEF Post, Uses
    <2>2. Done(c)
      BY <1>9 DEF Post
    <2> QED
      BY <1>0, <1>1, <1>3, <2>1, <2>2
  <1> QED
    BY <1>4, <1>5, <1>6, <1>7, <1>8, <1>9 DEF Visit

LEMMA ClientTypes ==
  ASSUME Types, NEW c \in Clients, Client(c)
  PROVE  ClientOK' /\ Exclusion' /\ KeyKnown' /\ Errands'
  <1> USE Bounds DEF clientVars, Goto, Visits, At
  <1>0. /\ pc \in [Clients -> Label] /\ errand \in [Clients -> Errand]
        /\ key \in [Clients -> Keys \cup {None}]
        /\ connections \in [Keys -> Clients \cup {None}]
        /\ members \in [Clients -> SUBSET Clients] /\ alive \subseteq Clients
        /\ mutex \in Clients \cup {None} /\ doomed \in Clients \cup {None}
        /\ held \in [Clients -> 0 .. MaxControllers] /\ updates \in 0 .. MaxUpdates
        /\ Exclusion /\ KeyKnown /\ Errands
    BY DEF Types, ClientOK
  (* A thread goes to a label outside of its visits, or begins one.        *)
  <1>1. ASSUME NEW l \in {"up", "close", "gone"}, pc' = [pc EXCEPT ![c] = l],
               pc[c] \notin Visiting, UNCHANGED errand,
               key' \in [Clients -> Keys \cup {None}], key'[c] \in Keys,
               \A d \in Clients : d # c => key'[d] = key[d],
               mutex' = mutex \/ mutex = None
        PROVE  pc' \in [Clients -> Label] /\ Exclusion' /\ KeyKnown' /\ Errands'
    <2>1. pc' \in [Clients -> Label] /\ pc'[c] = l /\ \A d \in Clients : d # c => pc'[d] = pc[d]
      BY <1>0, <1>1 DEF Label
    <2> QED
      BY <1>0, <1>1, <2>1 DEF Exclusion, Locked, KeyKnown, Errands, Visiting
  <1>2. ASSUME NEW what \in {"bind", "update", "cut"}, Visits(c, what),
               pc[c] \notin Visiting,
               key' \in [Clients -> Keys \cup {None}], key'[c] \in Keys,
               \A d \in Clients : d # c => key'[d] = key[d],
               \/ mutex = None /\ mutex' = c
               \/ what = "update" /\ UNCHANGED mutex
        PROVE  /\ pc' \in [Clients -> Label] /\ errand' \in [Clients -> Errand]
               /\ Exclusion' /\ KeyKnown' /\ Errands'
    <2>1. /\ pc' \in [Clients -> Label] /\ errand' \in [Clients -> Errand]
          /\ pc'[c] = "find" /\ errand'[c] = what
          /\ \A d \in Clients : d # c => pc'[d] = pc[d] /\ errand'[d] = errand[d]
      BY <1>0, <1>2 DEF Label, Errand, Visiting
    <2> QED
      BY <1>0, <1>2, <2>1 DEF Exclusion, Locked, KeyKnown, Errands, Visiting
  <1>3. ASSUME NEW k \in Keys, Join(c, k)
        PROVE  ClientOK' /\ Exclusion' /\ KeyKnown' /\ Errands'
    <2>1. /\ key' = [key EXCEPT ![c] = k] /\ pc[c] = "off" /\ UNCHANGED <<errand, mutex>>
          /\ pc' = [pc EXCEPT ![c] = "up"] \/ pc' = [pc EXCEPT ![c] = "close"]
          /\ members' \in [Clients -> SUBSET Clients]
      BY <1>0, <1>3 DEF Join
    <2>2. /\ key' \in [Clients -> Keys \cup {None}] /\ key'[c] = k
          /\ \A d \in Clients : d # c => key'[d] = key[d]
      BY <1>0, <2>1
    <2>3. pc' \in [Clients -> Label] /\ Exclusion' /\ KeyKnown' /\ Errands'
      BY <1>1, <2>1, <2>2 DEF Visiting
    <2> QED
      BY <1>0, <1>3, <2>1, <2>2, <2>3 DEF Join, ClientOK
  <1>4. ASSUME NEW k \in Keys, Make(c, k)
        PROVE  ClientOK' /\ Exclusion' /\ KeyKnown' /\ Errands'
    <2>1. /\ key' = [key EXCEPT ![c] = k] /\ mutex = None /\ pc[c] = "off"
          /\ \/ /\ Visits(c, "bind") /\ mutex' = c
                /\ alive' = alive \cup {c}
                /\ members' = [members EXCEPT ![c] = {c}]
                /\ connections' = [connections EXCEPT ![k] = c]
             \/ /\ pc' = [pc EXCEPT ![c] = "close"]
                /\ UNCHANGED <<errand, mutex, alive, members, connections>>
          /\ UNCHANGED <<doomed, held, updates>>
      BY <1>4 DEF Make
    <2>2. /\ key' \in [Clients -> Keys \cup {None}] /\ key'[c] = k
          /\ \A d \in Clients : d # c => key'[d] = key[d]
      BY <1>0, <2>1
    <2>3. /\ members' \in [Clients -> SUBSET Clients] /\ alive' \subseteq Clients
          /\ connections' \in [Keys -> Clients \cup {None}]
          /\ mutex' \in Clients \cup {None}
      <3>1. CASE /\ alive' = alive \cup {c} /\ members' = [members EXCEPT ![c] = {c}]
                 /\ connections' = [connections EXCEPT ![k] = c] /\ mutex' = c
        <4>1. members' \in [Clients -> SUBSET Clients]
          BY <1>0, <3>1
        <4>2. connections' \in [Keys -> Clients \cup {None}]
          BY <1>0, <3>1
        <4> QED
          BY <1>0, <3>1, <4>1, <4>2
      <3>2. CASE UNCHANGED <<mutex, alive, members, connections>>
        BY <1>0, <3>2
      <3> QED
        BY <2>1, <3>1, <3>2
    <2>4. /\ pc' \in [Clients -> Label] /\ errand' \in [Clients -> Errand]
          /\ Exclusion' /\ KeyKnown' /\ Errands'
      <3>1. CASE Visits(c, "bind") /\ mutex' = c
        BY <1>2, <2>1, <2>2, <3>1 DEF Visiting
      <3>2. CASE pc' = [pc EXCEPT ![c] = "close"] /\ UNCHANGED <<errand, mutex>>
        BY <1>0, <1>1, <2>1, <2>2, <3>2 DEF Visiting
      <3> QED
        BY <2>1, <3>1, <3>2
    <2> QED
      BY <1>0, <2>1, <2>2, <2>3, <2>4 DEF ClientOK
  <1>5. CASE SendUpdate(c)
    <2>1. updates' \in 0 .. MaxUpdates
      BY <1>0, <1>5 DEF SendUpdate
    <2>2. /\ pc[c] = "up" /\ Visits(c, "update")
          /\ UNCHANGED <<key, connections, members, alive, mutex, doomed, held>>
      BY <1>5 DEF SendUpdate
    <2>3. key'[c] \in Keys
      BY <1>0, <2>2 DEF KeyKnown
    <2>4. /\ pc' \in [Clients -> Label] /\ errand' \in [Clients -> Errand]
          /\ Exclusion' /\ KeyKnown' /\ Errands'
      BY <1>0, <1>2, <2>2, <2>3 DEF Visiting
    <2> QED
      BY <1>0, <2>1, <2>2, <2>4 DEF ClientOK
  <1>6. CASE End(c)
    <2>1. /\ pc[c] = "up" /\ pc' = [pc EXCEPT ![c] = "close"]
          /\ UNCHANGED <<errand, key, connections, members, alive, mutex, doomed,
                         held, updates>>
      BY <1>6 DEF End
    <2>2. key'[c] \in Keys
      BY <1>0, <2>1 DEF KeyKnown
    <2>3. pc' \in [Clients -> Label] /\ Exclusion' /\ KeyKnown' /\ Errands'
      BY <1>0, <1>1, <2>1, <2>2 DEF Visiting
    <2> QED
      BY <1>0, <2>1, <2>3 DEF ClientOK
  <1>7. CASE Close(c)
    <2> DEFINE b == connections[key[c]]
    <2>1. /\ b \in Clients \cup {None} /\ key[c] \in Keys /\ pc[c] = "close"
          /\ mutex = None /\ UNCHANGED <<key, alive, held, updates>>
      BY <1>0, <1>7 DEF Close, KeyKnown
    <2>2. CASE b # None /\ LastOf(c, b)
      <3>1. /\ connections' = [connections EXCEPT ![key[c]] = None]
            /\ members' = [members EXCEPT ![b] = {}]
            /\ doomed' = b /\ mutex' = c /\ Visits(c, "cut")
        BY <1>7, <2>2 DEF Close
      <3>2. /\ pc' \in [Clients -> Label] /\ errand' \in [Clients -> Errand]
            /\ Exclusion' /\ KeyKnown' /\ Errands'
        BY <1>0, <1>2, <2>1, <3>1 DEF Visiting
      <3> HIDE DEF b
      <3> QED
        BY <1>0, <2>1, <3>1, <3>2 DEF ClientOK
    <2>3. CASE ~(b # None /\ LastOf(c, b))
      <3>1. /\ members' = [d \in Clients |-> IF d = b THEN members[d] \ {c}
                                                     ELSE members[d]]
            /\ pc' = [pc EXCEPT ![c] = "gone"]
            /\ UNCHANGED <<errand, connections, doomed, mutex>>
        BY <1>7, <2>3 DEF Close
      <3>2. pc' \in [Clients -> Label] /\ Exclusion' /\ KeyKnown' /\ Errands'
        BY <1>0, <1>1, <2>1, <3>1 DEF Visiting
      <3> HIDE DEF b
      <3> QED
        BY <1>0, <2>1, <3>1, <3>2 DEF ClientOK
    <2> QED
      BY <2>2, <2>3
  <1>8. CASE Visit(c)
    <2>1. ClientOK'
      BY <1>0, <1>8, Visited DEF ClientOK
    <2>2. /\ Continues(c) \/ Finishes(c)
          /\ pc[c] \in Visiting /\ errand[c] # "none" /\ UNCHANGED key
          /\ \A d \in Clients : d # c => pc'[d] = pc[d] /\ errand'[d] = errand[d]
      BY <1>8, Visited
    <2>3. errand[c] # "update" => mutex = c
      BY <1>0, <2>2 DEF Exclusion, Locked
    <2>4. Exclusion'
      BY <1>0, <2>2, <2>3 DEF Exclusion, Locked, Continues, Finishes, Visiting
    <2>5. KeyKnown' /\ Errands'
      BY <1>0, <2>2 DEF KeyKnown, Errands, Continues, Finishes, Visiting
    <2> QED
      BY <2>1, <2>4, <2>5
  <1>9. CASE Free(c)
    <2>1. /\ pc[c] = "free" /\ pc' = [pc EXCEPT ![c] = "gone"] /\ mutex = c
          /\ alive' = alive \ {doomed} /\ doomed' = None /\ mutex' = None
          /\ UNCHANGED <<errand, key, connections, members, held, updates>>
      BY <1>0, <1>9 DEF Free, Exclusion, Locked
    <2>2. pc'[c] = "gone" /\ \A d \in Clients : d # c => pc'[d] = pc[d]
      BY <1>0, <2>1
    <2>3. Exclusion' /\ KeyKnown' /\ Errands'
      BY <1>0, <2>1, <2>2 DEF Exclusion, Locked, KeyKnown, Errands, Visiting
    <2> QED
      BY <1>0, <2>1, <2>3 DEF ClientOK, Label
  <1> QED
    BY <1>3, <1>4, <1>5, <1>6, <1>7, <1>8, <1>9 DEF Client

(* The steps of the GUI thread and of the scene graph.                     *)
GuiStep == \/ \E k \in Keys \cup {None} : SetFramebufferID(k)
           \/ Create \/ Destroy \/ Input \/ Handle \/ Paint

LEMMA StepIs == [Next]_vars => \/ \E c \in Clients : Client(c)
                               \/ GuiStep \/ UNCHANGED vars
  BY DEF Next, GuiStep

LEMMA GuiFrame == GuiStep => ~misused /\ UNCHANGED clientVars
  BY DEF GuiStep, Handle, Paint, SetFramebufferID, Create, Destroy, Input, Register,
         Emplace, Look, Take, Deref, Attach, HandleCheck, Erase, ReadImage, SetActive,
         MarkedUpdate, ForwardUserInput, Vanish, PaintBegin, PaintTest, PaintImage,
         PaintEnd, On, Idle

LEMMA RaceIs ==
  ASSUME NEW x \in Races, NEW P, Race(x, P), races \subseteq Races
  PROVE  races' \subseteq Races
  BY DEF Race


LEMMA GuiTypes == ASSUME Types, GuiStep PROVE GuiOK' /\ FbidKnown'
  <1> USE Bounds DEF guiVars, itemVars, sharedVars, Uses, FbidKnown, On, Idle
  <1>0. /\ framebuffers \in [Keys -> {Absent} \cup 0 .. MaxControllers]
        /\ ctl \in 0 .. MaxControllers /\ born \in 0 .. MaxControllers
        /\ fbid \in Keys \cup {None} /\ queue \in Seq(Call)
        /\ gui \in Handlers /\ found \in Clients \cup {None}
        /\ image \in Clients \cup {None} /\ brush \in Brush
        /\ active \in BOOLEAN /\ midPaint \in BOOLEAN /\ dirty \in BOOLEAN
        /\ misused \in BOOLEAN /\ races \subseteq Races
        /\ connections \in [Keys -> Clients \cup {None}] /\ FbidKnown
    BY DEF Types, GuiOK, ClientOK
  <1>1. \A k \in Keys \cup {None} : Append(queue, Check(k)) \in Seq(Call)
    BY <1>0, QueueOK, Calls
  <1>2. Unregistered \in [Keys -> {Absent} \cup 0 .. MaxControllers]
    BY <1>0 DEF Unregistered
  <1>3. ASSUME NEW k \in Keys \cup {None}, SetFramebufferID(k)
        PROVE  GuiOK' /\ FbidKnown'
    <2>1. /\ framebuffers' \in [Keys -> {Absent} \cup 0 .. MaxControllers] /\ fbid' = k
          /\ gui' = (IF k = None THEN "idle" ELSE "register")
          /\ UNCHANGED <<ctl, born, found, itemVars, image, queue, misused>>
      BY <1>2, <1>3 DEF SetFramebufferID
    <2>2. races' \subseteq Races
      BY <1>0, <1>3 DEF SetFramebufferID, Race, Races
    <2>3. gui' \in Handlers
      BY <2>1 DEF Handlers
    <2> QED
      BY <1>0, <2>1, <2>2, <2>3 DEF GuiOK
  <1>4. CASE Create
    <2>1. /\ ctl' \in 0 .. MaxControllers /\ born' \in 0 .. MaxControllers
      BY <1>0, <1>4 DEF Create
    <2>2. /\ dirty' = TRUE /\ midPaint' \in BOOLEAN
          /\ UNCHANGED <<fbid, gui, found, active, brush, sharedVars, races, misused>>
      BY <1>4 DEF Create
    <2> QED
      BY <1>0, <2>1, <2>2 DEF GuiOK
  <1>5. CASE Destroy
    <2>1. /\ framebuffers' \in [Keys -> {Absent} \cup 0 .. MaxControllers]
          /\ gui' = "dying"
          /\ UNCHANGED <<ctl, born, fbid, found, itemVars, image, queue, misused>>
      BY <1>2, <1>5 DEF Destroy
    <2>2. races' \subseteq Races
      BY <1>0, <1>5 DEF Destroy, Race, Races
    <2>3. gui' \in Handlers
      BY <2>1 DEF Handlers
    <2> QED
      BY <1>0, <2>1, <2>2, <2>3 DEF GuiOK
  <1>6. CASE Vanish
    <2>1. /\ ctl' = 0 /\ fbid' = None /\ queue' = <<>> /\ image' = None /\ gui' = "idle"
          /\ active' = FALSE /\ midPaint' = FALSE /\ dirty' = FALSE
          /\ UNCHANGED <<born, found, brush, framebuffers, races, misused>>
      BY <1>6 DEF Vanish
    <2>2. queue' \in Seq(Call) /\ ctl' \in 0 .. MaxControllers /\ gui' \in Handlers
      BY <2>1 DEF Handlers
    <2> QED
      BY <1>0, <2>1, <2>2 DEF GuiOK
  (* Steps that only move the GUI thread on.                               *)
  <1>7. CASE Input \/ ForwardUserInput \/ Register \/ Look \/ ReadImage
    <2>1. UNCHANGED <<ctl, born, fbid, found, itemVars, sharedVars, races, misused>>
      BY <1>7 DEF Input, ForwardUserInput, Register, Look, ReadImage
    <2>2. gui' \in Handlers
      BY <1>7 DEF Input, ForwardUserInput, Register, Look, ReadImage, Handlers
    <2>3. FbidKnown'
      BY <1>0, <1>7 DEF Input, ForwardUserInput, Register, Look, ReadImage
    <2> QED
      BY <1>0, <2>1, <2>2, <2>3 DEF GuiOK
  <1>8. CASE Emplace
    <2>1. /\ framebuffers' \in [Keys -> {Absent} \cup 0 .. MaxControllers]
      BY <1>0, <1>8 DEF Emplace
    <2>2. /\ gui = "emplace" /\ gui' = "look"
          /\ UNCHANGED <<ctl, born, fbid, found, itemVars, image, queue, races, misused>>
      BY <1>8 DEF Emplace
    <2>3. gui' \in Handlers
      BY <2>2 DEF Handlers
    <2> QED
      BY <1>0, <2>1, <2>2, <2>3 DEF GuiOK
  <1>9. CASE Take
    <2>1. /\ gui = "take" /\ found' = connections[fbid]
          /\ gui' = "idle" \/ gui' = "deref"
          /\ UNCHANGED <<ctl, born, fbid, itemVars, sharedVars>>
      BY <1>9 DEF Take
    <2>2. races' \subseteq Races /\ found' \in Clients \cup {None} /\ gui' \in Handlers
      BY <1>0, <1>9, <2>1 DEF Take, Race, Races, Handlers
    <2>3. misused' \in BOOLEAN
      BY <1>9 DEF Take
    <2> QED
      BY <1>0, <2>1, <2>2, <2>3 DEF GuiOK
  <1>10. CASE Deref
    <2>1. /\ gui = "deref" /\ found' \in {found, None}
          /\ gui' = "idle" \/ gui' = "attach"
          /\ UNCHANGED <<ctl, born, fbid, itemVars, sharedVars>>
      BY <1>10 DEF Deref
    <2>2. races' \subseteq Races /\ gui' \in Handlers
      BY <1>0, <1>10, <2>1 DEF Deref, Race, Races, Handlers
    <2>3. misused' \in BOOLEAN
      BY <1>10 DEF Deref
    <2> QED
      BY <1>0, <2>1, <2>2, <2>3 DEF GuiOK
  <1>11. CASE Attach
    <2>1. /\ queue' \in Seq(Call) /\ image' = found /\ gui' = "idle" /\ found' = None
          /\ UNCHANGED <<ctl, born, fbid, itemVars, framebuffers>>
      BY <1>0, <1>1, <1>11 DEF Attach
    <2>2. races' \subseteq Races /\ gui' \in Handlers
      BY <1>0, <1>11, <2>1 DEF Attach, Race, Races, Handlers
    <2>3. misused' \in BOOLEAN
      BY <1>11 DEF Attach
    <2> QED
      BY <1>0, <2>1, <2>2, <2>3 DEF GuiOK
  <1>12. CASE HandleCheck
    <2>1. queue' \in Seq(Call)
      BY <1>0, <1>12, QueueOK DEF HandleCheck
    <2>2. /\ gui' = "erase" \/ gui' = "read"
          /\ UNCHANGED <<ctl, born, fbid, found, itemVars, framebuffers, image, races,
                         misused>>
      BY <1>12 DEF HandleCheck
    <2>3. gui' \in Handlers
      BY <2>2 DEF Handlers
    <2> QED
      BY <1>0, <2>1, <2>2, <2>3 DEF GuiOK
  <1>13. CASE Erase
    <2>1. /\ gui' = "inactivate" /\ image' = None
          /\ UNCHANGED <<ctl, born, fbid, found, itemVars, framebuffers, queue, misused>>
      BY <1>13 DEF Erase
    <2>2. races' \subseteq Races /\ gui' \in Handlers
      BY <1>0, <1>13, <2>1 DEF Erase, Race, Races, Handlers
    <2> QED
      BY <1>0, <2>1, <2>2 DEF GuiOK
  <1>14. CASE SetActive
    <2>1. /\ gui' = "idle" /\ midPaint' = TRUE /\ dirty' = TRUE
          /\ UNCHANGED <<ctl, born, fbid, found, brush, sharedVars, races, misused>>
      BY <1>14 DEF SetActive
    <2>2. active' \in BOOLEAN
      BY <1>14 DEF SetActive
    <2>3. gui' \in Handlers
      BY <2>1 DEF Handlers
    <2> QED
      BY <1>0, <2>1, <2>2, <2>3 DEF GuiOK
  <1>15. CASE MarkedUpdate
    <2>1. queue' \in Seq(Call)
      BY <1>0, <1>15, QueueOK DEF MarkedUpdate
    <2>2. /\ midPaint' = TRUE /\ dirty' = TRUE
          /\ UNCHANGED <<guiVars, framebuffers, image, active, brush, races, misused>>
      BY <1>15 DEF MarkedUpdate
    <2> QED
      BY <1>0, <2>1, <2>2 DEF GuiOK
  <1>16. CASE PaintBegin
    <2>1. /\ midPaint' = TRUE /\ dirty' = FALSE /\ brush' = "begun"
          /\ UNCHANGED <<guiVars, active, sharedVars, misused>>
      BY <1>16 DEF PaintBegin
    <2>2. races' \subseteq Races /\ brush' \in Brush
      BY <1>0, <1>16, <2>1 DEF PaintBegin, Race, Races, Brush
    <2> QED
      BY <1>0, <2>1, <2>2 DEF GuiOK
  <1>17. CASE PaintTest \/ PaintImage \/ PaintEnd
    <2>1. UNCHANGED <<guiVars, active, dirty, sharedVars, races>>
      BY <1>17 DEF PaintTest, PaintImage, PaintEnd
    <2>2. brush' \in Brush
      BY <1>0, <1>17 DEF PaintTest, PaintImage, PaintEnd, Brush
    <2>3. midPaint' = midPaint \/ midPaint' = FALSE
      BY <1>17 DEF PaintTest, PaintImage, PaintEnd
    <2>4. midPaint' \in BOOLEAN
      BY <1>0, <2>3
    <2>5. misused' \in BOOLEAN
      BY <1>0, <1>17 DEF PaintTest, PaintImage, PaintEnd
    <2> QED
      BY <1>0, <2>1, <2>2, <2>4, <2>5 DEF GuiOK
  <1> QED
    BY <1>3, <1>4, <1>5, <1>6, <1>7, <1>8, <1>9, <1>10, <1>11, <1>12, <1>13, <1>14,
       <1>15, <1>16, <1>17
    DEF GuiStep, Handle, Paint

LEMMA TypesStep == Types /\ [Next]_vars => Types'
  <1> SUFFICES ASSUME Types, [Next]_vars PROVE Types'
    OBVIOUS
  <1>0. GuiOK /\ FbidKnown
    BY DEF Types
  <1>1. CASE UNCHANGED vars
    BY <1>1 DEF vars, clientVars, guiVars, itemVars, sharedVars, Types, ClientOK, Exclusion,
                GuiOK, KeyKnown, FbidKnown, Errands, Locked
  <1>2. CASE GuiStep
    BY <1>2, GuiTypes, GuiFrame
    DEF clientVars, Types, ClientOK, Exclusion, KeyKnown, Errands, Locked
  <1>3. ASSUME NEW c \in Clients, Client(c) PROVE Types'
    <2>1. CASE Visit(c)
      <3>1. /\ framebuffers' \in [Keys -> {Absent} \cup 0 .. MaxControllers]
            /\ image' \in Clients \cup {None} /\ queue' \in Seq(Call)
            /\ misused' \in BOOLEAN /\ races' \subseteq Races
            /\ UNCHANGED <<guiVars, itemVars>>
        BY <2>1, Visited
      <3>2. GuiOK' /\ FbidKnown'
        BY <1>0, <3>1 DEF GuiOK, FbidKnown, guiVars, itemVars
      <3> QED
        BY <1>3, <3>2, ClientTypes DEF Types
    <2>2. CASE UNCHANGED <<guiVars, itemVars, sharedVars, races, misused>>
      <3>1. GuiOK' /\ FbidKnown'
        BY <1>0, <2>2 DEF GuiOK, FbidKnown, guiVars, itemVars, sharedVars
      <3> QED
        BY <1>3, <3>1, ClientTypes DEF Types
    <2> QED
      BY <1>3, <2>1, <2>2 DEF Client, Join, Make, SendUpdate, End, Close, Free
  <1> QED
    BY <1>1, <1>2, <1>3, StepIs

(* Every client is where its thread can be, and of the threads that hold   *)
(* the mutex of fbmanagement.cpp there is at most one.                     *)
THEOREM TypeCorrect == Spec => []TypeOK
  <1> QED
    BY InitTypes, TypesStep, TypeParts, PTL DEF Spec, Types

-----------------------------------------------------------------------------
(* Who shares a backend.                                                   *)

Binding(c) == pc[c] \in Visiting /\ errand[c] = "bind"

Unmade == \A b \in Clients : pc[b] = "off" => b \notin alive /\ members[b] = {}
Backed == \A k \in Keys : connections[k] # None =>
    /\ connections[k] \in alive /\ members[connections[k]] # {}
    /\ key[connections[k]] = k
Membership == \A b \in Clients : \A c \in members[b] :
    /\ Accepted(c) \/ pc[c] = "close"
    /\ key[c] = key[b] /\ connections[key[b]] = b /\ b \in alive
Joined == \A c \in Clients : Accepted(c) =>
    connections[key[c]] # None /\ c \in members[connections[key[c]]]
Emptied == \A c \in Clients : Closing(c) => connections[key[c]] = None
Maker == \A c \in Clients : Binding(c) => connections[key[c]] = c
Remains == \A b \in alive : members[b] # {} \/ b = doomed
Dooming == doomed # None => /\ doomed \in alive /\ members[doomed] = {}
                            /\ mutex \in Clients /\ Closing(mutex)
                            /\ key[doomed] = key[mutex]
Owned == mutex # None => Locked(mutex)
Sharing == /\ Unmade /\ Backed /\ Membership /\ Joined /\ Maker /\ Emptied
           /\ Remains /\ Dooming /\ Owned

LEMMA SharingIs == Types /\ Sharing => BackendLives
  BY DEF Types, KeyKnown, Sharing, Backed, Joined, Remains, BackendLives, Accepted,
         Visiting

LEMMA InitSharing == Init => Sharing
  BY Bounds
  DEF Init, Sharing, Unmade, Backed, Membership, Joined, Maker, Emptied, Remains,
      Dooming, Owned, Accepted, Binding, Closing, Visiting

(* Of the ways a thread can be, one at a time.                             *)
LEMMA Ways ==
  ASSUME Types, NEW c \in Clients
  PROVE  /\ Accepted(c) => pc[c] \notin {"off", "close", "free", "gone"} /\ ~Closing(c)
         /\ Binding(c) => Accepted(c) /\ Locked(c)
         /\ Closing(c) => Locked(c) /\ pc[c] \notin {"off", "up", "close", "gone"}
         /\ Locked(c) <=> Binding(c) \/ Closing(c)
         /\ Locked(c) => mutex = c
         /\ pc[c] # "off" => key[c] \in Keys
  BY DEF Types, Exclusion, KeyKnown, ClientOK, Errands, Errand, Accepted, Binding, Closing,
         Locked, Visiting

(* A thread on its errand, and when it is done.                            *)
LEMMA VisitWays ==
  ASSUME Types, Types', NEW c \in Clients, Visit(c)
  PROVE  /\ pc[c] # "off" /\ pc'[c] \notin {"off", "close", "gone"}
         /\ Accepted(c) <=> Accepted(c)'
         /\ Closing(c) <=> Closing(c)'
         /\ Binding(c)' => Binding(c)
         /\ \/ mutex' = mutex /\ (Locked(c) <=> Locked(c)')
            \/ Binding(c) /\ mutex' = None /\ ~Locked(c)'
  <1>1. /\ pc[c] \in Visiting /\ errand[c] # "none" /\ errand[c] \in Errand
        /\ Continues(c) \/ Finishes(c)
    BY Visited DEF Types, ClientOK
  <1>2. CASE Continues(c)
    BY <1>1, <1>2 DEF Continues, Visiting, Accepted, Binding, Closing, Locked
  <1>3. CASE Finishes(c)
    BY <1>1, <1>3
    DEF Finishes, Visiting, Accepted, Binding, Closing, Locked, Errand
  <1> QED
    BY <1>1, <1>2, <1>3

LEMMA ClientSharing ==
  ASSUME Types, Types', Sharing, NEW c \in Clients, Client(c) PROVE Sharing'
  <1> USE Bounds DEF clientVars, guiVars, itemVars, Goto, Visits, At, Unmade, Backed,
          Membership, Joined, Maker, Emptied, Remains, Dooming, Owned
  <1>0. /\ pc \in [Clients -> Label] /\ key \in [Clients -> Keys \cup {None}]
        /\ errand \in [Clients -> Errand]
        /\ connections \in [Keys -> Clients \cup {None}]
        /\ members \in [Clients -> SUBSET Clients] /\ alive \subseteq Clients
        /\ mutex \in Clients \cup {None} /\ doomed \in Clients \cup {None}
        /\ \A d \in Clients : pc[d] # "off" => key[d] \in Keys
    BY DEF Types, ClientOK, KeyKnown
  <1>00. /\ Unmade /\ Backed /\ Membership /\ Joined /\ Maker /\ Emptied /\ Remains
         /\ Dooming /\ Owned
    BY DEF Sharing
  <1>U. Unmade /\ Backed
    BY <1>00
  <1>M. Membership /\ Backed
    BY <1>00
  <1>J. Joined /\ Maker
    BY <1>00
  <1>W. \A d \in Clients :
          /\ Accepted(d) => pc[d] \notin {"off", "close", "free", "gone"} /\ ~Closing(d)
          /\ Binding(d) => Accepted(d) /\ Locked(d)
          /\ Closing(d) => Locked(d) /\ pc[d] \notin {"off", "up", "close", "gone"}
          /\ Locked(d) <=> Binding(d) \/ Closing(d)
          /\ Locked(d) => mutex = d
    BY Ways
  <1>O. ASSUME NEW d \in Clients, pc'[d] = pc[d], errand'[d] = errand[d]
        PROVE  /\ Accepted(d)' <=> Accepted(d)
               /\ Closing(d)' <=> Closing(d)
               /\ Binding(d)' <=> Binding(d)
               /\ Locked(d)' <=> Locked(d)
    BY <1>O DEF Accepted, Closing, Binding, Locked
  <1>L. ASSUME NEW l \in {"up", "close", "gone", "find"}, pc'[c] = l
        PROVE  /\ l \in {"up", "close", "gone"} =>
                    ~Closing(c)' /\ ~Binding(c)' /\ ~Locked(c)' /\ (Accepted(c)' <=> l = "up")
               /\ l = "find" =>
                    /\ Closing(c)' <=> errand'[c] = "cut"
                    /\ Binding(c)' <=> errand'[c] = "bind"
                    /\ Locked(c)' <=> errand'[c] # "update"
                    /\ Accepted(c)' <=> errand'[c] # "cut"
    BY <1>L DEF Accepted, Closing, Binding, Locked, Visiting
  (* A thread goes from a label to another, its share unchanged.           *)
  <1>1. ASSUME \A d \in Clients : d # c => pc'[d] = pc[d] /\ errand'[d] = errand[d],
               UNCHANGED <<key, connections, members, alive, doomed>>,
               pc[c] # "off", pc'[c] # "off",
               Accepted(c)' => Accepted(c),
               Accepted(c) => Accepted(c)' \/ pc'[c] = "close",
               pc[c] # "close", Binding(c)' => Binding(c),
               Closing(c) <=> Closing(c)',
               \/ mutex' = mutex /\ (Locked(c) <=> Locked(c)')
               \/ Binding(c) /\ mutex' = None /\ ~Locked(c)'
        PROVE  Sharing'
    <2>1. \A d \in Clients : d # c =>
             /\ Accepted(d)' <=> Accepted(d)
             /\ Closing(d)' <=> Closing(d)
             /\ Binding(d)' <=> Binding(d)
             /\ Locked(d)' <=> Locked(d)
      BY <1>1, <1>O
    <2>2. Unmade' /\ Backed' /\ Remains'
      BY <1>00, <1>1, <2>1
    <2>3. Membership'
      BY <1>0, <1>00, <1>1, <2>1
    <2>4. Joined' /\ Maker' /\ Emptied'
      BY <1>00, <1>1, <2>1
    <2>5. Owned'
      BY <1>0, <1>00, <1>1, <2>1
    <2>6. Dooming'
      BY <1>0, <1>00, <1>W, <1>1, <2>1
    <2> QED
      BY <2>2, <2>3, <2>4, <2>5, <2>6 DEF Sharing
  (* One that is refused, with no share.                                   *)
  <1>2. ASSUME NEW k \in Keys, pc[c] = "off", pc' = [pc EXCEPT ![c] = "close"],
               key' = [key EXCEPT ![c] = k], mutex = None,
               UNCHANGED <<errand, connections, members, alive, doomed, mutex>>
        PROVE  Sharing'
    <2>1. /\ pc'[c] = "close" /\ \A d \in Clients : d # c => pc'[d] = pc[d]
          /\ key'[c] = k /\ \A d \in Clients : d # c => key'[d] = key[d]
          /\ c \notin alive /\ members[c] = {} /\ \A b \in Clients : c \notin members[b]
          /\ \A j \in Keys : connections[j] # c
      BY <1>0, <1>00, <1>W, <1>2
    <2>2. \A d \in Clients : d # c =>
             /\ Accepted(d)' <=> Accepted(d)
             /\ Closing(d)' <=> Closing(d)
             /\ Binding(d)' <=> Binding(d)
      BY <1>2, <2>1, <1>O
    <2>3. doomed = None /\ ~Closing(c)' /\ ~Binding(c)' /\ ~Accepted(c)'
      BY <1>00, <1>2, <2>1, <1>L
    <2>4. Unmade' /\ Backed' /\ Remains' /\ Dooming' /\ Owned'
      BY <1>0, <1>00, <1>2, <2>1, <2>3
    <2>5. Membership'
      BY <1>0, <1>00, <1>2, <2>1, <2>2
    <2>6. Joined' /\ Maker' /\ Emptied'
      BY <1>0, <1>00, <1>2, <2>1, <2>2, <2>3
    <2> QED
      BY <2>4, <2>5, <2>6 DEF Sharing
  <1>3. ASSUME NEW k \in Keys, Join(c, k) PROVE Sharing'
    <2> DEFINE b == connections[k]
    <2>1. /\ pc[c] = "off" /\ mutex = None /\ b # None /\ b \in Clients
          /\ key' = [key EXCEPT ![c] = k]
          /\ UNCHANGED <<errand, connections, alive, mutex, doomed>>
      BY <1>0, <1>3 DEF Join
    <2>2. CASE pc' = [pc EXCEPT ![c] = "up"]
               /\ members' = [members EXCEPT ![b] = members[b] \cup {c}]
      <3>1. /\ pc'[c] = "up" /\ \A d \in Clients : d # c => pc'[d] = pc[d]
            /\ key'[c] = k /\ \A d \in Clients : d # c => key'[d] = key[d]
            /\ members'[b] = members[b] \cup {c}
            /\ \A d \in Clients : d # b => members'[d] = members[d]
        BY <1>0, <2>1, <2>2
      <3>2. /\ c \notin alive /\ members[c] = {} /\ \A d \in Clients : c \notin members[d]
            /\ \A j \in Keys : connections[j] # c
            /\ b # c /\ key[b] = k /\ b \in alive
        BY <1>0, <1>00, <1>W, <2>1
      <3>3. doomed = None /\ \A d \in Clients : ~Closing(d) /\ ~Binding(d)
        BY <1>00, <1>W, <2>1
      <3>0. \A d \in Clients : d # c =>
              /\ Accepted(d)' <=> Accepted(d)
              /\ ~Closing(d)' /\ ~Binding(d)'
        BY <1>O, <2>1, <3>1, <3>3
      <3>00. Accepted(c)' /\ ~Closing(c)' /\ ~Binding(c)'
        BY <1>L, <3>1
      <3> HIDE DEF b
      <3>4. connections[k] = b
        BY DEF b
      <3>5. Unmade' /\ Backed'
        <4>1. Unmade'
          BY <1>U, <2>1, <3>1, <3>2
        <4>2. Backed'
          <5>1. ASSUME NEW j \in Keys, connections[j] # None
                PROVE  /\ connections[j] \in alive /\ members'[connections[j]] # {}
                       /\ key'[connections[j]] = j
            <6>1. /\ connections[j] \in Clients /\ connections[j] # c
                  /\ connections[j] \in alive /\ members[connections[j]] # {}
                  /\ key[connections[j]] = j
              BY <1>0, <1>U, <3>2, <5>1
            <6> QED
              BY <3>1, <6>1
          <5> QED
            BY <2>1, <5>1
        <4> QED
          BY <4>1, <4>2
      <3>6. Membership'
        <4> SUFFICES ASSUME NEW d \in Clients, NEW e \in members'[d]
                     PROVE  /\ Accepted(e)' \/ pc'[e] = "close"
                            /\ key'[e] = key'[d]
                            /\ connections'[key'[d]] = d /\ d \in alive'
          BY DEF Membership
        <4>1. d # c /\ key'[d] = key[d]
          BY <2>1, <3>1, <3>2
        <4>2. CASE e = c
          BY <2>1, <3>00, <3>1, <3>2, <3>4, <4>1, <4>2
        <4>3. CASE e # c
          <5>1. e \in members[d] /\ e \in Clients
            BY <1>0, <2>1, <3>1, <4>3
          <5>2. /\ Accepted(e) \/ pc[e] = "close"
                /\ key[e] = key[d] /\ connections[key[d]] = d /\ d \in alive
            BY <1>M, <5>1
          <5> QED
            BY <2>1, <3>0, <3>1, <4>1, <4>3, <5>1, <5>2
        <4> QED
          BY <4>2, <4>3
      <3>7. Joined' /\ Maker' /\ Emptied'
        <4> SUFFICES ASSUME NEW e \in Clients, Accepted(e)'
                     PROVE  /\ connections'[key'[e]] # None
                            /\ e \in members'[connections'[key'[e]]]
          BY <3>0, <3>00 DEF Joined, Maker, Emptied
        <4>1. CASE e = c
          BY <2>1, <3>1, <3>4, <4>1
        <4>2. CASE e # c
          <5>1. Accepted(e) /\ key'[e] = key[e] /\ key[e] \in Keys
            BY <1>0, <1>W, <3>0, <3>1, <4>2
          <5>2. /\ connections[key[e]] # None /\ e \in members[connections[key[e]]]
                /\ connections[key[e]] \in Clients
            BY <1>0, <1>J, <5>1
          <5> QED
            BY <2>1, <3>1, <5>1, <5>2
        <4> QED
          BY <4>1, <4>2
      <3>8. Remains' /\ Dooming' /\ Owned'
        BY <1>0, <1>00, <2>1, <3>1, <3>2, <3>3, <3>4
      <3> QED
        BY <3>5, <3>6, <3>7, <3>8 DEF Sharing
    <2>3. CASE pc' = [pc EXCEPT ![c] = "close"] /\ UNCHANGED members
      BY <1>2, <2>1, <2>3
    <2> QED
      BY <1>3, <2>2, <2>3 DEF Join
  <1>4. ASSUME NEW k \in Keys, Make(c, k) PROVE Sharing'
    <2>1. /\ pc[c] = "off" /\ mutex = None /\ connections[k] = None
          /\ key' = [key EXCEPT ![c] = k] /\ UNCHANGED doomed
      BY <1>4 DEF Make
    <2>2. CASE /\ Visits(c, "bind") /\ mutex' = c
               /\ alive' = alive \cup {c}
               /\ members' = [members EXCEPT ![c] = {c}]
               /\ connections' = [connections EXCEPT ![k] = c]
      <3>1. /\ pc'[c] = "find" /\ \A d \in Clients : d # c => pc'[d] = pc[d]
            /\ errand'[c] = "bind" /\ \A d \in Clients : d # c => errand'[d] = errand[d]
            /\ key'[c] = k /\ \A d \in Clients : d # c => key'[d] = key[d]
            /\ members'[c] = {c}
            /\ \A d \in Clients : d # c => members'[d] = members[d]
            /\ connections'[k] = c
            /\ \A j \in Keys : j # k => connections'[j] = connections[j]
        BY <1>0, <2>1, <2>2
      <3>2. /\ c \notin alive /\ members[c] = {} /\ \A d \in Clients : c \notin members[d]
            /\ \A j \in Keys : connections[j] # c
        BY <1>0, <1>00, <1>W, <2>1
      <3>3. doomed = None /\ \A d \in Clients : ~Closing(d) /\ ~Binding(d)
        BY <1>00, <1>W, <2>1
      <3>0. \A d \in Clients : d # c =>
              /\ Accepted(d)' <=> Accepted(d)
              /\ ~Closing(d)' /\ ~Binding(d)'
        BY <1>O, <3>1, <3>3
      <3>00. Accepted(c)' /\ Binding(c)' /\ Locked(c)' /\ ~Closing(c)'
        BY <1>L, <3>1
      <3>4. \A d \in Clients : members[d] # {} => key[d] # k /\ d # c
        BY <1>M, <2>1, <3>2
      <3>5. Unmade' /\ Backed'
        BY <1>0, <1>00, <2>1, <2>2, <3>1, <3>2
      <3>6. Membership'
        <4> SUFFICES ASSUME NEW d \in Clients, NEW e \in members'[d]
                     PROVE  /\ Accepted(e)' \/ pc'[e] = "close"
                            /\ key'[e] = key'[d]
                            /\ connections'[key'[d]] = d /\ d \in alive'
          BY DEF Membership
        <4>1. CASE d = c
          BY <2>2, <3>00, <3>1, <4>1
        <4>2. CASE d # c
          <5>1. /\ e \in members[d] /\ e # c /\ e \in Clients /\ key[d] # k
                /\ key[e] = key[d] /\ key[e] \in Keys
            BY <1>0, <1>00, <1>W, <3>1, <3>2, <3>4, <4>2
          <5> QED
            BY <1>00, <2>2, <3>0, <3>1, <4>2, <5>1
        <4> QED
          BY <4>1, <4>2
      <3>7. Joined' /\ Maker' /\ Emptied'
        <4> SUFFICES ASSUME NEW e \in Clients
                     PROVE  /\ Accepted(e)' => /\ connections'[key'[e]] # None
                                               /\ e \in members'[connections'[key'[e]]]
                            /\ Binding(e)' => connections'[key'[e]] = e
                            /\ Closing(e)' => connections'[key'[e]] = None
          BY DEF Joined, Maker, Emptied
        <4>1. CASE e = c
          BY <3>00, <3>1, <4>1
        <4>2. CASE e # c /\ Accepted(e)'
          <5>1. /\ Accepted(e) /\ key[e] \in Keys
                /\ connections[key[e]] # None /\ key[e] # k
                /\ e \in members[connections[key[e]]]
                /\ connections[key[e]] # c /\ connections[key[e]] \in Clients
            BY <1>0, <1>00, <1>W, <2>1, <3>0, <3>1, <3>2, <4>2
          <5> QED
            BY <1>00, <3>0, <3>1, <4>2, <5>1
        <4> QED
          BY <3>0, <4>1, <4>2
      <3>8. Remains' /\ Dooming' /\ Owned'
        BY <1>0, <1>00, <2>1, <2>2, <3>00, <3>1, <3>2, <3>3
      <3> QED
        BY <3>5, <3>6, <3>7, <3>8 DEF Sharing
    <2>3. CASE /\ pc' = [pc EXCEPT ![c] = "close"]
               /\ UNCHANGED <<errand, mutex, alive, members, connections>>
      BY <1>2, <2>1, <2>3
    <2> QED
      BY <1>4, <2>2, <2>3 DEF Make
  <1>5. CASE SendUpdate(c)
    <2>1. /\ pc[c] = "up" /\ pc'[c] = "find" /\ errand'[c] = "update"
          /\ \A d \in Clients : d # c => pc'[d] = pc[d] /\ errand'[d] = errand[d]
          /\ UNCHANGED <<key, connections, members, alive, mutex, doomed>>
      BY <1>0, <1>5 DEF SendUpdate
    <2>2. Accepted(c) /\ ~Closing(c) /\ ~Locked(c)
      BY <2>1 DEF Accepted, Closing, Locked, Visiting
    <2>3. Accepted(c)' /\ ~Closing(c)' /\ ~Binding(c)' /\ ~Locked(c)'
      BY <2>1, <1>L
    <2> QED
      BY <1>1, <2>1, <2>2, <2>3
  <1>6. CASE End(c)
    <2>1. /\ pc[c] = "up" /\ pc'[c] = "close"
          /\ \A d \in Clients : d # c => pc'[d] = pc[d] /\ errand'[d] = errand[d]
          /\ UNCHANGED <<key, connections, members, alive, mutex, doomed>>
      BY <1>0, <1>6 DEF End
    <2>2. Accepted(c) /\ ~Closing(c) /\ ~Locked(c)
      BY <2>1 DEF Accepted, Closing, Locked, Visiting
    <2>3. ~Accepted(c)' /\ ~Closing(c)' /\ ~Binding(c)' /\ ~Locked(c)'
      BY <2>1, <1>L
    <2> QED
      BY <1>1, <2>1, <2>2, <2>3
  <1>7. CASE Visit(c)
    <2>1. /\ \A d \in Clients : d # c => pc'[d] = pc[d] /\ errand'[d] = errand[d]
          /\ UNCHANGED <<key, connections, members, alive, doomed>>
          /\ pc[c] \in Visiting
      BY <1>7, Visited
    <2>2. pc[c] # "close"
      BY <2>1 DEF Visiting
    <2>3. /\ pc[c] # "off" /\ pc'[c] \notin {"off", "close", "gone"}
          /\ Accepted(c) <=> Accepted(c)'
          /\ Closing(c) <=> Closing(c)'
          /\ Binding(c)' => Binding(c)
          /\ \/ mutex' = mutex /\ (Locked(c) <=> Locked(c)')
             \/ Binding(c) /\ mutex' = None /\ ~Locked(c)'
      BY <1>7, VisitWays
    <2> QED
      BY <1>1, <2>1, <2>2, <2>3
  <1>9. CASE Close(c)
    <2> DEFINE b == connections[key[c]]
    <2>1. /\ pc[c] = "close" /\ mutex = None /\ key[c] \in Keys /\ b \in Clients \cup {None}
          /\ doomed = None
      BY <1>0, <1>00, <1>9 DEF Close
    <2>0. \A d \in Clients : ~Closing(d) /\ ~Binding(d) /\ ~Locked(d)
      BY <1>W, <2>1
    <2>2. CASE b # None /\ LastOf(c, b)
      <3>1. /\ connections' = [connections EXCEPT ![key[c]] = None]
            /\ members' = [members EXCEPT ![b] = {}]
            /\ doomed' = b /\ mutex' = c /\ members[b] = {c}
            /\ pc'[c] = "find" /\ errand'[c] = "cut"
            /\ \A d \in Clients : d # c => pc'[d] = pc[d] /\ errand'[d] = errand[d]
            /\ UNCHANGED <<key, alive>>
        BY <1>0, <1>9, <2>2 DEF Close, LastOf
      <3> HIDE DEF b
      <3>2. b \in Clients /\ b # None /\ connections[key[c]] = b
        BY <2>1, <2>2 DEF b
      <3>3. /\ members'[b] = {} /\ \A d \in Clients : d # b => members'[d] = members[d]
            /\ connections'[key[c]] = None
            /\ \A j \in Keys : j # key[c] => connections'[j] = connections[j]
        BY <1>0, <2>1, <3>1, <3>2
      <3>0. \A d \in Clients : d # c =>
              /\ Accepted(d)' <=> Accepted(d)
              /\ ~Closing(d)' /\ ~Binding(d)'
        BY <1>O, <2>0, <3>1
      <3>00. ~Accepted(c)' /\ Closing(c)' /\ Locked(c)' /\ ~Binding(c)'
        BY <1>L, <3>1
      <3>4. /\ key[b] = key[c] /\ b \in alive
            /\ \A d \in Clients : d # b => c \notin members[d]
            /\ \A d \in Clients : d # b /\ members[d] # {} => key[d] # key[c]
        <4>1. key[b] = key[c] /\ b \in alive
          BY <1>M, <2>1, <3>2
        <4>2. \A d \in Clients : d # b /\ members[d] # {} => key[d] # key[c]
          BY <1>M, <3>2
        <4>3. \A d \in Clients : d # b => c \notin members[d]
          BY <1>M, <4>2
        <4> QED
          BY <4>1, <4>2, <4>3
      <3>5. Unmade' /\ Remains'
        BY <1>0, <1>00, <2>1, <3>1, <3>3
      <3>6. Backed'
        BY <1>0, <1>00, <3>1, <3>2, <3>3, <3>4
      <3>7. Membership'
        <4> SUFFICES ASSUME NEW d \in Clients, NEW e \in members'[d]
                     PROVE  /\ Accepted(e)' \/ pc'[e] = "close"
                            /\ key[e] = key[d]
                            /\ connections'[key[d]] = d /\ d \in alive
          BY <3>1 DEF Membership
        <4>1. /\ d # b /\ e \in members[d] /\ e # c /\ e \in Clients
              /\ key[d] # key[c] /\ key[e] = key[d] /\ key[e] \in Keys
          BY <1>0, <1>00, <1>W, <3>3, <3>4
        <4> QED
          BY <1>00, <3>0, <3>1, <3>3, <4>1
      <3>8. Joined' /\ Maker' /\ Emptied'
        <4> SUFFICES ASSUME NEW e \in Clients
                     PROVE  /\ Accepted(e)' => /\ connections'[key[e]] # None
                                               /\ e \in members'[connections'[key[e]]]
                            /\ Binding(e)' => connections'[key[e]] = e
                            /\ Closing(e)' => connections'[key[e]] = None
          BY <3>1 DEF Joined, Maker, Emptied
        <4>3. CASE Accepted(e)'
          <5>1. /\ e # c /\ Accepted(e) /\ key[e] \in Keys
                /\ connections[key[e]] # None /\ e \in members[connections[key[e]]]
                /\ connections[key[e]] \in Clients
            BY <1>0, <1>00, <1>W, <3>0, <3>00, <4>3
          <5>2. key[e] # key[c] /\ connections[key[e]] # b
            BY <1>00, <3>1, <3>2, <3>4, <5>1
          <5> QED
            BY <1>00, <3>0, <3>3, <5>1, <5>2
        <4> QED
          BY <3>0, <3>00, <3>3, <4>3
      <3>9. Dooming' /\ Owned'
        BY <3>00, <3>1, <3>2, <3>3, <3>4
      <3> QED
        BY <3>5, <3>6, <3>7, <3>8, <3>9 DEF Sharing
    <2>3. CASE ~(b # None /\ LastOf(c, b))
      <3>1. /\ members' = [d \in Clients |-> IF d = b THEN members[d] \ {c}
                                                     ELSE members[d]]
            /\ pc' = [pc EXCEPT ![c] = "gone"]
            /\ UNCHANGED <<errand, key, alive, connections, doomed, mutex>>
            /\ b # None => members[b] # {c}
        BY <1>9, <2>3 DEF Close, LastOf
      <3> HIDE DEF b
      <3>2. connections[key[c]] = b
        BY DEF b
      <3>3. /\ pc'[c] = "gone" /\ \A d \in Clients : d # c => pc'[d] = pc[d]
            /\ \A d \in Clients : members'[d] \subseteq members[d]
            /\ \A d \in Clients : d # b => members'[d] = members[d]
            /\ b \in Clients => members'[b] = members[b] \ {c}
        BY <1>0, <3>1
      <3>0. \A d \in Clients : d # c =>
              /\ Accepted(d)' <=> Accepted(d)
              /\ ~Closing(d)' /\ ~Binding(d)'
        BY <1>O, <2>0, <3>1, <3>3
      <3>00. ~Accepted(c)' /\ ~Closing(c)' /\ ~Binding(c)'
        BY <1>L, <3>3
      <3>4. \A d \in Clients : c \notin members'[d]
        BY <1>0, <1>00, <3>2, <3>3
      <3>5. \A d \in Clients : members[d] # {} => members'[d] # {}
        BY <2>1, <3>1, <3>3
      <3>6. Unmade' /\ Backed' /\ Remains' /\ Dooming' /\ Owned'
        BY <1>0, <1>00, <2>1, <3>1, <3>3, <3>5
      <3>7. Membership'
        BY <1>0, <1>00, <3>0, <3>1, <3>3, <3>4
      <3>8. Joined' /\ Maker' /\ Emptied'
        BY <1>0, <1>00, <1>W, <3>0, <3>00, <3>1, <3>3
      <3> QED
        BY <3>6, <3>7, <3>8 DEF Sharing
    <2> QED
      BY <2>2, <2>3
  <1>10. CASE Free(c)
    <2>1. /\ pc[c] = "free" /\ alive' = alive \ {doomed} /\ doomed' = None /\ mutex' = None
          /\ pc'[c] = "gone" /\ \A d \in Clients : d # c => pc'[d] = pc[d]
          /\ UNCHANGED <<errand, key, connections, members>>
      BY <1>0, <1>10 DEF Free
    <2>2. \A d \in Clients : members[d] # {} => d # doomed
      BY <1>00
    <2>3. /\ \A d \in Clients : d # c =>
               /\ Accepted(d)' <=> Accepted(d)
               /\ Closing(d)' <=> Closing(d)
               /\ Binding(d)' <=> Binding(d)
          /\ ~Accepted(c)' /\ ~Closing(c)' /\ ~Binding(c)' /\ Closing(c)
      BY <1>O, <1>L, <2>1 DEF Closing
    <2>4. Unmade' /\ Backed' /\ Remains' /\ Dooming' /\ Owned'
      BY <1>0, <1>00, <2>1, <2>2
    <2>5. Membership'
      BY <1>0, <1>00, <1>W, <2>1, <2>2, <2>3
    <2>6. Joined' /\ Maker' /\ Emptied'
      BY <1>0, <1>00, <2>1, <2>3
    <2> QED
      BY <2>4, <2>5, <2>6 DEF Sharing
  <1> QED
    BY <1>3, <1>4, <1>5, <1>6, <1>7, <1>9, <1>10 DEF Client

LEMMA SharingInvariance == Spec => [](Types /\ Sharing)
  <1>1. Types /\ Types' /\ Sharing /\ [Next]_vars => Sharing'
    <2> SUFFICES ASSUME Types, Types', Sharing, [Next]_vars PROVE Sharing'
      OBVIOUS
    <2>1. CASE UNCHANGED clientVars
      BY <2>1
      DEF Sharing, Unmade, Backed, Membership, Joined, Maker, Emptied, Remains,
          Dooming, Owned, clientVars, Accepted, Binding, Closing, Locked
    <2>2. ASSUME NEW c \in Clients, Client(c) PROVE Sharing'
      BY <2>2, ClientSharing
    <2> QED
      BY <2>1, <2>2, StepIs, GuiFrame DEF vars
  <1> QED
    BY <1>1, InitTypes, InitSharing, TypesStep, PTL DEF Spec

(* handleInitialize() and the "close:" of a client's thread keep the       *)
(* backend of a key exactly as long as somebody uses it.                   *)
THEOREM Lives == Spec => []BackendLives
  <1> QED
    BY SharingInvariance, SharingIs, PTL

-----------------------------------------------------------------------------
(* What is registered, looked up and shown.                                *)

(* The types once more, as they are used from here on.                     *)
LEMMA Kinds ==
  ASSUME Types
  PROVE  /\ ctl \in Nat /\ born \in Nat /\ fbid \in Keys \cup {None}
         /\ pc \in [Clients -> Label] /\ errand \in [Clients -> Errand]
         /\ held \in [Clients -> 0 .. MaxControllers]
         /\ key \in [Clients -> Keys \cup {None}]
         /\ framebuffers \in [Keys -> {Absent} \cup 0 .. MaxControllers]
         /\ connections \in [Keys -> Clients \cup {None}]
         /\ mutex \in Clients \cup {None} /\ doomed \in Clients \cup {None}
         /\ image \in Clients \cup {None} /\ found \in Clients \cup {None}
         /\ queue \in Seq(Call)
         /\ \A e \in Clients : pc[e] # "off" => key[e] \in Keys
         /\ gui \in {"register", "emplace", "look", "take", "deref", "attach"}
              => fbid \in Keys
  BY Bounds DEF Types, ClientOK, GuiOK, KeyKnown, FbidKnown

AtController == {"test", "await", "write", "post"}

(* Controllers are numbered as they are created, and only the one that is  *)
(* on the screen is registered, for its own key.                           *)
Numbered ==
    /\ ctl <= born /\ \A c \in Clients : held[c] <= born
    /\ ctl = Null => fbid = None
    /\ \A k \in Keys : framebuffers[k] \notin {Absent, Null} =>
         framebuffers[k] = ctl /\ k = fbid /\ gui # "dying"
(* The backend that the GUI thread has looked up is one of the key.        *)
Found == gui \in {"deref", "attach"} =>
    found # None /\ pc[found] # "off" /\ key[found] = fbid
Attaches == gui = "attach" => framebuffers[fbid] = ctl /\ ctl # Null
(* Unless the controller moves, it stays registered for the key of every   *)
(* thread that has looked it up, ...                                       *)
Using(c) == pc[c] \in AtController /\ held[c] = ctl /\ ctl # Null
Registered == "moved" \notin races /\ gui # "dying" =>
    \A c \in Clients : Using(c) => fbid = key[c] /\ framebuffers[key[c]] = ctl
(* ... and as long as it has an image.                                     *)
Shown == "moved" \notin races /\ gui # "dying" /\ ~misused /\ image # None =>
    fbid \in Keys /\ framebuffers[fbid] = ctl
Standing == Numbered /\ Found /\ Attaches /\ Registered /\ Shown

LEMMA InitStanding == Init => Standing
  BY Bounds
  DEF Init, Standing, Numbered, Found, Attaches, Registered, Shown, Using, AtController

(* Most steps of the GUI thread, and those of the scene graph, change      *)
(* nothing of this.                                                        *)
Plain == /\ UNCHANGED <<framebuffers, image, ctl, born, fbid, found>>
         /\ gui' = gui \/ {gui, gui'} \cap {"deref", "attach", "dying"} = {}

LEMMA GuiCases ==
  ASSUME GuiStep
  PROVE  \/ \E k \in Keys \cup {None} : SetFramebufferID(k)
         \/ Create \/ Destroy \/ Vanish \/ Emplace \/ Take \/ Deref \/ Attach \/ Erase
         \/ Plain
  <1> USE DEF guiVars, sharedVars, On, Idle
  <1>1. CASE Input \/ ForwardUserInput \/ Register \/ Look
    BY <1>1 DEF Input, ForwardUserInput, Register, Look, Plain
  <1>2. CASE HandleCheck \/ ReadImage \/ SetActive \/ MarkedUpdate
    BY <1>2 DEF HandleCheck, ReadImage, SetActive, MarkedUpdate, Plain
  <1>3. CASE Paint
    BY <1>3 DEF Paint, PaintBegin, PaintTest, PaintImage, PaintEnd, Plain
  <1> QED
    BY <1>1, <1>2, <1>3 DEF GuiStep, Handle

LEMMA Grown == [Next]_vars => races \subseteq races'
  <1> SUFFICES ASSUME [Next]_vars PROVE races \subseteq races'
    OBVIOUS
  <1> USE DEF Race, Uses
  <1>1. CASE UNCHANGED races
    BY <1>1
  <1>2. ASSUME NEW c \in Clients, Visit(c) PROVE races \subseteq races'
    BY <1>2 DEF Visit, Find, Fetch, Test, Await, Write, Post, sharedVars
  <1>3. ASSUME NEW c \in Clients, Client(c) PROVE races \subseteq races'
    BY <1>1, <1>2, <1>3 DEF Client, Join, Make, SendUpdate, End, Close, Free
  <1>4. CASE GuiStep
    <2>1. CASE Create \/ Vanish \/ Input \/ Handle
      BY <2>1
      DEF Create, Vanish, Input, Handle, ForwardUserInput, Register, Emplace, Look, Take,
          Deref, Attach, HandleCheck, Erase, ReadImage, SetActive, MarkedUpdate
    <2>2. CASE Paint
      BY <2>2 DEF Paint, PaintBegin, PaintTest, PaintImage, PaintEnd
    <2>3. ASSUME NEW k \in Keys \cup {None}, SetFramebufferID(k)
          PROVE  races \subseteq races'
      BY <2>3 DEF SetFramebufferID
    <2>4. CASE Destroy
      BY <2>4 DEF Destroy
    <2> QED
      BY <1>4, <2>1, <2>2, <2>3, <2>4 DEF GuiStep
  <1> QED
    BY <1>1, <1>3, <1>4, StepIs DEF vars

(* A client's step that is none of an errand leaves the rest alone.        *)
Apart(c) == /\ UNCHANGED <<held, guiVars, itemVars, sharedVars, races, misused>>
            /\ pc'[c] \notin AtController
            /\ pc[c] # "off" => key'[c] = key[c]

LEMMA ClientCases ==
  ASSUME Types, NEW c \in Clients, Client(c)
  PROVE  /\ Visit(c) \/ Apart(c)
         /\ pc'[c] # "off"
         /\ \A d \in Clients : d # c =>
              pc'[d] = pc[d] /\ errand'[d] = errand[d] /\ held'[d] = held[d] /\ key'[d] = key[d]
  <1> USE DEF Goto, Visits, At, AtController, Apart
  <1>0. pc \in [Clients -> Label] /\ key \in [Clients -> Keys \cup {None}]
        /\ errand \in [Clients -> Errand]
    BY DEF Types, ClientOK
  <1>1. CASE Visit(c)
    <2>1. pc'[c] \in Visiting \cup {"free", "up"}
      BY <1>1, Visited DEF Continues, Finishes
    <2> QED
      BY <1>1, <2>1, Visited DEF Visiting
  <1>2. ASSUME NEW k \in Keys, Join(c, k) \/ Make(c, k)
        PROVE  /\ Apart(c) /\ pc'[c] # "off"
               /\ \A d \in Clients : d # c =>
                    pc'[d] = pc[d] /\ errand'[d] = errand[d] /\ held'[d] = held[d]
                    /\ key'[d] = key[d]
    BY <1>0, <1>2 DEF Join, Make
  <1>3. CASE SendUpdate(c) \/ End(c) \/ Free(c)
    BY <1>0, <1>3 DEF SendUpdate, End, Free
  <1>4. CASE Close(c)
    <2>1. pc'[c] \in {"find", "gone"} /\ \A d \in Clients : d # c =>
               pc'[d] = pc[d] /\ errand'[d] = errand[d]
      BY <1>0, <1>4 DEF Close
    <2>2. UNCHANGED <<key, held, guiVars, itemVars, sharedVars, races, misused>>
      BY <1>4 DEF Close
    <2> QED
      BY <2>1, <2>2
  <1> QED
    BY <1>1, <1>2, <1>3, <1>4 DEF Client

(* What a thread holds when it is at the controller.                       *)
LEMMA VisitHolds ==
  ASSUME Types, NEW c \in Clients, Visit(c)
  PROVE  \/ /\ Fetch(c) /\ pc'[c] = "test" /\ key[c] \in Keys
            /\ held'[c] = framebuffers'[key[c]]
            /\ framebuffers'[key[c]] = (IF framebuffers[key[c]] = Absent THEN Null
                                                        ELSE framebuffers[key[c]])
            /\ \A k \in Keys : k # key[c] => framebuffers'[k] = framebuffers[k]
            /\ UNCHANGED <<image, queue, misused, errand, mutex>>
         \/ /\ ~Fetch(c) /\ framebuffers' = framebuffers
            /\ \/ pc'[c] \notin AtController /\ held'[c] \in {held[c], Null}
               \/ /\ pc[c] \in AtController /\ pc'[c] \in AtController
                  /\ held'[c] = held[c]
  <1>0. /\ pc \in [Clients -> Label] /\ held \in [Clients -> 0 .. MaxControllers]
        /\ framebuffers \in [Keys -> {Absent} \cup 0 .. MaxControllers]
        /\ pc[c] # "off" => key[c] \in Keys
        /\ errand[c] \in Errand /\ (pc[c] \in Visiting => errand[c] # "none")
    BY DEF Types, ClientOK, GuiOK, KeyKnown, Errands
  <1> USE DEF At, Goto, AtController, Visiting
  <1>1. CASE Fetch(c)
    BY <1>0, <1>1 DEF Fetch
  <1>2. Done(c) => pc'[c] \notin AtController /\ held'[c] = Null
    BY <1>0 DEF Done
  <1>3. CASE Find(c)
    BY <1>0, <1>2, <1>3 DEF Find, Fetch, sharedVars
  <1>4. CASE Test(c)
    <2>1. pc[c] = "test" /\ framebuffers' = framebuffers /\ ~Fetch(c)
      BY <1>4 DEF Test, sharedVars, Fetch
    <2>2. CASE Done(c)
      BY <1>2, <2>1, <2>2
    <2>3. CASE Goto(c, Onward(c)) /\ UNCHANGED held
      <3>1. Onward(c) \in {"write", "post", "await"}
        BY <1>0, <2>1 DEF Onward, Errand
      <3> QED
        BY <1>0, <2>1, <2>3, <3>1
    <2> QED
      BY <1>4, <2>2, <2>3 DEF Test
  <1>5. CASE Await(c) \/ Write(c)
    BY <1>0, <1>5 DEF Await, Write, Fetch, sharedVars
  <1>6. CASE Post(c)
    BY <1>0, <1>2, <1>6 DEF Post, Fetch
  <1> QED
    BY <1>1, <1>3, <1>4, <1>5, <1>6 DEF Visit

LEMMA NumberedStep ==
  ASSUME Types, Types', Numbered, [Next]_vars PROVE Numbered'
  <1> USE Bounds DEF Numbered, clientVars, guiVars, sharedVars, On, Idle
  <1>N. /\ born' \in 0 .. MaxControllers /\ held' \in [Clients -> 0 .. MaxControllers]
    BY DEF Types, ClientOK, GuiOK
  <1>0. /\ ctl \in Nat /\ born \in Nat /\ born' \in Nat
        /\ held \in [Clients -> 0 .. MaxControllers]
        /\ held' \in [Clients -> 0 .. MaxControllers]
        /\ fbid \in Keys \cup {None}
        /\ framebuffers \in [Keys -> {Absent} \cup 0 .. MaxControllers]
    BY <1>N, Kinds
  <1>1. CASE UNCHANGED vars
    BY <1>1 DEF vars
  <1>2. ASSUME NEW c \in Clients, Client(c) PROVE Numbered'
    <2>1. CASE Apart(c)
      BY <2>1 DEF Apart
    <2>2. CASE Visit(c)
      <3>1. UNCHANGED <<ctl, born, fbid, gui>> /\ \A d \in Clients : d # c => held'[d] = held[d]
        BY <1>2, <2>2, Visited
      <3>2. \A k \in Keys : framebuffers'[k] \in {framebuffers[k], Null}
        BY <1>0, <2>2, VisitHolds
      <3>3. held'[c] <= born
        <4>1. CASE Fetch(c)
          <5>1. key[c] \in Keys /\ held'[c] \in {Null, framebuffers[key[c]]}
                /\ (held'[c] = framebuffers[key[c]] => framebuffers[key[c]] # Absent)
            BY <1>0, <2>2, <4>1, VisitHolds
          <5> QED
            BY <1>0, <5>1
        <4>2. CASE ~Fetch(c)
          <5>1. held'[c] \in {held[c], Null}
            BY <2>2, <4>2, VisitHolds
          <5> QED
            BY <1>0, <5>1
        <4> QED
          BY <4>1, <4>2
      <3> QED
        BY <1>0, <3>1, <3>2, <3>3
    <2> QED
      BY <1>2, <2>1, <2>2, ClientCases
  <1>3. CASE GuiStep
    <2>0. held' = held
      BY <1>3, GuiFrame
    <2>1. CASE Plain
      BY <2>0, <2>1 DEF Plain
    <2>2. ASSUME NEW k \in Keys \cup {None}, SetFramebufferID(k) PROVE Numbered'
      <3>1. /\ ctl # Null /\ ctl' = ctl /\ born' = born
            /\ framebuffers' = [j \in Keys |-> IF j = fbid THEN Absent ELSE framebuffers[j]]
        BY <2>2 DEF SetFramebufferID, Unregistered
      <3>2. \A j \in Keys : framebuffers'[j] \in {Absent, Null}
        BY <1>0, <3>1
      <3> QED
        BY <2>0, <3>1, <3>2
    <2>3. CASE Destroy
      <3>1. /\ UNCHANGED <<ctl, born, fbid>>
            /\ framebuffers' = [j \in Keys |-> IF j = fbid THEN Absent ELSE framebuffers[j]]
        BY <2>3 DEF Destroy, Unregistered
      <3>2. \A j \in Keys : framebuffers'[j] \in {Absent, Null}
        BY <1>0, <3>1
      <3> QED
        BY <2>0, <3>1, <3>2
    <2>4. CASE Create
      <3>1. ctl = Null /\ ctl' = born + 1 /\ born' = born + 1 /\ framebuffers' = framebuffers
        BY <2>4 DEF Create
      <3>2. \A j \in Keys : framebuffers[j] \in {Absent, Null}
        BY <1>0, <3>1
      <3>3. \A d \in Clients : held[d] \in Nat /\ held[d] <= born
        BY <1>0
      <3> QED
        BY <1>0, <2>0, <3>1, <3>2, <3>3
    <2>5. CASE Vanish
      BY <1>0, <2>0, <2>5 DEF Vanish
    <2>6. CASE Emplace
      <3>1. /\ UNCHANGED <<ctl, born, fbid>> /\ fbid \in Keys /\ gui' = "look" /\ gui = "emplace"
            /\ framebuffers' = [framebuffers EXCEPT ![fbid] = IF @ = Absent THEN ctl ELSE @]
        BY <2>6 DEF Emplace, Types, FbidKnown
      <3> QED
        BY <1>0, <2>0, <3>1
    <2>7. CASE Take \/ Deref \/ Attach \/ Erase
      BY <2>0, <2>7 DEF Take, Deref, Attach, Erase
    <2> QED
      BY <1>3, <2>1, <2>2, <2>3, <2>4, <2>5, <2>6, <2>7, GuiCases
  <1> QED
    BY <1>1, <1>2, <1>3, StepIs

LEMMA FoundStep ==
  ASSUME Types, Sharing, Found, [Next]_vars PROVE Found'
  <1> USE Bounds DEF Found, clientVars, guiVars, On, Idle
  <1>1. CASE UNCHANGED vars
    BY <1>1 DEF vars
  <1>2. ASSUME NEW c \in Clients, Client(c) PROVE Found'
    <2>1. UNCHANGED <<gui, found, fbid>> /\ pc'[c] # "off" /\ (pc[c] # "off" => key'[c] = key[c])
      BY <1>2, ClientCases, Visited DEF Apart
    <2>2. \A d \in Clients : d # c => pc'[d] = pc[d] /\ key'[d] = key[d]
      BY <1>2, ClientCases
    <2>3. found \in Clients \cup {None}
      BY DEF Types, GuiOK
    <2> QED
      BY <2>1, <2>2, <2>3
  <1>3. CASE GuiStep
    <2>0. pc' = pc /\ key' = key
      BY <1>3, GuiFrame
    <2>1. CASE Plain
      BY <2>0, <2>1 DEF Plain
    <2>2. ASSUME NEW k \in Keys \cup {None}, SetFramebufferID(k) PROVE Found'
      BY <2>2 DEF SetFramebufferID
    <2>3. CASE Create \/ Destroy \/ Vanish \/ Emplace \/ Attach \/ Erase
      BY <2>3 DEF Create, Destroy, Vanish, Emplace, Attach, Erase
    <2>4. CASE Take
      <3>1. /\ fbid \in Keys /\ found' = connections[fbid] /\ fbid' = fbid
            /\ gui' = (IF found' = None THEN "idle" ELSE "deref")
        BY <2>4 DEF Take, Types, FbidKnown
      <3>2. connections[fbid] \in Clients \cup {None}
        BY <3>1 DEF Types, ClientOK
      <3>3. found' # None => pc[found'] # "off" /\ key[found'] = fbid
        BY <3>1, <3>2 DEF Sharing, Backed, Unmade
      <3> QED
        BY <2>0, <3>1, <3>3
    <2>5. CASE Deref
      BY <2>0, <2>5 DEF Deref
    <2> QED
      BY <1>3, <2>1, <2>2, <2>3, <2>4, <2>5, GuiCases
  <1> QED
    BY <1>1, <1>2, <1>3, StepIs

LEMMA AttachesStep ==
  ASSUME Types, Numbered, Attaches, [Next]_vars PROVE Attaches'
  <1> USE Bounds DEF Attaches, guiVars, sharedVars, On, Idle
  <1>1. CASE UNCHANGED vars
    BY <1>1 DEF vars
  <1>0. gui = "attach" => fbid \in Keys
    BY DEF Types, FbidKnown
  <1>2. ASSUME NEW c \in Clients, Client(c) PROVE Attaches'
    <2>1. CASE Apart(c)
      BY <2>1 DEF Apart
    <2>2. CASE Visit(c)
      <3>1. UNCHANGED <<ctl, fbid, gui>>
        BY <2>2, Visited
      <3>2. \A k \in Keys : framebuffers[k] # Absent => framebuffers'[k] = framebuffers[k]
        BY <2>2, VisitHolds
      <3>3. ctl \in Nat
        BY DEF Types, GuiOK
      <3> QED
        BY <1>0, <3>1, <3>2, <3>3
    <2> QED
      BY <1>2, <2>1, <2>2, ClientCases
  <1>3. CASE GuiStep
    <2>1. CASE Plain
      BY <2>1 DEF Plain
    <2>2. ASSUME NEW k \in Keys \cup {None}, SetFramebufferID(k) PROVE Attaches'
      BY <2>2 DEF SetFramebufferID
    <2>3. CASE Create \/ Destroy \/ Vanish \/ Emplace \/ Attach \/ Erase \/ Take
      BY <2>3 DEF Create, Destroy, Vanish, Emplace, Attach, Erase, Take
    <2>4. CASE Deref
      <3>1. /\ fbid \in Keys /\ UNCHANGED <<ctl, fbid, framebuffers>>
            /\ gui' = "attach" => ~IsNull(framebuffers[fbid])
        BY <2>4 DEF Deref, Types, FbidKnown
      <3> QED
        BY <3>1 DEF IsNull
    <2> QED
      BY <1>3, <2>1, <2>2, <2>3, <2>4, GuiCases
  <1> QED
    BY <1>1, <1>2, <1>3, StepIs

LEMMA RegisteredStep ==
  ASSUME Types, Numbered, Registered, [Next]_vars PROVE Registered'
  <1> USE Bounds DEF clientVars, guiVars, sharedVars, On, Idle
  <1> SUFFICES ASSUME "moved" \notin races', gui' # "dying",
                      NEW d \in Clients, Using(d)'
               PROVE  fbid' = key'[d] /\ framebuffers'[key'[d]] = ctl'
    BY DEF Registered
  <1>0. "moved" \notin races
    BY Grown
  <1>00. /\ ctl \in Nat /\ born \in Nat /\ fbid \in Keys \cup {None}
         /\ held \in [Clients -> 0 .. MaxControllers]
         /\ framebuffers \in [Keys -> {Absent} \cup 0 .. MaxControllers]
         /\ \A e \in Clients : pc[e] # "off" => key[e] \in Keys
         /\ \A e \in Clients : Using(e) => key[e] \in Keys
    BY DEF Types, ClientOK, GuiOK, KeyKnown, Using, AtController
  (* Whoever used it already, and nothing has been taken away.             *)
  <1>1. ASSUME Using(d), gui # "dying", UNCHANGED <<ctl, fbid>>, key'[d] = key[d],
               framebuffers[key[d]] # Absent =>
                  framebuffers'[key[d]] = framebuffers[key[d]]
        PROVE  fbid' = key'[d] /\ framebuffers'[key'[d]] = ctl'
    BY <1>0, <1>00, <1>1 DEF Registered
  <1>2. ASSUME NEW c \in Clients, Client(c)
        PROVE  fbid' = key'[d] /\ framebuffers'[key'[d]] = ctl'
    <2>1. UNCHANGED <<ctl, gui, fbid>>
      BY <1>2, ClientCases, Visited DEF Apart
    <2>2. \A k \in Keys : framebuffers[k] # Absent => framebuffers'[k] = framebuffers[k]
      BY <1>2, ClientCases, VisitHolds DEF Apart
    <2>3. CASE d # c
      <3>1. Using(d) /\ key'[d] = key[d]
        BY <1>2, <2>1, <2>3, ClientCases DEF Using
      <3> QED
        BY <1>00, <1>1, <2>1, <2>2, <3>1
    <2>4. CASE d = c
      <3>1. Visit(c) /\ key'[c] = key[c]
        BY <1>2, <2>4, ClientCases, Visited DEF Apart, Using
      <3>2. CASE Fetch(c)
        <4>1. /\ key[c] \in Keys /\ held'[c] = framebuffers'[key[c]]
              /\ framebuffers'[key[c]] \in {Null, framebuffers[key[c]]}
              /\ framebuffers'[key[c]] # Absent
          BY <3>1, <3>2, VisitHolds
        <4>2. framebuffers'[key[c]] = ctl /\ ctl # Null
          BY <2>1, <2>4, <4>1 DEF Using
        <4> QED
          BY <2>1, <2>4, <3>1, <4>1, <4>2 DEF Numbered
      <3>3. CASE ~Fetch(c)
        <4>1. Using(c)
          BY <2>1, <2>4, <3>1, <3>3, VisitHolds DEF Using
        <4> QED
          BY <1>00, <1>1, <2>1, <2>2, <2>4, <3>1, <4>1
      <3> QED
        BY <3>2, <3>3
    <2> QED
      BY <2>3, <2>4
  <1>3. CASE GuiStep
    <2>0. UNCHANGED <<pc, key, held>>
      BY <1>3, GuiFrame
    <2>00. ctl' = ctl => Using(d)
      BY <2>0 DEF Using
    <2>1. CASE Plain
      BY <1>1, <2>0, <2>00, <2>1 DEF Plain
    <2>2. ASSUME NEW k \in Keys \cup {None}, SetFramebufferID(k)
          PROVE  fbid' = key'[d] /\ framebuffers'[key'[d]] = ctl'
      <3>1. fbid = None /\ ctl' = ctl /\ gui = "idle"
        BY <2>2 DEF SetFramebufferID, Race
      <3>2. Using(d) /\ fbid = key[d]
        BY <1>0, <2>00, <3>1 DEF Registered
      <3> QED
        BY <1>00, <3>1, <3>2
    <2>3. CASE Create
      <3>1. ctl' = born + 1 /\ held[d] <= born
        BY <2>3 DEF Create, Numbered
      <3> QED
        BY <1>00, <2>0, <3>1 DEF Using
    <2>4. CASE Vanish
      BY <2>4 DEF Vanish, Using
    <2>5. CASE Emplace
      <3>1. /\ fbid \in Keys /\ UNCHANGED <<ctl, fbid>> /\ gui = "emplace"
            /\ framebuffers' = [framebuffers EXCEPT ![fbid] = IF @ = Absent THEN ctl ELSE @]
        BY <2>5 DEF Emplace, Types, FbidKnown
      <3>2. framebuffers[key[d]] # Absent => framebuffers'[key[d]] = framebuffers[key[d]]
        BY <1>00, <2>00, <3>1
      <3> QED
        BY <1>1, <2>0, <2>00, <3>1, <3>2
    <2>6. CASE Take \/ Deref \/ Attach \/ Erase
      <3>1. UNCHANGED <<ctl, fbid, framebuffers>> /\ gui # "dying"
        BY <2>6 DEF Take, Deref, Attach, Erase
      <3> QED
        BY <1>1, <2>0, <2>00, <3>1
    <2>7. CASE Destroy
      BY <2>7 DEF Destroy
    <2> QED
      BY <1>3, <2>1, <2>2, <2>3, <2>4, <2>5, <2>6, <2>7, GuiCases
  <1>4. CASE UNCHANGED vars
    <2>1. UNCHANGED <<ctl, fbid, framebuffers, gui, key, pc, held>>
      BY <1>4 DEF vars
    <2>2. Using(d)
      BY <2>1 DEF Using
    <2> QED
      BY <1>1, <2>1, <2>2
  <1> QED
    BY <1>2, <1>3, <1>4, StepIs

LEMMA ShownStep ==
  ASSUME Types, Types', Numbered, Attaches, Registered, Shown, [Next]_vars PROVE Shown'
  <1> USE Bounds DEF clientVars, guiVars, sharedVars, On, Idle
  <1> SUFFICES ASSUME "moved" \notin races', gui' # "dying", ~misused', image' # None
               PROVE  fbid' \in Keys /\ framebuffers'[fbid'] = ctl'
    BY DEF Shown
  <1>M. "moved" \notin races
    BY Grown
  <1>0. /\ ctl \in Nat /\ fbid \in Keys \cup {None}
        /\ framebuffers \in [Keys -> {Absent} \cup 0 .. MaxControllers]
        /\ \A e \in Clients : pc[e] # "off" => key[e] \in Keys
        /\ gui = "attach" => fbid \in Keys
    BY Kinds
  (* The image was there, and nothing has been taken away.                 *)
  <1>1. ASSUME ~misused, gui # "dying", image # None, UNCHANGED <<ctl, fbid>>,
               \A k \in Keys : framebuffers[k] # Absent => framebuffers'[k] = framebuffers[k]
        PROVE  fbid' \in Keys /\ framebuffers'[fbid'] = ctl'
    BY <1>M, <1>0, <1>1 DEF Shown
  <1>2. ASSUME NEW c \in Clients, Client(c)
        PROVE  fbid' \in Keys /\ framebuffers'[fbid'] = ctl'
    <2>1. CASE Apart(c)
      BY <1>1, <2>1 DEF Apart
    <2>2. CASE Visit(c)
      <3>1. /\ ~misused /\ UNCHANGED <<ctl, gui, fbid>>
            /\ \A k \in Keys : framebuffers[k] # Absent => framebuffers'[k] = framebuffers[k]
        BY <2>2, Visited, VisitHolds
      <3>2. CASE image' = image
        BY <1>1, <3>1, <3>2
      <3>3. CASE image' # image
        <4>1. Write(c)
          BY <2>2, <3>3 DEF Visit, Find, Fetch, Test, Await, Post
        <4>2. /\ pc[c] = "write" /\ misused' = (misused \/ Dead(held[c]))
              /\ framebuffers' = framebuffers
          BY <4>1 DEF Write, At, Uses
        <4>3. ~Dead(held[c])
          BY <4>2
        <4>4. Using(c) /\ gui # "dying"
          BY <4>2, <4>3 DEF Dead, IsNull, Using, AtController
        <4> QED
          BY <1>M, <1>0, <3>1, <4>2, <4>4 DEF Registered
      <3> QED
        BY <3>2, <3>3
    <2> QED
      BY <1>2, <2>1, <2>2, ClientCases
  <1>3. CASE GuiStep
    <2>0. ~misused
      BY <1>3, GuiFrame
    <2>1. CASE Plain
      <3>1. gui # "dying"
        BY <2>1 DEF Plain
      <3> QED
        BY <1>1, <2>0, <2>1, <3>1 DEF Plain
    <2>2. ASSUME NEW k \in Keys \cup {None}, SetFramebufferID(k)
          PROVE  fbid' \in Keys /\ framebuffers'[fbid'] = ctl'
      <3>1. fbid = None /\ image' = image /\ gui = "idle"
        BY <2>2 DEF SetFramebufferID, Race
      <3> QED
        BY <1>M, <2>0, <3>1 DEF Shown
    <2>3. CASE Create
      <3>1. fbid = None /\ image' = image /\ gui = "idle"
        BY <2>3 DEF Create, Numbered
      <3> QED
        BY <1>M, <2>0, <3>1 DEF Shown
    <2>4. CASE Destroy \/ Vanish \/ Erase
      BY <2>4 DEF Destroy, Vanish, Erase
    <2>5. CASE Emplace
      <3>1. /\ fbid \in Keys /\ UNCHANGED <<ctl, fbid, image>> /\ gui = "emplace"
            /\ framebuffers' = [framebuffers EXCEPT ![fbid] = IF @ = Absent THEN ctl ELSE @]
        BY <2>5 DEF Emplace, Types, FbidKnown
      <3> QED
        BY <1>0, <1>1, <2>0, <3>1
    <2>6. CASE Take \/ Deref
      <3>1. UNCHANGED <<ctl, fbid, framebuffers, image>> /\ gui # "dying"
        BY <2>6 DEF Take, Deref
      <3> QED
        BY <1>1, <2>0, <3>1
    <2>7. CASE Attach
      BY <1>0, <2>7 DEF Attach, Attaches
    <2> QED
      BY <1>3, <2>1, <2>2, <2>3, <2>4, <2>5, <2>6, <2>7, GuiCases
  <1>4. CASE UNCHANGED vars
    BY <1>M, <1>1, <1>4 DEF vars, Shown
  <1> QED
    BY <1>2, <1>3, <1>4, StepIs

LEMMA StandingStep == Types /\ Types' /\ Sharing /\ Standing /\ [Next]_vars => Standing'
  BY NumberedStep, FoundStep, AttachesStep, RegisteredStep, ShownStep DEF Standing

-----------------------------------------------------------------------------
(* What is used is alive.                                                  *)

Calm == races \cap {"moved", "late", "painted", "ended"} = {}

(* A thread that has found the controller not null can use it.             *)
Holds == Calm => \A c \in Clients : pc[c] \in {"await", "write", "post"} =>
    held[c] = ctl /\ ctl # Null /\ gui # "dying"
(* A thread that will change the image of the controller of its key.       *)
OnTheWay(c, what) ==
    /\ errand[c] = what /\ key[c] = fbid
    /\ pc[c] \in {"find", "fetch"} \/ (pc[c] \in {"test", "await", "write"} /\ held[c] = ctl)
(* The image is of the backend of the key, or is about to be taken away.   *)
Leaving(b) == b = doomed /\ mutex \in Clients /\ OnTheWay(mutex, "cut")
Shows == Calm /\ image # None /\ gui # "dying" =>
    image = connections[fbid] \/ Leaving(image)
(* A paint draws the image of the controller, which nobody takes away.     *)
Paints == brush # "idle" =>
    /\ midPaint /\ gui = "idle"
    /\ Calm => /\ \A c \in Clients : ~(pc[c] = "write" /\ errand[c] = "cut")
               /\ brush = "seen" => image # None
               /\ brush \in Clients => image = brush
Unharmed == misused => ~Calm
Showing == Holds /\ Shows /\ Paints /\ Unharmed

LEMMA ImageAlive ==
  ASSUME Types, Sharing, Standing, Shows, Calm, ~misused, image # None, gui # "dying"
  PROVE  image \in alive
  <1>1. fbid \in Keys /\ (image = connections[fbid] \/ Leaving(image))
    BY DEF Standing, Shown, Shows, Calm
  <1> QED
    BY <1>1, Bounds DEF Leaving, Sharing, Backed, Dooming

LEMMA ShowingIs == Types /\ Sharing /\ Standing /\ Showing => DeadOnlyByRace
  <1> SUFFICES ASSUME Types, Sharing, Standing, Showing, Calm
               PROVE  ~misused /\ brush \in alive \cup {"idle", "begun", "seen", None}
    BY DEF DeadOnlyByRace, Calm
  <1>1. ~misused
    BY DEF Showing, Unharmed
  <1>2. ASSUME brush \in Clients PROVE brush \in alive
    <2>1. brush # "idle" /\ brush # None
      BY <1>2, Bounds
    <2>2. image = brush /\ gui = "idle"
      BY <1>2, <2>1 DEF Showing, Paints
    <2> QED
      BY <1>1, <2>1, <2>2, ImageAlive DEF Showing
  <1> QED
    BY <1>1, <1>2 DEF Types, GuiOK, Brush

LEMMA InitShowing == Init => Showing
  BY Bounds DEF Init, Showing, Holds, Shows, Paints, Unharmed

(* Only the write of a thread changes the image, and only a use of the     *)
(* controller may be one of a dead object.                                 *)
LEMMA VisitUses ==
  ASSUME Types, NEW c \in Clients, Visit(c)
  PROVE  /\ \/ image' = image
            \/ /\ pc[c] = "write" /\ errand[c] \in {"bind", "cut"}
               /\ image' = (IF errand[c] = "cut" THEN None ELSE c)
               /\ misused' = (misused \/ Dead(held[c]))
         /\ \/ misused' = misused
            \/ pc[c] \in {"await", "write", "post"} /\ misused' = (misused \/ Dead(held[c]))
  <1>0. pc[c] = "write" => errand[c] \in {"bind", "cut"}
    BY DEF Types, Errands, ClientOK, Errand, Visiting
  <1> USE DEF sharedVars, At, Uses
  <1>1. CASE Find(c) \/ Fetch(c) \/ Test(c)
    BY <1>1 DEF Find, Fetch, Test
  <1>2. CASE Await(c)
    BY <1>2 DEF Await
  <1>3. CASE Write(c)
    BY <1>0, <1>3 DEF Write
  <1>4. CASE Post(c)
    BY <1>4 DEF Post
  <1> QED
    BY <1>1, <1>2, <1>3, <1>4 DEF Visit

(* The ways of a thread to the uses of the controller.                     *)
LEMMA VisitGoes ==
  ASSUME Types, NEW c \in Clients, Visit(c)
  PROVE  /\ pc'[c] \in {"await", "write", "post"} /\ pc[c] \notin {"await", "write", "post"} =>
              Test(c) /\ ~IsNull(held[c]) /\ held'[c] = held[c]
              /\ (gui = "dying" => "ended" \in races')
         /\ pc'[c] = "write" =>
              errand'[c] = errand[c] /\ (errand[c] = "cut" => pc[c] = "await" /\ ~midPaint)
  <1>0. /\ pc \in [Clients -> Label] /\ errand[c] \in Errand /\ errand[c] # "none"
    BY Visited DEF Types, ClientOK
  <1> USE DEF At, Goto
  <1>1. CASE Find(c) \/ Fetch(c)
    BY <1>0, <1>1 DEF Find, Fetch, Done
  <1>2. CASE Test(c)
    <2>1. CASE Done(c)
      BY <1>0, <2>1 DEF Done
    <2>2. CASE /\ ~IsNull(held[c]) /\ Goto(c, Onward(c)) /\ UNCHANGED <<errand, mutex, held>>
               /\ Race("ended", gui = "dying")
      <3>1. errand[c] = "cut" => Onward(c) = "await"
        BY DEF Onward
      <3>2. Onward(c) \in {"await", "write", "post"} /\ pc'[c] = Onward(c)
        BY <1>0, <2>2 DEF Onward, Errand
      <3> QED
        BY <1>2, <2>2, <3>1, <3>2 DEF Race
    <2> QED
      BY <1>2, <2>1, <2>2 DEF Test
  <1>3. CASE Await(c)
    BY <1>0, <1>3 DEF Await
  <1>4. CASE Write(c)
    BY <1>0, <1>4 DEF Write
  <1>5. CASE Post(c)
    BY <1>0, <1>5 DEF Post, Done
  <1> QED
    BY <1>1, <1>2, <1>3, <1>4, <1>5 DEF Visit

LEMMA HoldsStep ==
  ASSUME Types, Numbered, Holds, [Next]_vars PROVE Holds'
  <1> USE Bounds DEF clientVars, guiVars, On, Idle
  <1> SUFFICES ASSUME Calm', NEW d \in Clients, pc'[d] \in {"await", "write", "post"}
               PROVE  held'[d] = ctl' /\ ctl' # Null /\ gui' # "dying"
    BY DEF Holds
  <1>C. Calm
    BY Grown DEF Calm
  <1>1. ASSUME NEW c \in Clients, Client(c)
        PROVE  held'[d] = ctl' /\ ctl' # Null /\ gui' # "dying"
    <2>1. UNCHANGED <<ctl, gui>>
      BY <1>1, ClientCases, Visited DEF Apart
    <2>2. CASE d # c
      BY <1>1, <1>C, <2>1, <2>2, ClientCases DEF Holds
    <2>3. CASE d = c
      <3>1. Visit(c)
        BY <1>1, <2>3, ClientCases DEF Apart, AtController
      <3>2. CASE pc[c] \in {"await", "write", "post"}
        <4>1. held'[c] = held[c]
          BY <2>3, <3>1, <3>2, VisitHolds DEF AtController, Fetch, At
        <4> QED
          BY <1>C, <2>1, <2>3, <3>2, <4>1 DEF Holds
      <3>3. CASE pc[c] \notin {"await", "write", "post"}
        BY <2>1, <2>3, <3>1, <3>3, VisitGoes DEF IsNull, Calm
      <3> QED
        BY <3>2, <3>3
    <2> QED
      BY <2>2, <2>3
  <1>2. CASE GuiStep
    <2>0. /\ UNCHANGED <<pc, held>> /\ held[d] = ctl /\ ctl # Null /\ gui # "dying"
      BY <1>2, <1>C, GuiFrame DEF Holds
    <2>1. CASE Plain
      BY <2>0, <2>1 DEF Plain
    <2>2. ASSUME NEW k \in Keys \cup {None}, SetFramebufferID(k)
          PROVE  held'[d] = ctl' /\ ctl' # Null /\ gui' # "dying"
      BY <2>0, <2>2 DEF SetFramebufferID
    <2>3. CASE Create \/ Vanish \/ Emplace \/ Take \/ Deref \/ Attach \/ Erase
      BY <2>0, <2>3 DEF Create, Vanish, Emplace, Take, Deref, Attach, Erase
    <2>4. CASE Destroy
      BY <2>0, <2>4 DEF Destroy, Race, Calm
    <2> QED
      BY <1>2, <2>1, <2>2, <2>3, <2>4, GuiCases
  <1>3. CASE UNCHANGED vars
    BY <1>3, <1>C DEF vars, Holds
  <1> QED
    BY <1>1, <1>2, <1>3, StepIs

LEMMA UnharmedStep ==
  ASSUME Types, Sharing, Standing, Showing, [Next]_vars PROVE Unharmed'
  <1> USE Bounds DEF clientVars, guiVars, sharedVars, On, Idle, Uses
  <1> SUFFICES ASSUME Calm' PROVE ~misused'
    BY DEF Unharmed
  <1>C. Calm /\ ~misused
    BY Grown DEF Calm, Showing, Unharmed
  <1>1. ASSUME NEW c \in Clients, Client(c) PROVE ~misused'
    <2>1. pc[c] \in {"await", "write", "post"} => ~Dead(held[c])
      BY <1>C DEF Showing, Holds, Dead, IsNull
    <2> QED
      BY <1>1, <1>C, <2>1, ClientCases, VisitUses DEF Apart
  <1>2. CASE GuiStep
    <2>1. CASE Take \/ Deref \/ Attach
      <3>1. fbid \in Keys
        BY <2>1 DEF Types, FbidKnown, Take, Deref, Attach
      <3>2. CASE Take
        BY <1>C, <3>2 DEF Take, Race, Calm
      <3>3. CASE Deref \/ Attach
        <4>1. found # None /\ connections[fbid] = found
          BY <3>3 DEF Deref, Attach, Race, Calm, Late, Standing, Found
        <4>2. found \in alive
          BY <3>1, <4>1 DEF Sharing, Backed
        <4> QED
          BY <1>C, <3>3, <4>2 DEF Deref, Attach
      <3> QED
        BY <2>1, <3>2, <3>3
    <2>2. CASE PaintImage
      BY <1>C, <2>2 DEF PaintImage, Showing, Paints
    <2>3. CASE PaintEnd
      <3>1. brush \in Clients => brush \in alive
        <4> SUFFICES ASSUME brush \in Clients PROVE brush \in alive
          OBVIOUS
        <4>1. brush # "idle" /\ brush # None
          OBVIOUS
        <4>2. image = brush /\ gui = "idle"
          BY <1>C, <4>1 DEF Showing, Paints
        <4> QED
          BY <1>C, <4>1, <4>2, ImageAlive DEF Showing
      <3> QED
        BY <1>C, <2>3, <3>1 DEF PaintEnd
    <2>4. CASE misused' = misused
      BY <1>C, <2>4
    <2> QED
      BY <1>2, <2>1, <2>2, <2>3, <2>4
      DEF GuiStep, SetFramebufferID, Create, Destroy, Input, Handle, ForwardUserInput,
          Register, Emplace, Look, HandleCheck, Erase, ReadImage, SetActive, MarkedUpdate,
          Vanish, Paint, PaintBegin, PaintTest
  <1>3. CASE UNCHANGED vars
    BY <1>3, <1>C DEF vars
  <1> QED
    BY <1>1, <1>2, <1>3, StepIs

LEMMA PaintsStep ==
  ASSUME Types, Sharing, Standing, Showing, [Next]_vars PROVE Paints'
  <1> USE Bounds DEF clientVars, guiVars, itemVars, On, Idle
  <1>K. Calm' => Calm /\ ~misused
    BY Grown DEF Calm, Showing, Unharmed
  <1>0. Paints
    BY DEF Showing
  <1>1. ASSUME NEW c \in Clients, Client(c) PROVE Paints'
    <2>1. UNCHANGED <<ctl, gui, fbid, brush, midPaint>>
      BY <1>1, ClientCases, Visited DEF Apart
    <2> SUFFICES ASSUME brush # "idle", Calm'
                 PROVE  /\ \A d \in Clients : ~(pc'[d] = "write" /\ errand'[d] = "cut")
                        /\ brush = "seen" => image' # None
                        /\ brush \in Clients => image' = brush
      BY <1>0, <2>1 DEF Paints
    <2>0. /\ Calm /\ ~misused /\ midPaint /\ gui = "idle"
          /\ \A d \in Clients : ~(pc[d] = "write" /\ errand[d] = "cut")
          /\ brush = "seen" => image # None
          /\ brush \in Clients => image = brush
      BY <1>0, <1>K DEF Paints
    <2>2. \A d \in Clients : ~(pc'[d] = "write" /\ errand'[d] = "cut")
      <3> SUFFICES ASSUME NEW d \in Clients, pc'[d] = "write", errand'[d] = "cut"
                   PROVE  FALSE
        OBVIOUS
      <3>1. d = c
        BY <1>1, <2>0, ClientCases
      <3>2. Visit(c)
        BY <1>1, <3>1, ClientCases DEF Apart, AtController
      <3> QED
        BY <2>0, <3>1, <3>2, VisitGoes
    <2>3. CASE image' = image
      BY <2>0, <2>2, <2>3
    <2>4. CASE image' # image
      <3>1. /\ Visit(c) /\ pc[c] = "write" /\ errand[c] \in {"bind", "cut"}
            /\ image' = (IF errand[c] = "cut" THEN None ELSE c)
        BY <1>1, <2>4, ClientCases, VisitUses DEF Apart, sharedVars
      <3>2. errand[c] = "bind" /\ image' = c
        BY <2>0, <3>1
      <3>3. connections[key[c]] = c /\ mutex = c
        <4>1. Binding(c)
          BY <3>1, <3>2 DEF Binding, Visiting
        <4> QED
          BY <4>1, Ways DEF Sharing, Maker
      <3>4. fbid = key[c]
        <4>1. Using(c)
          BY <2>0, <3>1 DEF Showing, Holds, Using, AtController
        <4> QED
          BY <2>0, <4>1 DEF Standing, Registered, Calm
      <3>5. brush \in Clients => image = c
        BY <2>0, <3>2, <3>3, <3>4 DEF Showing, Shows, Leaving, OnTheWay
      <3> QED
        BY <2>0, <2>2, <3>2, <3>5
    <2> QED
      BY <2>3, <2>4
  <1>2. CASE GuiStep
    <2>0. UNCHANGED <<pc, errand>> /\ image \in Clients \cup {None}
      BY <1>2, GuiFrame, Kinds
    <2>1. CASE brush = "idle"
      <3>1. CASE PaintBegin
        <4>1. /\ brush' = "begun" /\ midPaint' = TRUE /\ gui' = "idle" /\ image' = image
              /\ Race("painted", \E c \in Clients : pc[c] = "write" /\ errand[c] = "cut")
          BY <3>1 DEF PaintBegin, sharedVars
        <4>2. brush' \notin Clients /\ brush' # "seen"
          BY <4>1
        <4> QED
          BY <2>0, <4>1, <4>2 DEF Race, Paints, Calm
      <3>2. CASE brush' = brush
        BY <2>1, <3>2 DEF Paints
      <3> QED
        BY <1>2, <2>1, <3>1, <3>2
        DEF GuiStep, SetFramebufferID, Create, Destroy, Input, Handle, ForwardUserInput,
            Register, Emplace, Look, Take, Deref, Attach, HandleCheck, Erase, ReadImage,
            SetActive, MarkedUpdate, Vanish, Paint, PaintTest, PaintImage, PaintEnd
    <2>2. CASE brush # "idle"
      <3>0. gui = "idle" /\ midPaint
        BY <1>0, <2>2 DEF Paints
      <3>1. PaintTest \/ PaintImage \/ PaintEnd
        BY <1>2, <2>2, <3>0
        DEF GuiStep, SetFramebufferID, Create, Destroy, Input, Handle, ForwardUserInput,
            Register, Emplace, Look, Take, Deref, Attach, HandleCheck, Erase, ReadImage,
            SetActive, MarkedUpdate, Vanish, Paint, PaintBegin
      <3>2. CASE PaintEnd
        BY <3>2 DEF PaintEnd, Paints
      <3>3. CASE PaintTest \/ PaintImage
        <4>1. /\ UNCHANGED <<gui, midPaint, image>>
              /\ brush' = "seen" => image # None
              /\ brush' \in Clients => image = brush'
          BY <2>0, <3>3 DEF PaintTest, PaintImage, sharedVars
        <4> QED
          BY <1>0, <1>K, <2>0, <2>2, <3>0, <4>1 DEF Paints
      <3> QED
        BY <3>1, <3>2, <3>3
    <2> QED
      BY <2>1, <2>2
  <1>3. CASE UNCHANGED vars
    BY <1>0, <1>3 DEF vars, sharedVars, Paints, Calm
  <1> QED
    BY <1>1, <1>2, <1>3, StepIs

(* A thread on its way stays on it until it writes.                        *)
LEMMA WayStep ==
  ASSUME Types, NEW m \in Clients, NEW c \in Clients, Client(c), NEW what \in {"bind", "cut"},
         fbid \in Keys, framebuffers[fbid] = ctl, ctl # Null, OnTheWay(m, what)
  PROVE  OnTheWay(m, what)' \/ (c = m /\ Visit(c) /\ pc[m] = "write")
  <1> USE Bounds DEF OnTheWay
  <1>0. UNCHANGED <<ctl, fbid>>
    BY ClientCases, Visited DEF Apart, guiVars
  <1>1. CASE c # m
    BY <1>0, <1>1, ClientCases
  <1>2. CASE c = m
    <2>0. /\ pc \in [Clients -> Label] /\ held \in [Clients -> 0 .. MaxControllers]
          /\ ctl \in Nat
          /\ framebuffers \in [Keys -> {Absent} \cup 0 .. MaxControllers]
      BY Kinds
    <2>1. Visit(c)
      BY <1>2
      DEF Client, Join, Make, SendUpdate, End, Close, Free, At
    <2>2. key' = key
      BY <2>1, Visited
    <2> USE DEF At, Goto
    <2>3. CASE Find(c)
      BY <1>0, <1>2, <2>0, <2>2, <2>3 DEF Find
    <2>4. CASE Fetch(c)
      BY <1>0, <1>2, <2>0, <2>2, <2>4 DEF Fetch
    <2>5. CASE Test(c)
      <3>1. ~IsNull(held[c]) /\ pc[c] = "test"
        BY <1>2, <2>5 DEF Test, IsNull
      <3>2. Goto(c, Onward(c)) /\ UNCHANGED <<errand, mutex, held>>
        BY <2>5, <3>1 DEF Test
      <3>3. Onward(c) \in {"await", "write"}
        BY <1>2 DEF Onward
      <3> QED
        BY <1>0, <1>2, <2>0, <2>2, <3>1, <3>2, <3>3
    <2>6. CASE Await(c)
      BY <1>0, <1>2, <2>0, <2>2, <2>6 DEF Await
    <2>7. CASE Write(c) \/ Post(c)
      BY <1>2, <2>1, <2>7 DEF Write, Post
    <2> QED
      BY <2>1, <2>3, <2>4, <2>5, <2>6, <2>7 DEF Visit
  <1> QED
    BY <1>1, <1>2

LEMMA ShowsStep ==
  ASSUME Types, Sharing, Standing, Showing, [Next]_vars PROVE Shows'
  <1> USE Bounds DEF clientVars, guiVars, sharedVars, On, Idle
  <1> SUFFICES ASSUME Calm', image' # None, gui' # "dying"
               PROVE  image' = connections'[fbid'] \/ Leaving(image)'
    BY DEF Shows
  <1>C. Calm /\ ~misused
    BY Grown DEF Calm, Showing, Unharmed
  <1>1. ASSUME NEW c \in Clients, Client(c)
        PROVE  image' = connections'[fbid'] \/ Leaving(image)'
    <2>1. UNCHANGED <<ctl, gui, fbid>>
      BY <1>1, ClientCases, Visited DEF Apart
    <2>2. CASE image' = image
      <3>1. /\ fbid \in Keys /\ framebuffers[fbid] = ctl /\ ctl # Null
            /\ image = connections[fbid] \/ Leaving(image)
        BY <1>C, <2>1, <2>2 DEF Showing, Shows, Standing, Shown, Calm, Numbered
      <3>2. /\ connections \in [Keys -> Clients \cup {None}]
            /\ key \in [Clients -> Keys \cup {None}] /\ image \in Clients \cup {None}
            /\ pc \in [Clients -> Label] /\ errand \in [Clients -> Errand]
        BY Kinds
      <3>3. mutex = None => image = connections[fbid]
        BY <3>1 DEF Leaving
      <3>4. ASSUME NEW k \in Keys, Join(c, k) \/ Make(c, k)
            PROVE  connections'[fbid] = connections[fbid] /\ image = connections[fbid]
        <4>1. mutex = None
          BY <3>4 DEF Join, Make
        <4>2. \/ connections' = connections
              \/ connections[k] = None /\ connections' = [connections EXCEPT ![k] = c]
          BY <3>4 DEF Join, Make
        <4> QED
          BY <2>2, <3>1, <3>2, <3>3, <4>1, <4>2
      <3>5. CASE Close(c)
        <4> DEFINE b == connections[key[c]]
        <4>1. mutex = None
          BY <3>5 DEF Close
        <4>2. CASE b # None /\ LastOf(c, b)
          <5>1. /\ connections' = [connections EXCEPT ![key[c]] = None]
                /\ doomed' = b /\ mutex' = c /\ Visits(c, "cut") /\ key' = key
            BY <3>5, <4>2 DEF Close
          <5>2. CASE key[c] = fbid
            <6>1. doomed' = image /\ OnTheWay(c, "cut")'
              BY <2>1, <3>2, <3>3, <4>1, <5>1, <5>2 DEF OnTheWay, Visits, Goto
            <6>2. mutex' \in Clients /\ OnTheWay(mutex, "cut")'
              BY <2>1, <3>2, <5>1, <5>2 DEF OnTheWay, Visits, Goto
            <6> QED
              BY <2>2, <6>1, <6>2 DEF Leaving
          <5>3. CASE key[c] # fbid
            BY <2>1, <2>2, <3>1, <3>2, <3>3, <4>1, <5>1, <5>3
          <5> QED
            BY <5>2, <5>3
        <4>3. CASE ~(b # None /\ LastOf(c, b))
          BY <2>1, <2>2, <3>3, <3>5, <4>1, <4>3 DEF Close
        <4> QED
          BY <4>2, <4>3
      <3>6. CASE connections' = connections /\ (Leaving(image) => doomed' = doomed /\ mutex' = mutex)
        <4>1. CASE image = connections[fbid]
          BY <2>1, <2>2, <3>6, <4>1
        <4>2. CASE Leaving(image)
          <5>1. OnTheWay(mutex, "cut") /\ mutex \in Clients /\ image = doomed
            BY <4>2 DEF Leaving
          <5>2. ~(c = mutex /\ Visit(c) /\ pc[mutex] = "write")
            <6>1. SUFFICES ASSUME c = mutex, Visit(c), pc[mutex] = "write" PROVE FALSE
              OBVIOUS
            <6>2. Write(c) /\ errand[c] = "cut"
              BY <5>1, <6>1 DEF Visit, Find, Fetch, Test, Await, Post, At, OnTheWay
            <6> QED
              BY <6>2 DEF Write
          <5>3. \A m \in Clients : OnTheWay(m, "cut") =>
                    OnTheWay(m, "cut")' \/ (c = m /\ Visit(c) /\ pc[m] = "write")
            BY <1>1, <3>1, WayStep
          <5>4. mutex' = mutex /\ doomed' = doomed
            BY <3>6, <4>2
          <5>5. \E m \in Clients : m = mutex /\ OnTheWay(m, "cut")'
            BY <5>1, <5>2, <5>3
          <5>6. OnTheWay(mutex, "cut")'
            BY <5>4, <5>5 DEF OnTheWay
          <5> QED
            BY <2>2, <5>1, <5>4, <5>6 DEF Leaving
        <4> QED
          BY <3>1, <4>1, <4>2
      <3>7. CASE SendUpdate(c) \/ End(c)
        BY <3>6, <3>7 DEF SendUpdate, End
      <3>8. CASE Free(c)
        <4>1. mutex = c /\ pc[c] = "free" /\ connections' = connections
          BY <3>8, Ways DEF Free, At, Locked
        <4> QED
          BY <3>6, <4>1 DEF Leaving, OnTheWay
      <3>9. CASE Visit(c)
        <4>1. Leaving(image) => mutex' = mutex
          <5>1. SUFFICES ASSUME Leaving(image) PROVE mutex' = mutex
            OBVIOUS
          <5>2. Binding(c) => mutex = c
            BY Ways
          <5>3. Binding(c) \/ mutex' = mutex
            BY <3>9, Visited DEF Continues, Finishes, Binding
          <5> QED
            BY <5>1, <5>2, <5>3 DEF Leaving, OnTheWay, Binding
        <4>2. connections' = connections /\ doomed' = doomed
          BY <3>9, Visited
        <4> QED
          BY <3>6, <4>1, <4>2
      <3> QED
        BY <1>1, <2>1, <2>2, <3>4, <3>5, <3>7, <3>8, <3>9 DEF Client
    <2>3. CASE image' # image
      <3>1. /\ Visit(c) /\ pc[c] = "write" /\ errand[c] = "bind" /\ image' = c
        BY <1>1, <2>3, ClientCases, VisitUses DEF Apart
      <3>2. connections[key[c]] = c
        BY <3>1 DEF Sharing, Maker, Binding, Visiting
      <3>3. fbid = key[c]
        <4>1. Using(c)
          BY <1>C, <3>1 DEF Showing, Holds, Using, AtController
        <4> QED
          BY <1>C, <2>1, <4>1 DEF Standing, Registered, Calm
      <3>4. connections' = connections
        BY <3>1, Visited
      <3> QED
        BY <2>1, <3>1, <3>2, <3>3, <3>4
    <2> QED
      BY <2>2, <2>3
  <1>2. CASE GuiStep
    <2>0. UNCHANGED clientVars
      BY <1>2, GuiFrame
    <2>1. ASSUME UNCHANGED <<image, ctl, fbid>>, gui # "dying"
          PROVE  image' = connections'[fbid'] \/ Leaving(image)'
      BY <1>C, <2>0, <2>1 DEF Showing, Shows, Leaving, OnTheWay
    <2>2. CASE Plain
      BY <2>1, <2>2 DEF Plain
    <2>3. CASE Emplace \/ Take \/ Deref
      BY <2>1, <2>3 DEF Emplace, Take, Deref
    <2>4. CASE Create
      BY <1>C, <2>4 DEF Create, Standing, Numbered, Shown, Calm
    <2>5. ASSUME NEW k \in Keys \cup {None}, SetFramebufferID(k) PROVE FALSE
      <3>1. fbid = None /\ image # None /\ gui # "dying"
        BY <2>5 DEF SetFramebufferID, Race, Calm
      <3> QED
        BY <1>C, <3>1 DEF Standing, Shown, Calm
    <2>6. CASE Destroy \/ Vanish \/ Erase
      BY <2>6 DEF Destroy, Vanish, Erase
    <2>7. CASE Attach
      BY <2>0, <2>7 DEF Attach, Race, Late, Calm
    <2> QED
      BY <1>2, <2>2, <2>3, <2>4, <2>5, <2>6, <2>7, GuiCases
  <1>3. CASE UNCHANGED vars
    BY <1>3, <1>C DEF vars, Showing, Shows, Leaving, OnTheWay
  <1> QED
    BY <1>1, <1>2, <1>3, StepIs

LEMMA ShowingInvariance == Spec => [](Types /\ Sharing /\ Standing /\ Showing)
  <1>1. Types /\ Sharing /\ Standing /\ Showing /\ [Next]_vars => Showing'
    BY HoldsStep, ShowsStep, PaintsStep, UnharmedStep DEF Showing, Standing
  <1> QED
    BY <1>1, SharingInvariance, InitStanding, StandingStep, InitShowing, PTL DEF Spec

(* A dead image is painted, or a dead controller or backend touched, only  *)
(* when the controller changes its key, ends between a thread's check that *)
(* it is not null and its use, or is painted between the check of          *)
(* isMidPaint and the dissociation, or when the GUI thread goes on with a  *)
(* backend that has gone (fbmanagement.cpp, FBController.cpp).             *)
THEOREM NothingDeadIsUsed == Spec => []DeadOnlyByRace
  <1> QED
    BY ShowingInvariance, ShowingIs, PTL

-----------------------------------------------------------------------------
(* That the two find each other.                                           *)

Sound == ~misused /\ races \cap {"moved", "erased"} = {}

(* Every check asks for the key that the controller has.                   *)
Checks == ~misused /\ "moved" \notin races =>
    \A m \in In(queue) : m.kind = "check" => m.key = fbid /\ fbid \in Keys
(* A backend is shown by the controller of its key, or somebody is about   *)
(* to bring it there; ...                                                  *)
Bringing == Sound /\ fbid \in Keys /\ framebuffers[fbid] = ctl /\ connections[fbid] # None =>
    \/ image = connections[fbid]
    \/ gui \in {"look", "take"}
    \/ gui \in {"deref", "attach"} /\ found = connections[fbid]
    \/ mutex \in Clients /\ OnTheWay(mutex, "bind")
(* ... one that is not, or no longer, the backend of the key is about to   *)
(* be taken away.                                                          *)
Taking == Sound /\ fbid \in Keys /\ framebuffers[fbid] = ctl /\ connections[fbid] = None
            /\ image # None =>
    \/ Check(fbid) \in In(queue) \/ gui = "erase"
    \/ mutex \in Clients /\ OnTheWay(mutex, "cut")
(* After every change of the image there is a check, which leaves the      *)
(* controller active exactly if it has one.                                *)
CheckComes == \E m \in In(queue) : m.kind = "check"
Activity ==
    \/ CheckComes
    \/ mutex \in Clients /\ pc[mutex] = "post"
    \/ gui \in {"read", "erase"}
    \/ gui = "activate" /\ image # None
    \/ gui = "inactivate" /\ image = None
    \/ gui \notin {"activate", "inactivate"} /\ active = (image # None)
(* A controller that has been given a key gets registered for it.          *)
Enrolled == "orphaned" \notin races =>
    /\ \A k \in Keys : framebuffers[k] # Null
    /\ fbid \in Keys /\ gui \notin {"register", "emplace", "dying"} => framebuffers[fbid] = ctl
Matching == Checks /\ Bringing /\ Taking /\ Activity /\ Enrolled

LEMMA NothingIn == In(<<>>) = {}
  BY DEF In

LEMMA MatchingIs == Types /\ Standing /\ Matching => MatchedUp
  <1> SUFFICES ASSUME Types, Standing, Matching, AtRest, fbid # None
               PROVE  /\ framebuffers[fbid] = ctl \/ "orphaned" \in races
                      /\ framebuffers[fbid] = ctl /\ races \cap {"moved", "erased"} = {} =>
                           image = connections[fbid] /\ active = (image # None)
    BY DEF MatchedUp
  <1>1. /\ fbid \in Keys /\ gui = "idle" /\ In(queue) = {} /\ mutex \notin Clients
        /\ ~misused
    BY Kinds, NothingIn, Bounds DEF AtRest
  <1>2. framebuffers[fbid] = ctl \/ "orphaned" \in races
    BY <1>1 DEF Matching, Enrolled
  <1>3. active = (image # None)
    BY <1>1 DEF Matching, Activity, CheckComes
  <1>4. ASSUME framebuffers[fbid] = ctl, races \cap {"moved", "erased"} = {}
        PROVE  image = connections[fbid]
    BY <1>1, <1>4 DEF Matching, Bringing, Taking, Sound
  <1> QED
    BY <1>2, <1>3, <1>4

LEMMA InitMatching == Init => Matching
  <1> SUFFICES ASSUME Init PROVE Matching
    OBVIOUS
  <1>1. Checks /\ Bringing /\ Taking /\ Enrolled
    BY Bounds, NothingIn DEF Init, Checks, Bringing, Taking, Enrolled
  <1>2. gui = "idle" /\ active = FALSE /\ image = None
    BY DEF Init
  <1>3. active = (image # None)
    BY <1>2
  <1> QED
    BY <1>1, <1>2, <1>3 DEF Matching, Activity

(* What is put into the queue, and taken from it.                          *)
LEMMA ClientQueue ==
  ASSUME Types, NEW c \in Clients, Client(c)
  PROVE  \/ queue' = queue
         \/ /\ Post(c) /\ pc[c] = "post" /\ misused' = (misused \/ Dead(held[c]))
            /\ \/ errand[c] = "update" /\ In(queue') = In(queue) \cup {Update}
               \/ errand[c] # "update" /\ In(queue') = In(queue) \cup {Check(fbid)}
  <1>0. queue \in Seq(Call) /\ fbid \in Keys \cup {None}
    BY Kinds
  <1>1. CASE Visit(c)
    <2>1. CASE Post(c)
      <3>1. /\ pc[c] = "post" /\ misused' = (misused \/ Dead(held[c]))
            /\ queue' = Append(queue, IF errand[c] = "update" THEN Update ELSE Check(fbid))
        BY <2>1 DEF Post, At, Uses
      <3> QED
        BY <1>0, <2>1, <3>1, QueueOK, Calls
    <2> QED
      BY <1>1, <2>1 DEF Visit, Find, Fetch, Test, Await, Write, sharedVars
  <1> QED
    BY <1>1, ClientCases DEF Apart, sharedVars

LEMMA GuiQueue ==
  ASSUME Types, GuiStep
  PROVE  \/ queue' = queue /\ ~HandleCheck /\ ~MarkedUpdate /\ ~Vanish /\ ~Attach
         \/ Attach /\ fbid \in Keys /\ In(queue') = In(queue) \cup {Check(fbid)}
         \/ (HandleCheck \/ MarkedUpdate) /\ ~Vanish /\ ~Attach /\ queue # <<>>
            /\ In(queue) = In(queue') \cup {Head(queue)}
            /\ Head(queue).kind = (IF HandleCheck THEN "check" ELSE "update")
         \/ Vanish /\ ~Attach /\ In(queue') = {}
  <1>0. queue \in Seq(Call) /\ fbid \in Keys \cup {None}
    BY Kinds
  <1> USE DEF sharedVars, On, Idle
  <1>1. CASE Attach
    <2>1. gui = "attach" /\ queue' = Append(queue, Check(fbid))
      BY <1>1 DEF Attach
    <2>2. fbid \in Keys
      BY <2>1, Kinds
    <2> QED
      BY <1>0, <1>1, <2>1, <2>2, QueueOK, Calls
  <1>2. CASE HandleCheck \/ MarkedUpdate
    <2>1. /\ queue # <<>> /\ queue' = Tail(queue)
          /\ Head(queue).kind = (IF HandleCheck THEN "check" ELSE "update")
      BY <1>2 DEF HandleCheck, MarkedUpdate
    <2>2. ~Vanish /\ ~Attach
      BY <1>2 DEF HandleCheck, MarkedUpdate, Vanish, Attach
    <2> QED
      BY <1>0, <1>2, <2>1, <2>2, QueueOK
  <1>3. CASE Vanish
    BY <1>3, NothingIn DEF Vanish, Attach
  <1>4. CASE ~Attach /\ ~HandleCheck /\ ~MarkedUpdate /\ ~Vanish
    <2>1. queue' = queue
      BY <1>4
      DEF GuiStep, SetFramebufferID, Create, Destroy, Input, Handle, ForwardUserInput,
          Register, Emplace, Look, Take, Deref, Erase, ReadImage, SetActive, Paint,
          PaintBegin, PaintTest, PaintImage, PaintEnd
    <2> QED
      BY <1>4, <2>1
  <1> QED
    BY <1>1, <1>2, <1>3, <1>4

(* Whose use of the controller was sound.                                  *)
LEMMA UserOf ==
  ASSUME Types, Standing, NEW c \in Clients, pc[c] \in {"write", "post"}, ~Dead(held[c]),
         "moved" \notin races
  PROVE  fbid = key[c] /\ key[c] \in Keys
  <1>1. Using(c) /\ gui # "dying"
    BY DEF Dead, IsNull, Using, AtController
  <1> QED
    BY <1>1, Kinds DEF Standing, Registered

LEMMA ChecksStep ==
  ASSUME Types, Standing, Checks, [Next]_vars PROVE Checks'
  <1> USE Bounds DEF clientVars, guiVars, On, Idle
  <1> SUFFICES ASSUME ~misused', "moved" \notin races', NEW m \in In(queue'),
                      m.kind = "check"
               PROVE  m.key = fbid' /\ fbid' \in Keys
    BY DEF Checks
  <1>M. "moved" \notin races
    BY Grown
  <1>1. ASSUME NEW c \in Clients, Client(c) PROVE m.key = fbid' /\ fbid' \in Keys
    <2>1. fbid' = fbid /\ ~misused
      BY <1>1, ClientCases, Visited DEF Apart
    <2>2. CASE m \in In(queue)
      BY <1>M, <2>1, <2>2 DEF Checks
    <2>3. CASE m \notin In(queue)
      <3>1. /\ pc[c] = "post" /\ misused' = (misused \/ Dead(held[c]))
            /\ m \in {Update, Check(fbid)}
        BY <1>1, <2>3, ClientQueue
      <3>2. m.key = fbid
        BY <3>1, Calls
      <3> QED
        BY <1>M, <2>1, <3>1, <3>2, UserOf
    <2> QED
      BY <2>2, <2>3
  <1>2. CASE GuiStep
    <2>0. ~misused
      BY <1>2, GuiFrame
    <2>1. CASE m \in In(queue) /\ fbid' = fbid
      BY <1>M, <2>0, <2>1 DEF Checks
    <2>2. CASE Attach
      <3>1. fbid' = fbid /\ (m \notin In(queue) => m = Check(fbid) /\ fbid \in Keys)
        BY <1>2, <2>2, GuiQueue DEF Attach, HandleCheck, MarkedUpdate, Vanish
      <3> QED
        BY <2>1, <3>1, Calls
    <2>3. ASSUME NEW k \in Keys \cup {None}, SetFramebufferID(k)
          PROVE  m.key = fbid' /\ fbid' \in Keys
      <3>1. fbid = None /\ queue' = queue
        BY <2>3 DEF SetFramebufferID, Race
      <3> QED
        BY <1>M, <2>0, <3>1 DEF Checks
    <2>4. CASE ~Attach
      <3>1. m \in In(queue) /\ ~Vanish
        BY <1>2, <2>4, GuiQueue
      <3>2. fbid' = fbid \/ \E k \in Keys \cup {None} : SetFramebufferID(k)
        BY <1>2, <3>1, GuiCases
        DEF Plain, Create, Destroy, Emplace, Take, Deref, Attach, Erase
      <3> QED
        BY <2>1, <2>3, <3>1, <3>2
    <2> QED
      BY <2>2, <2>4
  <1>3. CASE UNCHANGED vars
    BY <1>3, <1>M DEF vars, sharedVars, Checks
  <1> QED
    BY <1>1, <1>2, <1>3, StepIs

LEMMA EnrolledStep ==
  ASSUME Types, Numbered, Enrolled, [Next]_vars PROVE Enrolled'
  <1> USE Bounds DEF clientVars, guiVars, sharedVars, On, Idle
  <1> SUFFICES ASSUME "orphaned" \notin races'
               PROVE  /\ \A k \in Keys : framebuffers'[k] # Null
                      /\ fbid' \in Keys /\ gui' \notin {"register", "emplace", "dying"} =>
                           framebuffers'[fbid'] = ctl'
    BY DEF Enrolled
  <1> DEFINE Goal == /\ \A k \in Keys : framebuffers'[k] # Null
                     /\ fbid' \in Keys /\ gui' \notin {"register", "emplace", "dying"} =>
                           framebuffers'[fbid'] = ctl'
  <1>0. /\ \A k \in Keys : framebuffers[k] # Null
        /\ fbid \in Keys /\ gui \notin {"register", "emplace", "dying"} =>
               framebuffers[fbid] = ctl
    BY Grown DEF Enrolled
  <1>00. /\ framebuffers \in [Keys -> {Absent} \cup 0 .. MaxControllers]
         /\ fbid \in Keys \cup {None}
    BY Kinds
  <1>1. ASSUME NEW c \in Clients, Client(c) PROVE Goal
    <2>1. CASE Apart(c)
      BY <1>0, <2>1 DEF Apart
    <2>2. CASE Visit(c)
      <3>1. UNCHANGED <<ctl, fbid, gui>>
        BY <2>2, Visited
      <3>2. \A k \in Keys : framebuffers'[k] = framebuffers[k]
        <4>1. CASE Fetch(c)
          <5>1. framebuffers[key[c]] # Absent
            BY <4>1 DEF Fetch, Race
          <5> QED
            BY <2>2, <4>1, <5>1, VisitHolds
        <4>2. CASE ~Fetch(c)
          BY <2>2, <4>2, VisitHolds
        <4> QED
          BY <4>1, <4>2
      <3> QED
        BY <1>0, <3>1, <3>2
    <2> QED
      BY <1>1, <2>1, <2>2, ClientCases
  <1>2. CASE GuiStep
    <2>1. CASE UNCHANGED <<ctl, fbid, framebuffers>> /\
               (gui' = gui \/ gui \notin {"register", "emplace", "dying"})
      BY <1>0, <2>1
    <2>2. CASE Input \/ ForwardUserInput \/ Look \/ HandleCheck \/ ReadImage \/ SetActive
               \/ MarkedUpdate \/ Paint \/ Take \/ Deref \/ Attach \/ Erase
      <3>1. CASE Input \/ ForwardUserInput \/ Look \/ HandleCheck \/ ReadImage \/ SetActive
        BY <2>1, <3>1 DEF Input, ForwardUserInput, Look, HandleCheck, ReadImage, SetActive
      <3>2. CASE MarkedUpdate \/ Take \/ Deref \/ Attach \/ Erase
        BY <2>1, <3>2 DEF MarkedUpdate, Take, Deref, Attach, Erase
      <3>3. CASE Paint
        BY <2>1, <3>3 DEF Paint, PaintBegin, PaintTest, PaintImage, PaintEnd
      <3> QED
        BY <2>2, <3>1, <3>2, <3>3
    <2>3. ASSUME NEW k \in Keys \cup {None}, SetFramebufferID(k) PROVE Goal
      <3>1. /\ fbid' = k /\ gui' = (IF k = None THEN "idle" ELSE "register")
            /\ \A j \in Keys : framebuffers'[j] \in {Absent, framebuffers[j]}
        BY <2>3 DEF SetFramebufferID, Unregistered
      <3> QED
        BY <1>0, <3>1
    <2>4. CASE Destroy
      <3>1. /\ gui' = "dying"
            /\ \A j \in Keys : framebuffers'[j] \in {Absent, framebuffers[j]}
        BY <2>4 DEF Destroy, Unregistered
      <3> QED
        BY <1>0, <3>1
    <2>5. CASE Create \/ Vanish
      BY <1>0, <1>00, <2>5 DEF Create, Vanish, Numbered
    <2>6. CASE Register
      BY <1>0, <1>00, <2>6 DEF Register, Numbered
    <2>7. CASE Emplace
      <3>1. /\ fbid \in Keys /\ UNCHANGED <<ctl, fbid>> /\ ctl # Null
            /\ framebuffers' = [framebuffers EXCEPT ![fbid] = IF @ = Absent THEN ctl ELSE @]
        BY <2>7, Kinds DEF Emplace, Numbered
      <3>2. framebuffers[fbid] \in {Absent, ctl}
        BY <1>0, <3>1 DEF Numbered
      <3> QED
        BY <1>0, <1>00, <3>1, <3>2
    <2> QED
      BY <1>2, <2>2, <2>3, <2>4, <2>5, <2>6, <2>7 DEF GuiStep, Handle
  <1>3. CASE UNCHANGED vars
    BY <1>0, <1>3 DEF vars
  <1> QED
    BY <1>1, <1>2, <1>3, StepIs

(* Who holds the mutex: the thread whose step it is, or one that stays.    *)
LEMMA Holder ==
  ASSUME Types, Sharing, NEW c \in Clients, Client(c), mutex \in Clients
  PROVE  \/ mutex = c /\ Locked(c) /\ (Visit(c) \/ Free(c))
         \/ mutex # c /\ mutex' = mutex /\ ~Join(c, key'[c]) /\ ~Make(c, key'[c])
            /\ ~Close(c) /\ ~Free(c)
  <1>1. Locked(mutex) /\ mutex # None
    BY Bounds DEF Sharing, Owned
  <1> USE DEF At
  <1>2. CASE Visit(c)
    <2>1. Locked(c) <=> mutex = c
      BY <1>1, Ways
    <2>2. mutex # c => mutex' = mutex
      BY <1>2, <2>1, Visited DEF Continues, Finishes, Locked
    <2> QED
      BY <1>1, <1>2, <2>1, <2>2, Visited DEF Join, Make, Close, Free, Visiting
  <1>3. CASE SendUpdate(c) \/ End(c)
    <2>1. pc[c] = "up" /\ mutex' = mutex
      BY <1>3 DEF SendUpdate, End
    <2> QED
      BY <1>1, <2>1 DEF Locked, Visiting, Join, Make, Close, Free
  <1>4. CASE Free(c)
    BY <1>1, <1>4, Ways DEF Free, Locked
  <1> QED
    BY <1>1, <1>2, <1>3, <1>4 DEF Client, Join, Make, Close

LEMMA ActivityStep ==
  ASSUME Types, Sharing, Activity, [Next]_vars PROVE Activity'
  <1> USE Bounds DEF clientVars, guiVars, itemVars, sharedVars, On, Idle
  <1>1. ASSUME NEW c \in Clients, Client(c) PROVE Activity'
    <2>1. gui' = gui /\ active' = active
      BY <1>1, ClientCases, Visited DEF Apart
    <2>2. CheckComes => CheckComes'
      BY <1>1, ClientQueue DEF CheckComes
    <2>3. CASE mutex \in Clients /\ pc[mutex] = "post"
      <3>1. CASE mutex = c
        <4>1. Locked(c) /\ pc[c] = "post"
          BY <2>3, <3>1, Bounds DEF Sharing, Owned
        <4>2. errand[c] # "update" /\ Visit(c)
          BY <1>1, <2>3, <3>1, <4>1, Holder DEF Locked, Free, At
        <4>3. Post(c)
          BY <4>1, <4>2 DEF Visit, Find, Fetch, Test, Await, Write, At
        <4>4. queue' # queue
          <5>1. queue \in Seq(Call) /\ queue' = Append(queue, Check(fbid))
            BY <4>2, <4>3, Kinds DEF Post
          <5> QED
            BY <5>1, Appended, Kinds, Calls
        <4>5. CheckComes'
          <5>1. In(queue') = In(queue) \cup {Check(fbid)}
            BY <1>1, <4>2, <4>4, ClientQueue
          <5> QED
            BY <5>1, Calls DEF CheckComes
        <4> QED
          BY <4>5 DEF Activity
      <3>2. CASE mutex # c
        <4>1. mutex' = mutex /\ pc'[mutex] = pc[mutex]
          BY <1>1, <2>3, <3>2, Holder, ClientCases
        <4> QED
          BY <2>3, <4>1 DEF Activity
      <3> QED
        BY <3>1, <3>2
    <2>4. CASE image' # image
      <3>1. /\ Visit(c) /\ pc[c] = "write" /\ errand[c] \in {"bind", "cut"}
        BY <1>1, <2>4, ClientCases, VisitUses DEF Apart
      <3>2. mutex = c
        BY <3>1, Ways DEF Locked, Visiting
      <3>3. Write(c)
        BY <3>1 DEF Visit, Find, Fetch, Test, Await, Post, At
      <3>4. mutex' = mutex /\ pc'[c] = "post"
        BY <3>3, Kinds DEF Write, Goto
      <3> QED
        BY <3>2, <3>4 DEF Activity
    <2>5. CASE image' = image /\ ~(mutex \in Clients /\ pc[mutex] = "post")
      BY <2>1, <2>2, <2>5 DEF Activity
    <2> QED
      BY <2>3, <2>4, <2>5
  <1>2. CASE GuiStep
    <2>0. pc' = pc /\ mutex' = mutex
      BY <1>2, GuiFrame
    <2>1. CASE /\ UNCHANGED <<queue, image, active>>
               /\ gui' = gui \/ {gui, gui'} \cap {"read", "erase", "activate", "inactivate"} = {}
      BY <2>0, <2>1 DEF Activity, CheckComes
    <2>2. CASE Attach
      <3>1. In(queue') = In(queue) \cup {Check(fbid)}
        BY <1>2, <2>2, GuiQueue
      <3> QED
        BY <3>1, Calls DEF Activity, CheckComes
    <2>3. CASE HandleCheck \/ Erase
      BY <2>3 DEF HandleCheck, Erase, Activity
    <2>4. CASE ReadImage
      BY <2>4 DEF ReadImage, Activity
    <2>5. CASE SetActive
      <3>1. gui' = "idle" /\ queue' = queue /\ image' = image /\ active' = (gui = "activate")
            /\ gui \in {"activate", "inactivate"}
        BY <2>5 DEF SetActive
      <3>2. CASE gui = "activate" /\ image # None
        BY <3>1, <3>2 DEF Activity
      <3>3. CASE gui = "inactivate" /\ image = None
        BY <3>1, <3>3 DEF Activity
      <3>4. CASE CheckComes \/ (mutex \in Clients /\ pc[mutex] = "post")
        BY <2>0, <3>1, <3>4 DEF Activity, CheckComes
      <3> QED
        BY <3>1, <3>2, <3>3, <3>4 DEF Activity
    <2>6. CASE MarkedUpdate
      <3>1. CheckComes => CheckComes'
        <4>1. In(queue) = In(queue') \cup {Head(queue)} /\ Head(queue).kind = "update"
          <5>1. queue # <<>> /\ queue' = Tail(queue) /\ Head(queue).kind = "update"
            BY <2>6 DEF MarkedUpdate
          <5>2. queue \in Seq(Call)
            BY Kinds
          <5> QED
            BY <5>1, <5>2, QueueOK
        <4> QED
          BY <4>1 DEF CheckComes
      <3>2. UNCHANGED <<image, active, gui>>
        BY <2>6 DEF MarkedUpdate
      <3> QED
        BY <2>0, <3>1, <3>2 DEF Activity
    <2>7. CASE Vanish
      <3>1. gui' = "idle" /\ active' = FALSE /\ image' = None
        BY <2>7 DEF Vanish
      <3>2. active' = (image' # None)
        BY <3>1
      <3> QED
        BY <3>1, <3>2 DEF Activity
    <2>8. CASE Create \/ Destroy \/ Input \/ ForwardUserInput \/ Register \/ Emplace \/ Look
               \/ Take \/ Deref
      BY <2>1, <2>8
      DEF Create, Destroy, Input, ForwardUserInput, Register, Emplace, Look, Take, Deref
    <2>9. CASE Paint
      BY <2>1, <2>9 DEF Paint, PaintBegin, PaintTest, PaintImage, PaintEnd
    <2>10. ASSUME NEW k \in Keys \cup {None}, SetFramebufferID(k) PROVE Activity'
      BY <2>1, <2>10 DEF SetFramebufferID
    <2> QED
      BY <1>2, <2>2, <2>3, <2>4, <2>5, <2>6, <2>7, <2>8, <2>9, <2>10 DEF GuiStep, Handle
  <1>3. CASE UNCHANGED vars
    BY <1>3 DEF vars, Activity, CheckComes
  <1> QED
    BY <1>1, <1>2, <1>3, StepIs

(* What a client's step does to a registered controller, its backend and   *)
(* the thread that is on its way to it.                                    *)
OnTheWayNow(what) == mutex \in Clients /\ OnTheWay(mutex, what)

LEMMA WayKept ==
  ASSUME Types, Sharing, NEW c \in Clients, Client(c), NEW what \in {"bind", "cut"},
         fbid \in Keys, framebuffers[fbid] = ctl, ctl # Null, OnTheWayNow(what)
  PROVE  OnTheWayNow(what)' \/ (Write(c) /\ errand[c] = what /\ key[c] = fbid)
  <1> USE Bounds DEF OnTheWayNow
  <1>1. OnTheWay(mutex, what) /\ mutex \in Clients
    OBVIOUS
  <1>2. \A m \in Clients : OnTheWay(m, what) =>
            OnTheWay(m, what)' \/ (c = m /\ Visit(c) /\ pc[m] = "write")
    BY WayStep
  <1>3. CASE c = mutex /\ Visit(c) /\ pc[c] = "write"
    <2>1. Write(c)
      BY <1>3 DEF Visit, Find, Fetch, Test, Await, Post, At
    <2> QED
      BY <1>1, <1>3, <2>1 DEF OnTheWay
  <1>4. CASE ~(c = mutex /\ Visit(c) /\ pc[c] = "write")
    <2>1. \E m \in Clients : m = mutex /\ OnTheWay(m, what)'
      BY <1>1, <1>2, <1>4
    <2>2. mutex' = mutex
      <3>1. CASE mutex # c
        BY <1>1, <3>1, Holder
      <3>2. CASE mutex = c
        <4>1. pc'[c] \in {"find", "fetch", "test", "await", "write"}
          BY <2>1, <3>2 DEF OnTheWay
        <4>2. Visit(c) \/ Free(c)
          BY <1>1, <3>2, Holder
        <4>3. ~Free(c)
          BY <1>1, <3>2 DEF Free, At, OnTheWay
        <4> QED
          BY <4>1, <4>2, <4>3, Visited DEF Continues, Finishes
      <3> QED
        BY <3>1, <3>2
    <2>3. OnTheWay(mutex, what)'
      BY <2>1, <2>2 DEF OnTheWay
    <2> QED
      BY <1>1, <2>2, <2>3
  <1> QED
    BY <1>3, <1>4

LEMMA ClientConnects ==
  ASSUME Types, Sharing, NEW c \in Clients, Client(c), fbid \in Keys
  PROVE  \/ connections'[fbid] = connections[fbid]
         \/ connections[fbid] = None /\ connections'[fbid] = c /\ OnTheWayNow("bind")'
         \/ connections'[fbid] = None /\ OnTheWayNow("cut")'
  <1> USE Bounds DEF OnTheWayNow, Goto, Visits, At
  <1>0. /\ pc \in [Clients -> Label] /\ errand \in [Clients -> Errand]
        /\ key \in [Clients -> Keys \cup {None}]
        /\ connections \in [Keys -> Clients \cup {None}]
        /\ fbid' = fbid
    BY Kinds, ClientCases, Visited DEF Apart, guiVars
  <1>1. ASSUME NEW k \in Keys, Make(c, k), connections' # connections
        PROVE  \/ connections'[fbid] = connections[fbid]
               \/ connections[fbid] = None /\ connections'[fbid] = c /\ OnTheWayNow("bind")'
    <2>1. /\ connections' = [connections EXCEPT ![k] = c] /\ connections[k] = None
          /\ mutex' = c /\ key' = [key EXCEPT ![c] = k]
          /\ pc' = [pc EXCEPT ![c] = "find"] /\ errand' = [errand EXCEPT ![c] = "bind"]
      BY <1>1 DEF Make
    <2>2. mutex' \in Clients /\ (OnTheWay(mutex, "bind")' <=> k = fbid)
      BY <1>0, <2>1 DEF OnTheWay
    <2> QED
      BY <1>0, <2>1, <2>2
  <1>2. ASSUME Close(c), connections' # connections
        PROVE  \/ connections'[fbid] = connections[fbid]
               \/ connections'[fbid] = None /\ OnTheWayNow("cut")'
    <2>1. /\ connections' = [connections EXCEPT ![key[c]] = None] /\ key' = key
          /\ mutex' = c
          /\ pc' = [pc EXCEPT ![c] = "find"] /\ errand' = [errand EXCEPT ![c] = "cut"]
      BY <1>2 DEF Close
    <2>2. mutex' \in Clients /\ (OnTheWay(mutex, "cut")' <=> key[c] = fbid)
      BY <1>0, <2>1 DEF OnTheWay
    <2> QED
      BY <1>0, <2>1, <2>2
  <1>3. CASE Visit(c)
    BY <1>3, Visited
  <1>4. ASSUME NEW k \in Keys, Join(c, k) PROVE connections' = connections
    BY <1>4 DEF Join
  <1>5. CASE SendUpdate(c) \/ End(c) \/ Free(c)
    BY <1>5 DEF SendUpdate, End, Free
  <1> QED
    BY <1>1, <1>2, <1>3, <1>4, <1>5 DEF Client

LEMMA ClientWrites ==
  ASSUME Types, Sharing, Standing, NEW c \in Clients, Client(c), "moved" \notin races,
         ~misused'
  PROVE  /\ \/ image' = image
            \/ image' = None /\ fbid \in Keys /\ connections'[fbid] = None
            \/ image' = c /\ fbid \in Keys /\ connections'[fbid] = c
         /\ Write(c) => image' = (IF errand[c] = "cut" THEN None ELSE c)
  <1> USE Bounds
  <1>1. Write(c) => image' = (IF errand[c] = "cut" THEN None ELSE c)
    BY DEF Write
  <1>2. CASE image' # image
    <2>1. /\ Visit(c) /\ pc[c] = "write" /\ errand[c] \in {"bind", "cut"}
          /\ image' = (IF errand[c] = "cut" THEN None ELSE c)
          /\ ~Dead(held[c])
      BY <1>2, ClientCases, VisitUses DEF Apart, sharedVars
    <2>2. fbid = key[c] /\ key[c] \in Keys
      BY <2>1, UserOf
    <2>3. connections' = connections
      BY <2>1, Visited
    <2>4. connections[key[c]] = (IF errand[c] = "cut" THEN None ELSE c)
      BY <2>1 DEF Sharing, Emptied, Maker, Closing, Binding, Visiting
    <2> QED
      BY <1>1, <2>1, <2>2, <2>3, <2>4
  <1> QED
    BY <1>1, <1>2

LEMMA StillRegistered ==
  ASSUME Types, Numbered, NEW c \in Clients, Client(c), fbid' \in Keys,
         framebuffers'[fbid'] = ctl'
  PROVE  UNCHANGED <<ctl, fbid, gui, found>> /\ framebuffers[fbid] = ctl /\ ctl # Null
  <1> USE Bounds DEF guiVars, sharedVars
  <1>1. UNCHANGED <<ctl, fbid, gui, found>>
    BY ClientCases, Visited DEF Apart
  <1>2. ctl # Null /\ fbid \in Keys
    BY <1>1 DEF Numbered
  <1>3. framebuffers'[fbid] \in {framebuffers[fbid], Null}
    BY <1>2, ClientCases, VisitHolds DEF Apart
  <1> QED
    BY <1>1, <1>2, <1>3

(* A backend that is alive and not the one of its key is being destroyed,  *)
(* and then the key has none.                                              *)
LEMMA FoundIs ==
  ASSUME Types, Sharing, Found, gui \in {"deref", "attach"}, found \in alive
  PROVE  connections[fbid] \in {found, None}
  <1>1. found \in Clients /\ key[found] = fbid /\ fbid \in Keys
    BY Kinds DEF Found
  <1>2. CASE members[found] # {}
    <2>1. PICK c : c \in members[found]
      BY <1>2
    <2> QED
      BY <1>1, <2>1 DEF Sharing, Membership
  <1>3. CASE found = doomed
    BY <1>1, <1>3, Bounds DEF Sharing, Dooming, Emptied
  <1> QED
    BY <1>2, <1>3 DEF Sharing, Remains

LEMMA BringingStep ==
  ASSUME Types, Sharing, Standing, Numbered', Bringing, [Next]_vars PROVE Bringing'
  <1> USE Bounds DEF clientVars, guiVars, sharedVars, On, Idle
  <1> DEFINE Goal == \/ image' = connections'[fbid']
                     \/ gui' \in {"look", "take"}
                     \/ gui' \in {"deref", "attach"} /\ found' = connections'[fbid']
                     \/ OnTheWayNow("bind")'
  <1> SUFFICES ASSUME Sound', fbid' \in Keys, framebuffers'[fbid'] = ctl',
                      connections'[fbid'] # None
               PROVE  Goal
    BY DEF Bringing, OnTheWayNow
  <1>S. races \cap {"moved", "erased"} = {} /\ ~misused' /\ races' \cap {"moved", "erased"} = {}
    BY Grown DEF Sound
  <1>N. Numbered
    BY DEF Standing
  <1>0. ASSUME ~misused, fbid \in Keys, framebuffers[fbid] = ctl, connections[fbid] # None
        PROVE  \/ image = connections[fbid]
               \/ gui \in {"look", "take"}
               \/ gui \in {"deref", "attach"} /\ found = connections[fbid]
               \/ OnTheWayNow("bind")
    BY <1>0, <1>S DEF Bringing, Sound, OnTheWayNow
  <1>1. ASSUME NEW c \in Clients, Client(c) PROVE Goal
    <2>1. UNCHANGED <<ctl, fbid, gui, found>> /\ framebuffers[fbid] = ctl /\ ctl # Null
      BY <1>1, <1>N, StillRegistered
    <2>2. ~misused
      BY <1>1, <1>S, ClientCases, Visited DEF Apart
    <2>3. /\ \/ image' = image
             \/ image' = None /\ connections'[fbid] = None
             \/ image' = c /\ connections'[fbid] = c
          /\ Write(c) => image' = (IF errand[c] = "cut" THEN None ELSE c)
      BY <1>1, <1>S, ClientWrites
    <2>4. CASE image' # image
      BY <2>1, <2>3, <2>4
    <2>5. CASE image' = image /\ connections'[fbid] = connections[fbid]
      <3>1. CASE OnTheWayNow("bind")
        <4>1. OnTheWayNow("bind")' \/ (Write(c) /\ errand[c] = "bind" /\ key[c] = fbid)
          BY <1>1, <2>1, <3>1, WayKept
        <4>2. Write(c) /\ errand[c] = "bind" /\ key[c] = fbid => image' = connections'[fbid]
          <5>1. Write(c) => pc[c] = "write" /\ connections' = connections
            BY DEF Write, At
          <5> QED
            BY <2>3, <5>1 DEF Sharing, Maker, Binding, Visiting
        <4> QED
          BY <2>1, <4>1, <4>2
      <3>2. CASE ~OnTheWayNow("bind")
        BY <1>0, <2>1, <2>2, <2>5, <3>2
      <3> QED
        BY <3>1, <3>2
    <2>6. CASE connections'[fbid] # connections[fbid]
      BY <1>1, <2>1, <2>6, ClientConnects
    <2> QED
      BY <2>4, <2>5, <2>6
  <1>2. CASE GuiStep
    <2>0. UNCHANGED clientVars /\ ~misused
      BY <1>2, GuiFrame
    <2>1. UNCHANGED <<ctl, fbid>> => (OnTheWayNow("bind") => OnTheWayNow("bind")')
      BY <2>0 DEF OnTheWayNow, OnTheWay
    <2>2. CASE /\ UNCHANGED <<framebuffers, image, ctl, fbid, found>>
               /\ gui' = gui \/ gui \notin {"look", "take", "deref", "attach"}
      BY <1>0, <2>0, <2>1, <2>2
    <2>3. CASE Emplace
      BY <2>3 DEF Emplace
    <2>4. CASE Look \/ Take
      BY <2>0, <2>4 DEF Look, Take
    <2>5. CASE Deref
      <3>1. /\ UNCHANGED <<ctl, fbid, image, framebuffers>> /\ gui = "deref" /\ ctl # Null
            /\ found \in alive
        BY <1>N, <1>S, <2>0, <2>5 DEF Deref, Uses, Numbered
      <3>2. gui' = "attach" /\ found' = found
        BY <2>5, <3>1 DEF Deref, IsNull
      <3>3. connections[fbid] \in {found, None}
        BY <3>1, FoundIs DEF Standing
      <3> QED
        BY <2>0, <3>1, <3>2, <3>3
    <2>6. CASE Attach
      <3>1. gui = "attach" /\ fbid' = fbid /\ image' = found /\ found \in alive
        BY <1>S, <2>0, <2>6 DEF Attach, Uses
      <3>2. connections[fbid] \in {found, None}
        BY <3>1, FoundIs DEF Standing
      <3> QED
        BY <2>0, <3>1, <3>2
    <2>7. CASE Erase
      <3>1. /\ UNCHANGED <<ctl, fbid, framebuffers>> /\ gui = "erase"
            /\ ~(image # None /\ image = BackendOf(fbid))
        BY <1>S, <2>7 DEF Erase, Race
      <3>2. image # connections[fbid]
        BY <2>0, <3>1 DEF BackendOf
      <3> QED
        BY <1>0, <2>0, <2>1, <3>1, <3>2
    <2>8. CASE Create
      BY <1>N, <2>8 DEF Create, Numbered
    <2>9. CASE Vanish
      BY <2>9 DEF Vanish
    <2>10. CASE Destroy
      <3>1. ctl' = ctl /\ fbid' = fbid /\ framebuffers'[fbid] = Absent
        BY <2>10 DEF Destroy, Unregistered
      <3>2. ctl \in Nat
        BY Kinds
      <3> QED
        BY <3>1, <3>2
    <2>11. ASSUME NEW k \in Keys \cup {None}, SetFramebufferID(k) PROVE FALSE
      <3>1. /\ fbid = None /\ fbid' = k /\ ctl' = ctl /\ ctl # Null
            /\ framebuffers' = Unregistered
        BY <1>S, <2>11 DEF SetFramebufferID, Race
      <3>2. framebuffers'[k] = framebuffers[k]
        BY <3>1 DEF Unregistered
      <3>3. ctl \in Nat
        BY Kinds
      <3> QED
        BY <1>N, <3>1, <3>2, <3>3 DEF Numbered
    <2>12. CASE Input \/ ForwardUserInput \/ Register \/ HandleCheck \/ ReadImage \/ SetActive
                \/ MarkedUpdate
      BY <2>2, <2>12
      DEF Input, ForwardUserInput, Register, HandleCheck, ReadImage, SetActive, MarkedUpdate
    <2>13. CASE Paint
      BY <2>2, <2>13 DEF Paint, PaintBegin, PaintTest, PaintImage, PaintEnd
    <2> QED
      BY <1>2, <2>3, <2>4, <2>5, <2>6, <2>7, <2>8, <2>9, <2>10, <2>11, <2>12, <2>13
      DEF GuiStep, Handle
  <1>3. CASE UNCHANGED vars
    BY <1>0, <1>3, <1>S DEF vars, OnTheWayNow, OnTheWay
  <1> QED
    BY <1>1, <1>2, <1>3, StepIs

LEMMA TakingStep ==
  ASSUME Types, Sharing, Standing, Numbered', Checks, Taking, [Next]_vars PROVE Taking'
  <1> USE Bounds DEF clientVars, guiVars, sharedVars, On, Idle
  <1> DEFINE Goal == \/ (Check(fbid) \in In(queue))' \/ gui' = "erase"
                     \/ OnTheWayNow("cut")'
  <1> SUFFICES ASSUME Sound', fbid' \in Keys, framebuffers'[fbid'] = ctl',
                      connections'[fbid'] = None, image' # None
               PROVE  Goal
    BY DEF Taking, OnTheWayNow
  <1>S. races \cap {"moved", "erased"} = {} /\ ~misused' /\ races' \cap {"moved", "erased"} = {}
    BY Grown DEF Sound
  <1>N. Numbered
    BY DEF Standing
  <1>0. ASSUME ~misused, fbid \in Keys, framebuffers[fbid] = ctl, connections[fbid] = None,
               image # None
        PROVE  \/ Check(fbid) \in In(queue) \/ gui = "erase"
               \/ OnTheWayNow("cut")
    BY <1>0, <1>S DEF Taking, Sound, OnTheWayNow
  <1>1. ASSUME NEW c \in Clients, Client(c) PROVE Goal
    <2>1. UNCHANGED <<ctl, fbid, gui, found>> /\ framebuffers[fbid] = ctl /\ ctl # Null
      BY <1>1, <1>N, StillRegistered
    <2>2. ~misused
      BY <1>1, <1>S, ClientCases, Visited DEF Apart
    <2>3. /\ image' = image \/ (image' = c /\ connections'[fbid] = c)
          /\ Write(c) => image' = (IF errand[c] = "cut" THEN None ELSE c)
      BY <1>1, <1>S, ClientWrites
    <2>4. image' = image
      BY <2>1, <2>3
    <2>5. CASE connections'[fbid] = connections[fbid]
      <3>1. CASE OnTheWayNow("cut")
        <4>1. OnTheWayNow("cut")' \/ (Write(c) /\ errand[c] = "cut" /\ key[c] = fbid)
          BY <1>1, <2>1, <3>1, WayKept
        <4> QED
          BY <2>3, <4>1
      <3>2. CASE Check(fbid) \in In(queue)
        <4>1. In(queue) \subseteq In(queue')
          BY <1>1, ClientQueue
        <4>2. Check(fbid)' = Check(fbid)
          BY <2>1 DEF Check
        <4> QED
          BY <3>2, <4>1, <4>2
      <3>3. CASE ~OnTheWayNow("cut") /\ Check(fbid) \notin In(queue)
        BY <1>0, <2>1, <2>2, <2>4, <2>5, <3>3
      <3> QED
        BY <3>1, <3>2, <3>3
    <2>6. CASE connections'[fbid] # connections[fbid]
      BY <1>1, <2>1, <2>6, ClientConnects
    <2> QED
      BY <2>5, <2>6
  <1>2. CASE GuiStep
    <2>0. UNCHANGED clientVars /\ ~misused
      BY <1>2, GuiFrame
    <2>1. UNCHANGED <<ctl, fbid>> => (OnTheWayNow("cut") => OnTheWayNow("cut")')
      BY <2>0 DEF OnTheWayNow, OnTheWay
    <2>2. ASSUME UNCHANGED <<ctl, fbid, image>>, gui # "dying"
          PROVE  Check(fbid) \in In(queue) \/ gui = "erase" \/ OnTheWayNow("cut")'
      <3>1. framebuffers[fbid] = ctl
        BY <1>S, <2>0, <2>2 DEF Standing, Shown
      <3> QED
        BY <1>0, <2>0, <2>1, <2>2, <3>1
    <2>3. CASE /\ UNCHANGED <<ctl, fbid, image, queue>> /\ gui # "dying"
               /\ gui' = gui \/ gui # "erase"
      <3>1. Check(fbid)' = Check(fbid) /\ In(queue') = In(queue)
        BY <2>3 DEF Check
      <3> QED
        BY <2>2, <2>3, <3>1
    <2>4. CASE Attach
      <3>1. In(queue') = In(queue) \cup {Check(fbid)} /\ fbid' = fbid
        <4>1. queue \in Seq(Call) /\ Check(fbid) \in Call
          BY Kinds, Calls
        <4>2. queue' = Append(queue, Check(fbid)) /\ fbid' = fbid
          BY <2>4 DEF Attach
        <4> QED
          BY <4>1, <4>2, QueueOK
      <3>2. Check(fbid)' = Check(fbid)
        BY <3>1 DEF Check
      <3> QED
        BY <3>1, <3>2
    <2>5. CASE HandleCheck \/ MarkedUpdate
      <3>1. /\ UNCHANGED <<ctl, fbid, image>> /\ gui = "idle" /\ queue # <<>>
            /\ queue' = Tail(queue)
        BY <2>5 DEF HandleCheck, MarkedUpdate
      <3>2. In(queue) = In(queue') \cup {Head(queue)}
        BY <3>1, QueueOK, Kinds
      <3>3. Check(fbid)' = Check(fbid)
        BY <3>1 DEF Check
      <3>4. CASE Head(queue) = Check(fbid)
        <4>1. Head(queue).kind = "check" /\ Head(queue).key = fbid
          BY <3>4, Calls
        <4>2. HandleCheck
          BY <2>5, <4>1 DEF MarkedUpdate
        <4>3. BackendOf(fbid) = None
          BY <2>0, <3>1 DEF BackendOf
        <4> QED
          BY <4>1, <4>2, <4>3 DEF HandleCheck
      <3>5. CASE Head(queue) # Check(fbid)
        BY <2>2, <3>1, <3>2, <3>3, <3>5
      <3> QED
        BY <3>4, <3>5
    <2>6. CASE Erase \/ Vanish
      BY <2>6 DEF Erase, Vanish
    <2>7. CASE Create
      BY <1>N, <2>7 DEF Create, Numbered
    <2>8. CASE Destroy
      <3>1. ctl' = ctl /\ fbid' = fbid /\ framebuffers'[fbid] = Absent
        BY <2>8 DEF Destroy, Unregistered
      <3>2. ctl \in Nat
        BY Kinds
      <3> QED
        BY <3>1, <3>2
    <2>9. ASSUME NEW k \in Keys \cup {None}, SetFramebufferID(k) PROVE FALSE
      <3>1. fbid = None /\ image # None /\ gui # "dying"
        BY <1>S, <2>9 DEF SetFramebufferID, Race
      <3> QED
        BY <1>S, <2>0, <3>1 DEF Standing, Shown
    <2>10. CASE Input \/ ForwardUserInput \/ Register \/ Emplace \/ Look \/ Take \/ Deref
                \/ ReadImage \/ SetActive
      BY <2>3, <2>10
      DEF Input, ForwardUserInput, Register, Emplace, Look, Take, Deref, ReadImage, SetActive
    <2>11. CASE Paint
      <3>1. UNCHANGED <<ctl, fbid, image, queue, gui, framebuffers>>
        BY <2>11 DEF Paint, PaintBegin, PaintTest, PaintImage, PaintEnd
      <3>2. Check(fbid)' = Check(fbid) /\ In(queue') = In(queue)
        BY <3>1 DEF Check
      <3> QED
        BY <1>0, <2>0, <2>1, <3>1, <3>2
    <2> QED
      BY <1>2, <2>4, <2>5, <2>6, <2>7, <2>8, <2>9, <2>10, <2>11 DEF GuiStep, Handle
  <1>3. CASE UNCHANGED vars
    <2>1. Check(fbid)' = Check(fbid)
      BY <1>3 DEF vars, Check
    <2> QED
      BY <1>0, <1>3, <1>S, <2>1 DEF vars, OnTheWayNow, OnTheWay
  <1> QED
    BY <1>1, <1>2, <1>3, StepIs

LEMMA MatchingInvariance == Spec => [](Types /\ Sharing /\ Standing /\ Matching)
  <1>1. Types /\ Sharing /\ Standing /\ Standing' /\ Matching /\ [Next]_vars => Matching'
    BY ChecksStep, BringingStep, TakingStep, ActivityStep, EnrolledStep
    DEF Matching, Standing
  <1> QED
    BY <1>1, SharingInvariance, InitStanding, StandingStep, InitMatching, PTL DEF Spec

(* Whichever comes second, the client or the controller, once nobody is on *)
(* the way the controller is registered for its key, unless an operator[]  *)
(* has orphaned it, and one that is registered shows the backend of its    *)
(* key, if there is one, unless a controller has changed its key or a      *)
(* check has erased a backend that came after its look-up                  *)
(* (tryToMatchUp, associateSHM, isControllerAssociated).                   *)
THEOREM TheTwoMeet == Spec => []MatchedUp
  <1> QED
    BY MatchingInvariance, MatchingIs, PTL

-----------------------------------------------------------------------------
(* Who waits for whom.                                                     *)

(* Between paints isMidPaint is set only when a paint is scheduled.        *)
Promised == brush = "idle" /\ midPaint => dirty

LEMMA OneDeadlockIs == Types /\ Sharing /\ Promised => OneDeadlock
  <1> SUFFICES ASSUME Types, Sharing, Promised, mutex # None, ~HolderMoves, ~PaintComes
               PROVE  gui = "input"
    BY DEF OneDeadlock
  <1>1. Locked(mutex)
    BY DEF Sharing, Owned
  <1>2. ~IsNull(held[mutex]) /\ midPaint
    BY <1>1 DEF HolderMoves
  <1>3. brush = "idle" /\ ctl # Null
    BY <1>2 DEF PaintComes, IsNull
  <1> QED
    BY <1>2, <1>3 DEF Promised, PaintComes

LEMMA PromisedStep == Types /\ Promised /\ [Next]_vars => Promised'
  <1> SUFFICES ASSUME Types, Promised, [Next]_vars PROVE Promised'
    OBVIOUS
  <1> USE Bounds DEF guiVars, itemVars, Promised
  <1>1. CASE UNCHANGED <<brush, midPaint, dirty>>
    BY <1>1
  <1>2. ASSUME NEW c \in Clients, Client(c) PROVE UNCHANGED <<brush, midPaint, dirty>>
    BY <1>2, ClientCases, Visited DEF Apart
  <1>3. CASE Create \/ SetActive \/ MarkedUpdate
    BY <1>3 DEF Create, SetActive, MarkedUpdate
  <1>4. CASE Vanish \/ PaintEnd
    BY <1>4 DEF Vanish, PaintEnd
  <1>5. CASE PaintBegin \/ PaintTest
    BY <1>5 DEF PaintBegin, PaintTest, None
  <1>6. CASE PaintImage
    BY <1>6, Kinds DEF PaintImage, None
  <1>7. CASE GuiStep
    BY <1>1, <1>3, <1>4, <1>5, <1>6, <1>7
    DEF GuiStep, SetFramebufferID, Destroy, Input, Handle, ForwardUserInput, Register,
        Emplace, Look, Take, Deref, Attach, HandleCheck, Erase, ReadImage, Paint
  <1>8. CASE UNCHANGED vars
    BY <1>1, <1>8 DEF vars
  <1> QED
    BY <1>1, <1>2, <1>7, <1>8, StepIs

(* Of all the orders in which a client may end during a paint only one     *)
(* leaves everyone waiting: the GUI thread in forwardUserInput(), before   *)
(* the mutex whose holder waits for a paint.                               *)
THEOREM NobodyElseIsStuck == Spec => []OneDeadlock
  <1>1. Init => Promised
    BY DEF Init, Promised
  <1> QED
    BY <1>1, PromisedStep, SharingInvariance, OneDeadlockIs, PTL DEF Spec
=============================================================================
