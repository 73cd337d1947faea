------------------------------- MODULE Mirror -------------------------------
(***************************************************************************)
(* What casting to vncast promises, without saying how: while a session is *)
(* live its picture is drawn tile by tile, and the page shows of each tile *)
(* what was last drawn or something drawn earlier, never later followed by *)
(* earlier, and in the end what was last drawn.                            *)
(*                                                                         *)
(* Frames are numbered from 1 as they are drawn; a tile holds the number   *)
(* of the frame whose pixels it has, Blank before the first.               *)
(***************************************************************************)
EXTENDS Integers

CONSTANT Tiles
Blank == 0

VARIABLES
    live,       \* the session's picture is being drawn
    drawn,      \* frame that last drew each tile in this session
    shown       \* frame whose pixels the page shows in each tile
vars == <<live, drawn, shown>>

AllBlank == [t \in Tiles |-> Blank]

Init == ~live /\ drawn = AllBlank /\ shown = AllBlank

(* A page opens or closes: a new session finds it empty.                   *)
Turn == /\ ~live /\ ~live'
        /\ shown' = AllBlank /\ drawn' \in {drawn, AllBlank}

(* It begins before anything of it is drawn.                               *)
Begin == ~live /\ live' /\ drawn = AllBlank /\ UNCHANGED <<drawn, shown>>

Draw == /\ live /\ live'
        /\ drawn' \in [Tiles -> Nat]
        /\ \A t \in Tiles : drawn'[t] >= drawn[t]
        /\ UNCHANGED shown

(* A tile catches up with what is drawn.                                   *)
Show(t) == /\ shown' = [shown EXCEPT ![t] = drawn[t]]
           /\ UNCHANGED <<live, drawn>>

End == live /\ ~live' /\ UNCHANGED drawn /\ shown' \in {shown, AllBlank}

(* Only once the session is over may a tile lose its pixels.               *)
Clear(t) == /\ ~live
            /\ shown' = [shown EXCEPT ![t] = Blank]
            /\ UNCHANGED <<live, drawn>>

Next == \/ Turn
        \/ Begin
        \/ Draw
        \/ \E t \in Tiles : Show(t) \/ Clear(t)
        \/ End

Spec == Init /\ [][Next]_vars

Behind(t) == live /\ shown[t] # drawn[t]

(* What is drawn is shown, as long as the session lasts.                   *)
EveryFrameShown == \A t \in Tiles : Behind(t) ~> ~Behind(t)
=============================================================================
