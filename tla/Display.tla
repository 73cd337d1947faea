------------------------------- MODULE Display -------------------------------
(***************************************************************************)
(* What vnsee promises of the panel while the orientation is fixed,        *)
(* without saying how: the picture never goes back.  A pixel that is shown *)
(* stays shown until the server sends it anew or the desktop is replaced,  *)
(* whatever is repainted, flushed or refreshed in the meantime.            *)
(***************************************************************************)

CONSTANT Pixel

VARIABLES
    received,   \* pixels the server has sent that have a place on the panel
    shown       \* those the panel shows as they were last sent
vars == <<received, shown>>

Init == received = {} /\ shown = {}

(* A new desktop: nothing of the old one counts.                           *)
Replace == received' = {} /\ shown' = {}

(* The pixels of r get new values, which no cell shows yet.                *)
Receive(r) == /\ received' = received \cup r
              /\ shown' = shown \ r

(* The panel catches up, in part or in full, and gives nothing up.         *)
Show == /\ shown \subseteq shown' /\ shown' \subseteq received
        /\ UNCHANGED received

Next == Replace \/ (\E r \in SUBSET Pixel : Receive(r)) \/ Show

Spec == Init /\ [][Next]_vars
=============================================================================
