------------------------------- MODULE MCCast -------------------------------
(* Values for the constants of Cast: a corner, redrawn alone by a small    *)
(* rectangle that bypasses the frame cap, and the whole panel.             *)
EXTENDS Cast

Corner == {"corner"}
Panel == {"corner", "rest"}
CornerAndAll == {Corner, Panel}
CornerOnly == {Corner}
=============================================================================
