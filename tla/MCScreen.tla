------------------------------ MODULE MCScreen ------------------------------
(* Values for the constants of Screen that a configuration cannot write.   *)
EXTENDS Screen

R(a, b, c, d) == [x |-> a, y |-> b, w |-> c, h |-> d]

(* A panel of 2 x 3 cells, portrait like the device, and a desktop that    *)
(* fills it when turned; the other desktop is smaller than the panel.      *)
Wide == {[w |-> 3, h |-> 2]}
WideAndSmall == Wide \cup {[w |-> 1, h |-> 2]}

(* Any two of these merge: the box never more than doubles their area.     *)
Near == {R(0, 0, 1, 2), R(2, 0, 1, 2), R(0, 1, 3, 1)}
(* Opposite corners: a box of six pixels for two, refused.                 *)
Far == {R(0, 0, 1, 1), R(2, 1, 1, 1)}

NearAndFar == Near \cup Far

FullOnly == {}

NoTilts == [d \in {} |-> "Auto"]
(* map_device_to_blit's defaults, on the two tilts that differ.            *)
Tilts == [PortraitUp |-> "LandscapeCW", PortraitDown |-> "LandscapeCCW"]

NoCells == {}
Corner == {<<0, 0>>, <<1, 2>>}
=============================================================================
