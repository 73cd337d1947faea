--------------------------- MODULE GeometryProofs ---------------------------
(* Lemmas about the rectangle and rotation arithmetic of vnsee, for every  *)
(* size, rectangle and orientation, and theorems about the tilts that its  *)
(* sensor reports, for every reading.                                      *)
EXTENDS Geometry, Tilt, TLAPS

(* A pixel lies in a rectangle when its coordinates lie in its spans: the  *)
(* form in which the arithmetic provers see Pix.                           *)
LEMMA InPix ==
    ASSUME NEW r \in [x : Int, y : Int, w : Int, h : Int], NEW p
    PROVE  p \in Pix(r) <=> /\ p = <<p[1], p[2]>>
                            /\ p[1] \in Int /\ p[2] \in Int
                            /\ r.x <= p[1] /\ p[1] < r.x + r.w
                            /\ r.y <= p[2] /\ p[2] < r.y + r.h
  BY DEF Pix

(* commit_updates (579-584): the bounding box is a rectangle that covers   *)
(* the old damage and the new.                                             *)
LEMMA MergeCovers ==
    ASSUME NEW a \in Rect, NEW b \in Rect
    PROVE  /\ Merge(a, b) \in Rect
           /\ Pix(a) \subseteq Pix(Merge(a, b))
           /\ Pix(b) \subseteq Pix(Merge(a, b))
  <1>1. Merge(a, b) \in Rect
    BY DEF Merge, Rect, Lesser, Greater
  <1>2. /\ Pix(a) \subseteq Pix(Merge(a, b))
        /\ Pix(b) \subseteq Pix(Merge(a, b))
    BY DEF Pix, Merge, Rect, Lesser, Greater
  <1> QED
    BY <1>1, <1>2

(* transform_input undoes blit_rotated, and the other way round.           *)
THEOREM TouchInvertsBlit ==
    ASSUME NEW o \in Orientations, NEW sz \in Size, NEW p \in Int \X Int
    PROVE  /\ ToSource(o, sz, ToPanel(o, sz, p)) = p
           /\ ToPanel(o, sz, ToSource(o, sz, p)) = p
  <1>1. CASE o = "Portrait"
    BY <1>1 DEF ToSource, ToPanel
  <1>2. CASE o = "InvertedPortrait"
    BY <1>2 DEF ToSource, ToPanel, Size
  <1>3. CASE o = "LandscapeCW"
    BY <1>3 DEF ToSource, ToPanel, Size
  <1>4. CASE o = "LandscapeCCW"
    BY <1>4 DEF ToSource, ToPanel, Size
  <1> QED
    BY <1>1, <1>2, <1>3, <1>4 DEF Orientations

LEMMA ToPanelType ==
    ASSUME NEW o \in Orientations, NEW sz \in Size, NEW p \in Int \X Int
    PROVE  ToPanel(o, sz, p) \in Int \X Int
  BY DEF Orientations, ToPanel, Size

LEMMA ToSourceType ==
    ASSUME NEW o \in Orientations, NEW sz \in Size, NEW p \in Int \X Int
    PROVE  ToSource(o, sz, p) \in Int \X Int
  BY DEF Orientations, ToSource, Size

(* blit_rotated's first clamp (358-363) keeps exactly the part of a        *)
(* rectangle that lies in the source.                                      *)
LEMMA ClampKeeps ==
    ASSUME NEW r \in Rect, NEW sz \in Size
    PROVE  Pix(ClampTo(r, sz)) = Pix(r) \cap Pixels(sz)
  BY DEF Pix, Pixels, FullRect, ClampTo, Rect, Size

(* blit_rotated as a whole: a cell of the panel that it writes lies in the *)
(* rectangle it reports for device.update().                               *)
THEOREM BlitReported ==
    ASSUME NEW o \in Orientations, NEW sz \in Size, NEW panelSize \in Size,
           NEW r \in Rect, NEW p \in Pix(ClampTo(r, sz)),
           ToPanel(o, sz, p) \in Pixels(panelSize)
    PROVE  ToPanel(o, sz, p) \in Pix(PanelRect(o, sz, panelSize, r))
  <1> DEFINE in == ClampTo(r, sz)
  <1> DEFINE turned == RotatedRect(o, sz, in)
  <1> DEFINE out == ClampTo(turned, panelSize)
  <1> DEFINE q == ToPanel(o, sz, p)
  <1> DEFINE Box == [x : Int, y : Int, w : Int, h : Int]
  <1>1. in \in Box /\ in.x >= 0 /\ in.y >= 0
    BY DEF ClampTo, Rect, Size
  <1>2. /\ p = <<p[1], p[2]>> /\ p[1] \in Int /\ p[2] \in Int
        /\ in.x <= p[1] /\ p[1] < in.x + in.w
        /\ in.y <= p[2] /\ p[2] < in.y + in.h
    BY <1>1, InPix
  <1>3. turned \in Box /\ q \in Pix(turned)
    <2> HIDE DEF in
    <2>1. CASE o = "Portrait"
      BY <2>1, <1>1, <1>2 DEF RotatedRect, ToPanel, Pix
    <2>2. CASE o = "InvertedPortrait"
      BY <2>2, <1>1, <1>2 DEF RotatedRect, ToPanel, Pix, Size
    <2>3. CASE o = "LandscapeCW"
      BY <2>3, <1>1, <1>2 DEF RotatedRect, ToPanel, Pix, Size
    <2>4. CASE o = "LandscapeCCW"
      BY <2>4, <1>1, <1>2 DEF RotatedRect, ToPanel, Pix, Size
    <2> QED
      BY <2>1, <2>2, <2>3, <2>4 DEF Orientations
  <1>4. q \in Pix(out)
    <2>1. q \in Pixels(panelSize)
      OBVIOUS
    <2> HIDE DEF turned, q
    <2> QED
      BY <1>3, <2>1 DEF Pix, Pixels, FullRect, ClampTo, Size
  <1>5. ~Empty(in)
    BY <1>1, <1>2 DEF Empty
  <1>6. ~Empty(out)
    <2> HIDE DEF q, turned
    <2>1. out \in Box
      BY <1>3 DEF ClampTo, Size
    <2> QED
      BY <1>4, <2>1 DEF Empty, Pix
  <1> QED
    BY <1>4, <1>5, <1>6 DEF PanelRect

(* What blit_rotated reports is a rectangle without negative fields.       *)
LEMMA PanelRectType ==
    ASSUME NEW o \in Orientations, NEW sz \in Size, NEW panelSize \in Size,
           NEW r \in Rect
    PROVE  PanelRect(o, sz, panelSize, r) \in Rect
  <1> DEFINE in == ClampTo(r, sz)
  <1> DEFINE turned == RotatedRect(o, sz, in)
  <1> DEFINE Box == [x : Int, y : Int, w : Int, h : Int]
  <1>1. in \in Box
    BY DEF ClampTo, Rect, Size
  <1>2. turned \in Box
    <2> HIDE DEF in
    <2> QED
      BY <1>1 DEF RotatedRect, Orientations, Size
  <1>3. ~Empty(ClampTo(turned, panelSize)) => ClampTo(turned, panelSize) \in Rect
    <2> HIDE DEF turned
    <2> QED
      BY <1>2 DEF ClampTo, Empty, Rect, Size
  <1> QED
    BY <1>3 DEF PanelRect, NoRect, Rect
-----------------------------------------------------------------------------
(* The tilt of the tablet.                                                 *)

Opposite == [Unknown |-> "Unknown",
             PortraitUp |-> "PortraitDown", PortraitDown |-> "PortraitUp",
             LandscapeLeft |-> "LandscapeRight", LandscapeRight |-> "LandscapeLeft"]

(* A tilt is reported only of an axis that gravity pulls along: strongly,  *)
(* and no less than along the two others (classify's order of tests).      *)
THEOREM StrongestAxis ==
  ASSUME NEW x \in Int, NEW y \in Int, NEW z \in Int
  PROVE  /\ Classify(x, y, z) \in {"PortraitUp", "PortraitDown"} =>
              /\ Abs(y) >= kDominanceThreshold
              /\ Abs(y) > Abs(x) /\ Abs(y) >= Abs(z)
         /\ Classify(x, y, z) \in {"LandscapeLeft", "LandscapeRight"} =>
              /\ Abs(x) >= kDominanceThreshold
              /\ Abs(x) >= Abs(y) /\ Abs(x) >= Abs(z)
  BY DEF Classify, Flat, Abs, kDominanceThreshold

(* Half a turn in the plane of the panel gives the opposite tilt, so that  *)
(* classify() favours no way of holding the tablet.                        *)
THEOREM TurnedOver ==
  ASSUME NEW x \in Int, NEW y \in Int, NEW z \in Int
  PROVE  Classify(-x, -y, z) = Opposite[Classify(x, y, z)]
  BY DEF Classify, Flat, Abs, Opposite, kDominanceThreshold

(* The threshold is no hysteresis, as its comment says it is ("an axis     *)
(* must dominate by at least this much before we flip orientation"): each  *)
(* axis is compared with the threshold alone, and a tablet held at 45      *)
(* degrees turns the picture by a reading that changes by one.             *)
THEOREM NoHysteresis ==
  ASSUME NEW n \in Int, n >= kDominanceThreshold
  PROVE  /\ Classify(n, n, 0) = "LandscapeLeft"
         /\ Classify(n, n + 1, 0) = "PortraitUp"
  BY DEF Classify, Flat, Abs, kDominanceThreshold
=============================================================================
