------------------------------ MODULE Geometry ------------------------------
(***************************************************************************)
(* Rectangles, the damage-merge arithmetic and the rotation maps of vnsee  *)
(* (src/src/app/screen.cpp).  A pixel is a pair <<column, row>>; a size is *)
(* a record [w, h]; a rectangle is a record [x, y, w, h] as in             *)
(* update_info_struct.  Everything here is a pure function of its          *)
(* arguments, with the integer arithmetic of the source.                   *)
(***************************************************************************)
EXTENDS Integers

(* vnsee::Orientation without the Auto sentinel, which effective_ never    *)
(* holds once the constructor has run.                                     *)
Orientations == {"Portrait", "LandscapeCW", "InvertedPortrait", "LandscapeCCW"}

Size == [w : Nat, h : Nat]
Rect == [x : Nat, y : Nat, w : Nat, h : Nat]
NoRect == [x |-> 0, y |-> 0, w |-> 0, h |-> 0]
FullRect(sz) == [x |-> 0, y |-> 0, w |-> sz.w, h |-> sz.h]

(* The pixels a rectangle covers: none when its width or height is <= 0.   *)
Pix(r) == (r.x .. r.x + r.w - 1) \X (r.y .. r.y + r.h - 1)
Pixels(sz) == Pix(FullRect(sz))
Within(r, sz) == r.x + r.w <= sz.w /\ r.y + r.h <= sz.h
Empty(r) == r.w <= 0 \/ r.h <= 0

-----------------------------------------------------------------------------
(* commit_updates: the bounding box of the accumulated and the new damage, *)
(* and the test that refuses a merge that would more than double the area. *)

Lesser(a, b) == IF a <= b THEN a ELSE b
Greater(a, b) == IF a >= b THEN a ELSE b

(* With the right edge of the old box forgotten; and as the code has it.   *)
MergeForgetsEdge(a, b) ==
    LET left == Lesser(a.x, b.x)
        top == Lesser(a.y, b.y)
    IN [x |-> left, y |-> top, w |-> b.x + b.w - left,
        h |-> Greater(a.y + a.h, b.y + b.h) - top]

Merge(a, b) ==
    LET left == Lesser(a.x, b.x)
        top == Lesser(a.y, b.y)
    IN [x |-> left, y |-> top,
        w |-> Greater(a.x + a.w, b.x + b.w) - left,
        h |-> Greater(a.y + a.h, b.y + b.h) - top]

Area(r) == r.w * r.h
(* With the factor two dropped; and as the code has it.                    *)
BadMergeTight(a, b) == Area(Merge(a, b)) > Area(a) + Area(b)

BadMerge(a, b) == Area(Merge(a, b)) > 2 * (Area(a) + Area(b))

-----------------------------------------------------------------------------
(* blit_rotated: clamping, the forward map of one pixel, and the panel     *)
(* rectangle it reports for a source rectangle.                            *)

ClampTo(r, sz) ==
    LET x == IF r.x < 0 THEN 0 ELSE r.x
        y == IF r.y < 0 THEN 0 ELSE r.y
        w == IF r.x < 0 THEN r.w + r.x ELSE r.w
        h == IF r.y < 0 THEN r.h + r.y ELSE r.h
    IN [x |-> x, y |-> y,
        w |-> IF x + w > sz.w THEN sz.w - x ELSE w,
        h |-> IF y + h > sz.h THEN sz.h - y ELSE h]

ToPanel(o, sz, p) ==
    CASE o = "Portrait"         -> p
      [] o = "InvertedPortrait" -> <<sz.w - 1 - p[1], sz.h - 1 - p[2]>>
      [] o = "LandscapeCW"      -> <<sz.h - 1 - p[2], p[1]>>
      [] o = "LandscapeCCW"     -> <<p[2], sz.w - 1 - p[1]>>

(* The turned rectangle with the source's width and height, then with its  *)
(* corner not mirrored; and as the code reports it.                        *)
RotatedRectUnswapped(o, sz, r) ==
    [x |-> r.y, y |-> sz.w - r.x - r.w, w |-> r.w, h |-> r.h]

RotatedRectUnmirrored(o, sz, r) == [x |-> r.y, y |-> r.x, w |-> r.h, h |-> r.w]

RotatedRect(o, sz, r) ==
    CASE o = "Portrait"         -> r
      [] o = "InvertedPortrait" ->
            [x |-> sz.w - r.x - r.w, y |-> sz.h - r.y - r.h, w |-> r.w, h |-> r.h]
      [] o = "LandscapeCW"      ->
            [x |-> sz.h - r.y - r.h, y |-> r.x, w |-> r.h, h |-> r.w]
      [] o = "LandscapeCCW"     ->
            [x |-> r.y, y |-> sz.w - r.x - r.w, w |-> r.h, h |-> r.w]

(* The rectangle handed back for device.update(): empty when nothing of r  *)
(* lies in the source or nothing of its image lies on the panel.           *)
PanelRect(o, sz, panelSize, r) ==
    LET in == ClampTo(r, sz)
        out == ClampTo(RotatedRect(o, sz, in), panelSize)
    IN IF Empty(in) \/ Empty(out) THEN NoRect ELSE out

(* transform_input: the server pixel a touch at panel cell q is sent to    *)
(* (by the forward map, a sign convention mistaken; and as the code does). *)
ToSourceForward(o, sz, q) == ToPanel(o, sz, q)

ToSource(o, sz, q) ==
    CASE o = "Portrait"         -> q
      [] o = "InvertedPortrait" -> <<sz.w - 1 - q[1], sz.h - 1 - q[2]>>
      [] o = "LandscapeCW"      -> <<q[2], sz.h - 1 - q[1]>>
      [] o = "LandscapeCCW"     -> <<sz.w - 1 - q[2], q[1]>>

=============================================================================
