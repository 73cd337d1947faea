---------------------------- MODULE ScreenProofs ----------------------------
(* Theorems about Screen, for every panel, every set of desktop sizes and  *)
(* of damage rectangles, either backend, with and without --auto-rotate.   *)
EXTENDS Screen, GeometryProofs

(* The count of rectangles still to come is what lets the decoder take one *)
(* more; without it the type of left is not inductive.                     *)
RectsRemain == pc.main = "rects" => left > 0
Inv == TypeOK /\ RectsRemain

LEMMA PanelType == Panel \in Size /\ Cells = Pixels(Panel) /\ Cells \subseteq Nat \X Nat
                   /\ <<0, 0>> \in Cells
  BY PanelAssumption DEF Panel, Cells, Pixels, Pix, FullRect, Size

LEMMA SrcType == TypeOK => src \in Size
  BY SizesAssumption DEF TypeOK, NoSize, Size

LEMMA FullRectType ==
    ASSUME NEW sz \in Size
    PROVE  FullRect(sz) \in Rect /\ Pix(FullRect(sz)) = Pixels(sz)
  BY DEF FullRect, Size, Rect, Pixels

LEMMA DamageRectType ==
    ASSUME TypeOK, NEW r \in DamageRects
    PROVE  r \in Rect /\ Pix(r) \subseteq Pixels(src)
  <1>1. src \in Size
    BY SrcType
  <1>2. CASE r = FullRect(src)
    BY <1>1, <1>2, FullRectType
  <1>3. CASE r \in UpdateRects /\ Within(r, src)
    BY <1>1, <1>3, RectsAssumption DEF Within, Pix, Pixels, FullRect, Size, Rect
  <1> QED
    BY <1>2, <1>3 DEF DamageRects

LEMMA ResolveType ==
    ASSUME TypeOK, NEW sz
    PROVE  Resolve(sz) \in Orientations
  BY DEF TypeOK, Resolve, Orientations

(* A pixel that lands on a cell is one of the source's.                    *)
LEMMA LandingType ==
    ASSUME TypeOK, NEW q, NEW p \in Landing(q, info.rect)
    PROVE  /\ p \in Pix(info.rect) /\ p \in Pixels(src)
           /\ p \in Nat \X Nat
           /\ ToPanel(effective, src, p) = q
  <1>1. src \in Size /\ info.rect \in Rect
    BY SrcType DEF TypeOK
  <1>2. p \in Pix(info.rect) \cap Pixels(src)
    BY <1>1, ClampKeeps DEF Landing
  <1>3. p \in Nat \X Nat
    BY <1>1, <1>2 DEF Pixels, Pix, FullRect, Size
  <1> QED
    BY <1>2, <1>3 DEF Landing

LEMMA InitInv == Init => Inv
  <1> SUFFICES ASSUME Init PROVE Inv
    OBVIOUS
  <1> USE DEF Init
  <1>1. effective \in Orientations
    BY ModeAssumption DEF Orientations
  <1>2. received \subseteq Pixels(src) /\ left \in 0 .. MaxRects
    BY RectsAssumption
  <1>3. /\ info \in [rect : Rect, has : BOOLEAN] /\ snap = info
        /\ cur \in Rect /\ dst \in [Painters -> Rect]
    BY DEF Nothing, NoRect, Rect
  <1>4. pointer \in [at : Cells, to : Int \X Int, button : {"Left", "None"}]
    BY PanelType
  <1>5. /\ fb \in [Cells -> (Nat \X Nat) \cup {Stale}]
        /\ panel \in [Cells -> (Nat \X Nat) \cup {Stale}]
    OBVIOUS
  <1>6. /\ pc \in [main : {"init", "poll", "rects", "commitRead", "commitWrite",
                          "loop", "clear", "blit", "present", "closed"},
                   input : {"absent", "idle", "lift", "clear", "blit", "present"},
                   sensor : {"absent", "idle", "mark"}]
        /\ RectsRemain
    BY DEF RectsRemain
  <1> HIDE DEF Init
  <1>7. /\ src \in SrcSizes \cup {NoSize} /\ timed \in BOOLEAN
        /\ tilt \in DOMAIN BlitOf \cup {"Unknown"}
    BY DEF Init
  <1>9. age \in 0 .. 2 /\ mode \in {"fast", "standard"}
    BY DEF Init
  <1>8. snap \in [rect : Rect, has : BOOLEAN]
    BY <1>3
  <1> QED
    BY <1>1, <1>2, <1>3, <1>4, <1>5, <1>6, <1>7, <1>8, <1>9 DEF Inv, TypeOK

(* The picture a source buffer allocation leaves.                          *)
LEMMA CreateFramebufType ==
    ASSUME TypeOK, NEW sz \in SrcSizes, CreateFramebuf(sz)
    PROVE  /\ src' \in SrcSizes \cup {NoSize}
           /\ effective' \in Orientations
           /\ received' \subseteq Pixels(src')
           /\ fb' \in [Cells -> (Nat \X Nat) \cup {Stale}]
           /\ panel' \in [Cells -> (Nat \X Nat) \cup {Stale}]
  BY ResolveType DEF CreateFramebuf

LEMMA PresentType ==
    ASSUME TypeOK, NEW r, Present(r)
    PROVE  panel' \in [Cells -> (Nat \X Nat) \cup {Stale}]
  BY DEF TypeOK, Present

LEMMA TouchType ==
    ASSUME TypeOK, NEW q \in Cells, NEW b \in {"Left", "None"}, SendPointer(q, b)
    PROVE  pointer' \in [at : Cells, to : Int \X Int, button : {"Left", "None"}]
  <1>1. q \in Int \X Int /\ src \in Size /\ effective \in Orientations
    BY PanelType, SrcType DEF TypeOK
  <1>2. ToSource(effective, src, q) \in Int \X Int
    BY <1>1, ToSourceType
  <1> QED
    BY <1>2 DEF SendPointer

(* What a step leaves alone keeps its type.                                *)
LEMMA PointerSideType ==
    ASSUME TypeOK, UNCHANGED <<pointer, tilt>>
    PROVE  /\ pointer' \in [at : Cells, to : Int \X Int, button : {"Left", "None"}]
           /\ tilt' \in DOMAIN BlitOf \cup {"Unknown"}
  BY DEF TypeOK

LEMMA NextInv == Inv /\ [Next]_vars => Inv'
  <1> SUFFICES ASSUME Inv, [Next]_vars PROVE Inv'
    OBVIOUS
  <1> USE DEF Inv, TypeOK, RectsRemain, Goto
  <1>0. src \in Size
    BY SrcType
  <1>1. ASSUME NEW sz \in SrcSizes, Connect(sz) PROVE Inv'
    <2>1. CreateFramebuf(sz)
      BY <1>1 DEF Connect
    <2> QED
      BY <1>1, <2>1, CreateFramebufType DEF Connect, loopVars, commitVars
  <1>2. ASSUME NEW sz \in SrcSizes, Resize(sz) PROVE Inv'
    <2>1. CreateFramebuf(sz)
      BY <1>2 DEF Resize
    <2>2. left' \in 0 .. MaxRects /\ (pc'.main = "rects" => left' > 0)
      BY <1>2, RectsAssumption DEF Resize, Rest
    <2>3. pc' \in [main : {"init", "poll", "rects", "commitRead", "commitWrite",
                          "loop", "clear", "blit", "present", "closed"},
                   input : {"absent", "idle", "lift", "clear", "blit", "present"},
                   sensor : {"absent", "idle", "mark"}]
      BY <1>2 DEF Resize, Rest
    <2> QED
      BY <1>2, <2>1, <2>2, <2>3, CreateFramebufType DEF Resize, commitVars
  <1>3. ASSUME NEW n \in 0 .. MaxRects, MessageArrives(n) PROVE Inv'
    <2>1. left' \in 0 .. MaxRects /\ (pc'.main = "rects" => left' > 0)
      BY <1>3, RectsAssumption DEF MessageArrives
    <2> QED
      BY <1>3, <2>1 DEF MessageArrives, pictureVars, commitVars
  <1>4. ASSUME NEW r \in DamageRects, RecvRect(r) PROVE Inv'
    <2>1. r \in Rect /\ received' \subseteq Pixels(src)
      BY <1>4, DamageRectType DEF RecvRect
    <2>2. /\ fb' \in [Cells -> (Nat \X Nat) \cup {Stale}]
          /\ panel' \in [Cells -> (Nat \X Nat) \cup {Stale}]
      BY <1>4 DEF RecvRect, Outdate
    <2>3. left' \in 0 .. MaxRects
      BY <1>4, RectsAssumption DEF RecvRect
    <2> QED
      BY <1>4, <2>1, <2>2, <2>3 DEF RecvRect
  <1>5. ASSUME ServerCloses PROVE Inv'
    BY <1>5 DEF ServerCloses, pictureVars, loopVars, commitVars
  <1>6. ASSUME CommitRead PROVE Inv'
    BY <1>6 DEF CommitRead, pictureVars, loopVars
  <1>7. ASSUME CommitWrite PROVE Inv'
    <2>1. info' \in [rect : Rect, has : BOOLEAN]
      <3>1. CASE StartFresh \/ FlushBadMerge
        <4>1. info' = [rect |-> cur, has |-> TRUE] /\ cur \in Rect
          BY <3>1 DEF StartFresh, FlushBadMerge
        <4> QED
          BY <4>1
      <3>2. CASE MergeIn
        <4>1. Merge(snap.rect, cur) \in Rect
          BY MergeCovers
        <4> QED
          BY <3>2, <4>1 DEF MergeIn
      <3> QED
        BY <1>7, <3>1, <3>2 DEF CommitWrite
    <2>2. panel' \in [Cells -> (Nat \X Nat) \cup {Stale}]
      BY <1>7, PresentType DEF CommitWrite, StartFresh, FlushBadMerge, MergeIn
    <2> QED
      BY <1>7, <2>1, <2>2 DEF CommitWrite, Rest, loopVars, Nothing, NoRect, Rect
  <1>8. ASSUME EventLoop PROVE Inv'
    BY <1>8 DEF EventLoop, MustWait, pictureVars, commitVars
  <1>9. ASSUME PollTimeout PROVE Inv'
    BY <1>9 DEF PollTimeout, pictureVars, commitVars
  <1>10. ASSUME Tick PROVE Inv'
    BY <1>10 DEF Tick, pictureVars, loopVars, commitVars
  <1>11. ASSUME NEW t \in Painters, RepaintClear(t) PROVE Inv'
    <2>1. info' \in [rect : Rect, has : BOOLEAN]
      BY <1>11 DEF RepaintClear
    <2>2. age' \in 0 .. 2
      BY <1>11 DEF RepaintClear
    <2> QED
      BY <1>11, <2>1, <2>2 DEF RepaintClear, Painters, pictureVars, loopVars, commitVars
  <1>12. ASSUME NEW t \in Painters, RepaintBlit(t) PROVE Inv'
    <2>1. dst' \in [Painters -> Rect]
      BY <1>0, <1>12, PanelRectType, PanelType DEF RepaintBlit
    <2>2. fb' \in [Cells -> (Nat \X Nat) \cup {Stale}]
      <3>1. ASSUME NEW q \in Cells, Landing(q, info.rect) # {}
            PROVE  (CHOOSE p \in Landing(q, info.rect) : TRUE) \in Nat \X Nat
        BY <3>1, LandingType
      <3> QED
        BY <1>12, <3>1 DEF RepaintBlit, Drawn
    <2>3. /\ pc' \in [main : {"init", "poll", "rects", "commitRead", "commitWrite",
                          "loop", "clear", "blit", "present", "closed"},
                   input : {"absent", "idle", "lift", "clear", "blit", "present"},
                   sensor : {"absent", "idle", "mark"}]
          /\ pc'.main = "rects" => pc.main = "rects"
      BY <1>12 DEF RepaintBlit, Painters, Home
    <2> QED
      BY <1>12, <2>1, <2>2, <2>3 DEF RepaintBlit, loopVars, commitVars
  <1>13. ASSUME NEW t \in Painters, RepaintPresent(t) PROVE Inv'
    <2>1. panel' \in [Cells -> (Nat \X Nat) \cup {Stale}]
      BY <1>13, PresentType DEF RepaintPresent
    <2>2. dst' \in [Painters -> Rect]
      BY <1>13 DEF RepaintPresent, NoRect, Rect
    <2> QED
      BY <1>13, <2>1, <2>2 DEF RepaintPresent, Painters, Home, loopVars, commitVars
  <1>14. ASSUME NEW kind \in {"press", "update", "release"}, NEW q \in TouchCells,
                InputTouch(kind, q)
         PROVE  Inv'
    <2>1. pointer' \in [at : Cells, to : Int \X Int, button : {"Left", "None"}]
      BY <1>14, TouchType, TouchAssumption DEF InputTouch
    <2> QED
      BY <1>14, <2>1 DEF InputTouch, pictureVars, loopVars, commitVars
  <1>15. ASSUME InputLift PROVE Inv'
    <2>1. pointer' \in [at : Cells, to : Int \X Int, button : {"Left", "None"}]
      BY <1>15, TouchType DEF InputLift
    <2> QED
      BY <1>15, <2>1 DEF InputLift, pictureVars, loopVars, commitVars
  <1>16. ASSUME KeyboardOpens \/ KeyboardCloses PROVE Inv'
    BY <1>16 DEF KeyboardOpens, KeyboardCloses, pictureVars, loopVars, commitVars
  <1>17. ASSUME ButtonHome PROVE Inv'
    BY <1>17, PresentType DEF ButtonHome, loopVars, commitVars
  <1>18. ASSUME ButtonPower PROVE Inv'
    BY <1>18 DEF ButtonPower, pictureVars, loopVars, commitVars
  <1>19. ASSUME NEW d \in DOMAIN BlitOf, SensorTilt(d) PROVE Inv'
    <2>1. effective' \in Orientations
      BY <1>19, TiltAssumption DEF SensorTilt
    <2> QED
      BY <1>19, <2>1 DEF SensorTilt, pictureVars, loopVars, commitVars
  <1>20. ASSUME SensorMark PROVE Inv'
    <2>1. info' \in [rect : Rect, has : BOOLEAN]
      BY <1>0, <1>20, FullRectType DEF SensorMark, WholeSource
    <2> QED
      BY <1>20, <2>1 DEF SensorMark, pictureVars, loopVars, commitVars
  <1>21. CASE UNCHANGED vars
    BY <1>21 DEF vars
  <1> HIDE DEF Inv, TypeOK, RectsRemain, Goto
  <1> QED
    BY <1>1, <1>2, <1>3, <1>4, <1>5, <1>6, <1>7, <1>8, <1>9, <1>10, <1>11,
       <1>12, <1>13, <1>14, <1>15, <1>16, <1>17, <1>18, <1>19, <1>20, <1>21
    DEF Next, DecodeRest, MainStep, InputStep, Clock, Network, User, Sensor,
        Repaint, Painters

(* Type correctness (TypeOK), strengthened with RectsRemain.               *)
THEOREM InvHolds == Spec => []Inv
  BY InitInv, NextInv, PTL DEF Spec

THEOREM TypeCorrect == Spec => []TypeOK
  <1>1. Inv => TypeOK
    BY DEF Inv
  <1> QED
    BY <1>1, InvHolds, PTL
-----------------------------------------------------------------------------
(* A blit writes only cells of the rectangle it reports.                   *)
LEMMA BlitCovered ==
    ASSUME TypeOK, NEW q \in Cells, Landing(q, info.rect) # {}
    PROVE  q \in Pix(PanelRect(effective, src, Panel, info.rect))
  <1>1. /\ src \in Size /\ info.rect \in Rect /\ effective \in Orientations
        /\ Panel \in Size /\ Cells = Pixels(Panel)
    BY SrcType, PanelType DEF TypeOK
  <1>2. PICK p \in Pix(ClampTo(info.rect, src)) : ToPanel(effective, src, p) = q
    BY DEF Landing
  <1> QED
    BY <1>1, <1>2, BlitReported

(* No pixel lies in an empty rectangle.                                    *)
LEMMA EmptyHasNone ==
    ASSUME NEW r \in Rect, Empty(r)
    PROVE  Pix(r) = {}
  BY DEF Rect, Empty, Pix

(* A step that neither draws, nor moves a thread out of "present".         *)
LEMMA PresentedStutter ==
    ASSUME PresentedExactly, UNCHANGED pictureVars,
           \A t \in Painters : pc[t] = "present" => pc'[t] = "present",
           Running' => Running
    PROVE  PresentedExactly'
  BY DEF PresentedExactly, pictureVars

LEMMA NextPresented == Inv /\ PresentedExactly /\ [Next]_vars => PresentedExactly'
  <1> SUFFICES ASSUME Inv, PresentedExactly, [Next]_vars PROVE PresentedExactly'
    OBVIOUS
  <1>0. TypeOK /\ pc = [main |-> pc.main, input |-> pc.input, sensor |-> pc.sensor]
    BY DEF Inv, TypeOK
  <1> USE <1>0 DEF Goto, Painters
  <1>1. ASSUME NEW sz \in SrcSizes, Connect(sz) \/ Resize(sz) PROVE PresentedExactly'
    BY <1>1 DEF Connect, Resize, CreateFramebuf, PresentedExactly
  <1>2. ASSUME NEW n \in 0 .. MaxRects, MessageArrives(n) PROVE PresentedExactly'
    BY <1>2, PresentedStutter DEF MessageArrives, Running
  <1>3. ASSUME NEW r \in DamageRects, RecvRect(r) PROVE PresentedExactly'
    <2>1. \A q \in Cells : fb'[q] # panel'[q] => fb[q] # panel[q]
      BY <1>3 DEF RecvRect, Outdate
    <2>2. /\ dst' = dst
          /\ \A t \in Painters : pc[t] = "present" => pc'[t] = "present"
          /\ Running
      BY <1>3 DEF RecvRect, Running
    <2> QED
      BY <2>1, <2>2 DEF PresentedExactly
  <1>4. ASSUME ServerCloses \/ ButtonPower PROVE PresentedExactly'
    BY <1>4 DEF ServerCloses, ButtonPower, PresentedExactly, Running
  <1>5. ASSUME CommitRead \/ EventLoop \/ PollTimeout PROVE PresentedExactly'
    BY <1>5, PresentedStutter DEF CommitRead, EventLoop, PollTimeout, Running
  <1>6. ASSUME CommitWrite PROVE PresentedExactly'
    <2>1. \A q \in Cells : panel'[q] \in {fb[q], panel[q]}
      BY <1>6 DEF CommitWrite, StartFresh, FlushBadMerge, MergeIn, Present
    <2>2. /\ fb' = fb /\ dst' = dst
          /\ \A t \in Painters : pc[t] = "present" => pc'[t] = "present"
          /\ Running
      BY <1>6 DEF CommitWrite, Running
    <2> QED
      BY <2>1, <2>2 DEF PresentedExactly
  <1>7. ASSUME Tick \/ SensorMark PROVE PresentedExactly'
    BY <1>7, PresentedStutter DEF Tick, SensorMark, Running
  <1>8. ASSUME NEW t \in Painters, RepaintClear(t) PROVE PresentedExactly'
    BY <1>8, PresentedStutter DEF RepaintClear, Running
  <1>9. ASSUME NEW t \in Painters, RepaintBlit(t) PROVE PresentedExactly'
    <2> DEFINE out == PanelRect(effective, src, Panel, info.rect)
    <2>1. /\ panel' = panel /\ dst' = [dst EXCEPT ![t] = out]
          /\ pc' = [pc EXCEPT ![t] = IF Empty(out) THEN Home(t) ELSE "present"]
          /\ pc[t] = "blit" /\ Running
      BY <1>9 DEF RepaintBlit
    <2>2. out \in Rect
      BY PanelRectType, SrcType, PanelType DEF TypeOK
    <2> SUFFICES ASSUME NEW q \in Cells, fb'[q] # panel'[q]
                 PROVE  \E u \in Painters : pc'[u] = "present" /\ q \in Pix(dst'[u])
      BY DEF PresentedExactly
    <2> HIDE DEF out
    <2>3. CASE Landing(q, info.rect) = {}
      <3>1. fb'[q] = fb[q]
        BY <1>9, <2>3 DEF RepaintBlit, Drawn
      <3>2. PICK u \in Painters : pc[u] = "present" /\ q \in Pix(dst[u])
        BY <2>1, <3>1 DEF PresentedExactly
      <3>3. u # t
        BY <2>1, <3>2
      <3> QED
        BY <2>1, <3>2, <3>3 DEF TypeOK
    <2>4. CASE Landing(q, info.rect) # {}
      <3>1. q \in Pix(out)
        BY <2>4, BlitCovered DEF out
      <3>2. ~Empty(out)
        BY <2>2, <3>1, EmptyHasNone
      <3> QED
        BY <2>1, <3>1, <3>2 DEF TypeOK
    <2> QED
      BY <2>3, <2>4
  <1>10. ASSUME NEW t \in Painters, RepaintPresent(t) PROVE PresentedExactly'
    <2>1. /\ fb' = fb /\ pc[t] = "present" /\ Running
          /\ \A q \in Cells : panel'[q] = IF q \in Pix(dst[t]) THEN fb[q] ELSE panel[q]
          /\ \A u \in Painters \ {t} : pc'[u] = pc[u] /\ dst'[u] = dst[u]
      BY <1>10 DEF RepaintPresent, Present, TypeOK
    <2> QED
      BY <2>1 DEF PresentedExactly
  <1>11. ASSUME NEW kind \in {"press", "update", "release"}, NEW q \in TouchCells,
                InputTouch(kind, q)
         PROVE  PresentedExactly'
    BY <1>11, PresentedStutter DEF InputTouch, Running
  <1>12. ASSUME InputLift \/ KeyboardOpens \/ KeyboardCloses PROVE PresentedExactly'
    BY <1>12, PresentedStutter DEF InputLift, KeyboardOpens, KeyboardCloses, Running
  <1>13. ASSUME ButtonHome PROVE PresentedExactly'
    BY <1>13 DEF ButtonHome, Present, PresentedExactly
  <1>14. ASSUME NEW d \in DOMAIN BlitOf, SensorTilt(d) PROVE PresentedExactly'
    BY <1>14, PresentedStutter DEF SensorTilt, Running
  <1>15. CASE UNCHANGED vars
    BY <1>15, PresentedStutter DEF vars, pictureVars, Running
  <1> HIDE DEF Goto, Painters
  <1> QED
    BY <1>1, <1>2, <1>3, <1>4, <1>5, <1>6, <1>7, <1>8, <1>9, <1>10, <1>11,
       <1>12, <1>13, <1>14, <1>15
    DEF Next, DecodeRest, MainStep, InputStep, Clock, Network, User, Sensor,
        Repaint, Painters

(* Whatever the threads do, a cell in which the drawing buffer is ahead of *)
(* the panel is in a rectangle on its way to device.update().              *)
THEOREM PresentedCorrect == Spec => []PresentedExactly
  <1>1. Init => PresentedExactly
    BY DEF Init, PresentedExactly
  <1>2. Inv /\ PresentedExactly /\ [Next]_vars => PresentedExactly'
    BY NextPresented
  <1> QED
    BY <1>1, <1>2, InvHolds, PTL DEF Spec
-----------------------------------------------------------------------------
(* No damage is forgotten by a step that draws nothing and keeps track of  *)
(* all that was tracked.                                                   *)
LEMMA TrackedStutter ==
    ASSUME UNCHANGED <<effective, src, received, fb>>, Running' => Running,
           \A p \in received : Tracked(p) => Tracked(p)'
    PROVE  Untracked' \subseteq Untracked
  BY DEF Untracked, Owed

(* Steps that leave the accumulator, the commit in progress, the sensor    *)
(* and the painters about to blit as they are.                             *)
LEMMA TrackedFrame ==
    ASSUME UNCHANGED <<effective, src, received, fb, info, cur>>, Running' => Running,
           pc.main \in {"commitRead", "commitWrite"}
               => pc'.main \in {"commitRead", "commitWrite"},
           \A t \in Painters : pc[t] = "blit" => pc'[t] = "blit",
           pc'.sensor = pc.sensor
    PROVE  Untracked' \subseteq Untracked
  <1>1. \A p \in received : Tracked(p) => Tracked(p)'
    BY DEF Tracked, Pending, Committing, Painting, Turning
  <1> QED
    BY <1>1, TrackedStutter

(* A pixel of the blitted rectangle reaches its cell, and no other pixel's *)
(* cell is touched: the rotation maps no two pixels to one cell.           *)
LEMMA BlitSettles ==
    ASSUME TypeOK, NEW t \in Painters, RepaintBlit(t), NEW p \in received,
           ToPanel(effective, src, p) \in Cells
    PROVE  LET q == ToPanel(effective, src, p)
           IN IF p \in Pix(info.rect) THEN fb'[q] = p
              ELSE fb'[q] # p => fb[q] # p
  <1> DEFINE q == ToPanel(effective, src, p)
  <1>1. /\ src \in Size /\ info.rect \in Rect /\ effective \in Orientations
        /\ p \in Pixels(src) /\ p \in Int \X Int
    BY SrcType DEF TypeOK, Pixels, Pix, FullRect, Size
  <1>2. ASSUME NEW other \in Landing(q, info.rect) PROVE other = p
    <2>1. other \in Int \X Int /\ ToPanel(effective, src, other) = q
      BY LandingType
    <2> QED
      BY <1>1, <2>1, TouchInvertsBlit
  <1>3. CASE p \in Pix(info.rect)
    <2>1. p \in Landing(q, info.rect)
      BY <1>1, <1>3, ClampKeeps DEF Landing
    <2>2. fb'[q] = CHOOSE other \in Landing(q, info.rect) : TRUE
      BY <2>1 DEF RepaintBlit, Drawn
    <2> QED
      BY <1>2, <1>3, <2>1, <2>2
  <1>4. CASE p \notin Pix(info.rect)
    <2>1. Landing(q, info.rect) = {}
      BY <1>2, <1>4, LandingType
    <2> QED
      BY <1>4, <2>1 DEF RepaintBlit, Drawn
  <1> QED
    BY <1>3, <1>4

LEMMA NextLoss ==
    Inv /\ [Next]_vars => (~(Untracked' \subseteq Untracked) => LossExplained)
  <1> SUFFICES ASSUME Inv, [Next]_vars, ~LossExplained
               PROVE  Untracked' \subseteq Untracked
    OBVIOUS
  <1>0. TypeOK /\ src \in Size /\ info.rect \in Rect /\ received \subseteq Pixels(src)
    BY SrcType DEF Inv, TypeOK
  <1>t. pc = [main |-> pc.main, input |-> pc.input, sensor |-> pc.sensor]
    BY DEF Inv, TypeOK
  <1> USE <1>0, <1>t DEF Goto, Painters
  <1>1. ASSUME NEW sz \in SrcSizes, Connect(sz) \/ Resize(sz)
        PROVE  Untracked' \subseteq Untracked
    BY <1>1 DEF Connect, Resize, CreateFramebuf, Untracked, Owed
  <1>2. ASSUME NEW n \in 0 .. MaxRects, MessageArrives(n)
        PROVE  Untracked' \subseteq Untracked
    BY <1>2, TrackedFrame DEF MessageArrives, commitVars, pictureVars, Running
  <1>3. ASSUME NEW r \in DamageRects, RecvRect(r)
        PROVE  Untracked' \subseteq Untracked
    <2> SUFFICES ASSUME NEW p \in Untracked' PROVE p \in Untracked
      OBVIOUS
    <2>1. /\ effective' = effective /\ src' = src /\ info' = info
          /\ received' = received \cup Pix(r) /\ fb' = Outdate(fb, r)
          /\ cur' = r /\ pc' = [pc EXCEPT !.main = "commitRead"]
          /\ pc.main = "rects"
      BY <1>3 DEF RecvRect
    <2>2. p \notin Pix(r)
      BY <2>1 DEF Untracked, Tracked, Committing
    <2>3. p \in Owed
      BY <2>1, <2>2 DEF Untracked, Owed, Outdate
    <2>4. ~Tracked(p)
      BY <2>1 DEF Untracked, Tracked, Pending, Committing, Painting, Turning
    <2> QED
      BY <2>1, <2>3, <2>4 DEF Untracked, Running
  <1>4. ASSUME ServerCloses \/ ButtonPower PROVE Untracked' \subseteq Untracked
    BY <1>4 DEF ServerCloses, ButtonPower, Untracked, Running
  <1>5. ASSUME CommitRead \/ EventLoop \/ PollTimeout
        PROVE  Untracked' \subseteq Untracked
    BY <1>5, TrackedFrame
    DEF CommitRead, EventLoop, PollTimeout, pictureVars, commitVars, Running
  <1>6. ASSUME CommitWrite PROVE Untracked' \subseteq Untracked
    <2>1. /\ pc.main = "commitWrite" /\ info = snap
          /\ ~(snap.has /\ BadMerge(snap.rect, cur))
          /\ ~snap.has => pc.input # "blit"
      BY <1>6 DEF CommitWrite, LossExplained
    <2>2. /\ UNCHANGED <<effective, src, received, fb>>
          /\ pc'.sensor = pc.sensor /\ Running /\ pc'.input = pc.input
      BY <1>6, <2>1 DEF CommitWrite, Running
    <2>3. CASE StartFresh
      <3>1. info' = [rect |-> cur, has |-> TRUE] /\ ~info.has
        BY <2>1, <2>3 DEF StartFresh
      <3>2. ASSUME NEW p, Tracked(p) PROVE Tracked(p)'
        BY <2>1, <2>2, <3>1, <3>2, <2>3
        DEF StartFresh, Tracked, Pending, Committing, Painting, Turning
      <3> QED
        BY <2>2, <3>2, TrackedStutter
    <2>4. CASE MergeIn
      <3>1. /\ info'.has /\ info'.rect = Merge(info.rect, cur)
        BY <2>1, <2>4 DEF MergeIn, Inv, TypeOK
      <3>2. /\ Pix(info.rect) \subseteq Pix(info'.rect)
            /\ Pix(cur) \subseteq Pix(info'.rect)
        BY <3>1, MergeCovers DEF Inv, TypeOK
      <3>3. ASSUME NEW p, Tracked(p) PROVE Tracked(p)'
        BY <2>2, <3>1, <3>2, <3>3
        DEF Tracked, Pending, Committing, Painting, Turning
      <3> QED
        BY <2>2, <3>3, TrackedStutter
    <2> QED
      BY <1>6, <2>1, <2>3, <2>4 DEF CommitWrite, FlushBadMerge
  <1>7. ASSUME Tick PROVE Untracked' \subseteq Untracked
    BY <1>7, TrackedFrame DEF Tick, pictureVars, commitVars, Running
  <1>8. ASSUME NEW t \in Painters, RepaintClear(t)
        PROVE  Untracked' \subseteq Untracked
    <2>1. /\ UNCHANGED <<effective, src, received, fb, cur>> /\ Running
          /\ info'.rect = info.rect
          /\ pc' = [pc EXCEPT ![t] = "blit"] /\ pc[t] = "clear"
      BY <1>8 DEF RepaintClear, pictureVars, commitVars, Inv, TypeOK
    <2>2. pc'[t] = "blit"
      BY <2>1
    <2>3. ASSUME NEW p, Tracked(p) PROVE Tracked(p)'
      BY <2>1, <2>2, <2>3 DEF Tracked, Pending, Committing, Painting, Turning
    <2> QED
      BY <2>1, <2>3, TrackedStutter
  <1>9. ASSUME NEW t \in Painters, RepaintBlit(t)
        PROVE  Untracked' \subseteq Untracked
    <2> SUFFICES ASSUME NEW p \in Untracked' PROVE p \in Untracked
      OBVIOUS
    <2>1. /\ UNCHANGED <<effective, src, received, info, cur>> /\ Running
          /\ pc[t] = "blit" /\ pc'.sensor = pc.sensor
          /\ \A u \in Painters \ {t} : pc'[u] = pc[u]
      BY <1>9 DEF RepaintBlit, commitVars
    <2>2. /\ p \in received /\ ToPanel(effective, src, p) \in Cells
          /\ fb'[ToPanel(effective, src, p)] # p /\ ~Tracked(p)'
      BY <2>1 DEF Untracked, Owed
    <2>3. p \notin Pix(info.rect) /\ fb[ToPanel(effective, src, p)] # p
      BY <1>9, <2>2, BlitSettles
    <2>4. ~Tracked(p)
      <3>1. t # "main" => pc'.main = pc.main
        BY <2>1
      <3>2. ~Committing(p)
        BY <2>1, <2>2, <3>1 DEF Tracked, Committing
      <3> QED
        BY <2>1, <2>2, <2>3, <3>2 DEF Tracked, Pending, Painting, Turning
    <2> QED
      BY <2>1, <2>2, <2>3, <2>4 DEF Untracked, Owed
  <1>10. ASSUME NEW t \in Painters, RepaintPresent(t)
         PROVE  Untracked' \subseteq Untracked
    BY <1>10, TrackedFrame DEF RepaintPresent, commitVars, Running
  <1>11. ASSUME NEW kind \in {"press", "update", "release"}, NEW q \in TouchCells,
                InputTouch(kind, q)
         PROVE  Untracked' \subseteq Untracked
    BY <1>11, TrackedFrame DEF InputTouch, pictureVars, commitVars, Running
  <1>12. ASSUME InputLift \/ KeyboardOpens \/ KeyboardCloses
         PROVE  Untracked' \subseteq Untracked
    BY <1>12, TrackedFrame
    DEF InputLift, KeyboardOpens, KeyboardCloses, pictureVars, commitVars, Running
  <1>13. ASSUME ButtonHome PROVE Untracked' \subseteq Untracked
    BY <1>13, TrackedFrame DEF ButtonHome, commitVars, Running
  <1>14. ASSUME NEW d \in DOMAIN BlitOf, SensorTilt(d)
         PROVE  Untracked' \subseteq Untracked
    <2>1. CASE effective' = effective /\ pc' = pc
      BY <1>14, <2>1, TrackedFrame DEF SensorTilt, pictureVars, commitVars, Running
    <2>2. CASE pc'.sensor = "mark"
      BY <2>2 DEF Untracked, Tracked, Turning
    <2> QED
      BY <1>14, <2>1, <2>2 DEF SensorTilt
  <1>15. ASSUME SensorMark PROVE Untracked' \subseteq Untracked
    <2>1. /\ UNCHANGED <<effective, src, received, fb, cur>> /\ Running
          /\ info' = WholeSource
      BY <1>15 DEF SensorMark, pictureVars, commitVars
    <2>2. ASSUME NEW p \in received PROVE Tracked(p)'
      <3>1. p \in Pixels(src) /\ src.w > 0 /\ src.h > 0
        BY <2>2 DEF Pixels, Pix, FullRect, Size
      <3>2. info'.has /\ p \in Pix(info'.rect)
        BY <2>1, <3>1, FullRectType DEF WholeSource
      <3> QED
        BY <3>2 DEF Tracked, Pending
    <2> QED
      BY <2>1, <2>2, TrackedStutter
  <1>16. CASE UNCHANGED vars
    BY <1>16, TrackedFrame DEF vars, Running
  <1> HIDE DEF Goto, Painters
  <1> QED
    BY <1>1, <1>2, <1>3, <1>4, <1>5, <1>6, <1>7, <1>8, <1>9, <1>10, <1>11,
       <1>12, <1>13, <1>14, <1>15, <1>16
    DEF Next, DecodeRest, MainStep, InputStep, Clock, Network, User, Sensor,
        Repaint, Painters

(* For every panel, desktop, backend and interleaving: damage is forgotten *)
(* only by the flush of a bad merge, by a commit that undoes another       *)
(* thread's write, or by a commit between the two halves of a repaint().   *)
THEOREM LossOnlyAsExplained == Spec => DamageLostOnlyByFlushOrRace
  <1>1. Inv /\ [Next]_vars => [~(Untracked' \subseteq Untracked) => LossExplained]_vars
    BY NextLoss
  <1> QED
    BY <1>1, InvHolds, PTL DEF Spec, DamageLostOnlyByFlushOrRace
-----------------------------------------------------------------------------
(* The vncast backend without --auto-rotate has no second thread, so       *)
(* commit_updates writes over exactly what it read.                        *)
Alone ==
    /\ pc.input = "absent" /\ pc.sensor = "absent"
    /\ pc.main = "commitWrite" => info = snap

LEMMA NextAlone == Vncast /\ Inv /\ Alone /\ [Next]_vars => Alone'
  <1> SUFFICES ASSUME Vncast, Inv, Alone, [Next]_vars PROVE Alone'
    OBVIOUS
  <1>0. pc = [main |-> pc.main, input |-> pc.input, sensor |-> pc.sensor]
    BY DEF Inv, TypeOK
  <1> USE <1>0 DEF Alone, Goto
  <1>1. CASE DecodeRest
    BY <1>1 DEF DecodeRest, RecvRect, Resize, Rest
  <1>2. CASE MainStep
    BY <1>2 DEF MainStep, CommitRead, CommitWrite, EventLoop, Repaint,
                RepaintClear, RepaintBlit, RepaintPresent, Home, Rest
  <1>3. CASE InputStep
    BY <1>3 DEF InputStep, InputLift, Repaint, RepaintClear, RepaintBlit, RepaintPresent
  <1>4. CASE Clock
    BY <1>4 DEF Clock, PollTimeout, Tick, commitVars
  <1>5. CASE Network
    BY <1>5 DEF Network, Connect, MessageArrives, ServerCloses
  <1>6. CASE User
    BY <1>6 DEF User, InputTouch, KeyboardOpens, KeyboardCloses, ButtonHome, ButtonPower
  <1>7. CASE Sensor
    BY <1>7 DEF Sensor, SensorMark, SensorTilt
  <1>8. CASE UNCHANGED vars
    BY <1>8 DEF vars
  <1> QED
    BY <1>1, <1>2, <1>3, <1>4, <1>5, <1>6, <1>7, <1>8 DEF Next

LostByFlush == snap.has /\ BadMerge(snap.rect, cur)

(* On vncast with a fixed orientation, the flush of a bad merge is the     *)
(* only way damage is forgotten (commit_updates, 588-607).                 *)
THEOREM VncastLosesOnlyByFlush ==
    Vncast /\ ~AutoRotate
        => (Spec => [][~(Untracked' \subseteq Untracked) => LostByFlush]_vars)
  <1> SUFFICES ASSUME Vncast, ~AutoRotate
               PROVE  Spec => [][~(Untracked' \subseteq Untracked) => LostByFlush]_vars
    OBVIOUS
  <1>1. Init => Alone
    BY DEF Init, Alone
  <1>2. Inv /\ Alone /\ [Next]_vars => Alone'
    BY NextAlone
  <1>3. Inv /\ Alone /\ [Next]_vars
            => [~(Untracked' \subseteq Untracked) => LostByFlush]_vars
    BY NextLoss DEF Alone, LossExplained, LostByFlush
  <1> QED
    BY <1>1, <1>2, <1>3, InvHolds, PTL DEF Spec

-----------------------------------------------------------------------------
(* With a fixed orientation every pixel drawn stays at the cell it belongs *)
(* to, which is what the inverse map of a touch relies on.                 *)
InPlaceOn(picture) ==
    \A q \in Cells : picture[q] # Stale => ToPanel(effective, src, picture[q]) = q
InPlace == pc.sensor = "absent" /\ InPlaceOn(fb) /\ InPlaceOn(panel)

LEMMA InPlaceStutter ==
    ASSUME InPlace, pc'.sensor = pc.sensor,
           UNCHANGED <<effective, src, fb, panel>>
    PROVE  InPlace'
  BY DEF InPlace, InPlaceOn

LEMMA NextInPlace == Inv /\ InPlace /\ [Next]_vars => InPlace'
  <1> SUFFICES ASSUME Inv, InPlace, [Next]_vars PROVE InPlace'
    OBVIOUS
  <1>0. TypeOK /\ pc = [main |-> pc.main, input |-> pc.input, sensor |-> pc.sensor]
    BY DEF Inv, TypeOK
  <1> USE <1>0 DEF Goto, Painters
  <1>1. ASSUME NEW sz \in SrcSizes, Connect(sz) \/ Resize(sz) PROVE InPlace'
    BY <1>1 DEF Connect, Resize, CreateFramebuf, InPlace, InPlaceOn
  <1>2. ASSUME NEW r \in DamageRects, RecvRect(r) PROVE InPlace'
    BY <1>2 DEF RecvRect, Outdate, InPlace, InPlaceOn
  <1>3. CASE CommitWrite
    <2>1. \A q \in Cells : panel'[q] \in {fb[q], panel[q]}
      BY <1>3 DEF CommitWrite, StartFresh, FlushBadMerge, MergeIn, Present
    <2> QED
      BY <1>3, <2>1 DEF CommitWrite, InPlace, InPlaceOn
  <1>4. ASSUME NEW t \in Painters, RepaintBlit(t) PROVE InPlace'
    <2>1. ASSUME NEW q \in Cells
          PROVE  \/ fb'[q] = fb[q]
                 \/ ToPanel(effective, src, fb'[q]) = q
      BY <1>4, LandingType DEF RepaintBlit, Drawn
    <2> QED
      BY <1>4, <2>1 DEF RepaintBlit, InPlace, InPlaceOn
  <1>5. ASSUME NEW t \in Painters, RepaintPresent(t) PROVE InPlace'
    BY <1>5 DEF RepaintPresent, Present, InPlace, InPlaceOn
  <1>6. CASE ButtonHome
    BY <1>6 DEF ButtonHome, Present, InPlace, InPlaceOn
  <1>7. CASE Sensor
    BY <1>7 DEF Sensor, SensorTilt, SensorMark, InPlace
  <1>8. CASE \/ ServerCloses \/ CommitRead \/ EventLoop \/ Clock
             \/ \E n \in 0 .. MaxRects : MessageArrives(n)
    BY <1>8, InPlaceStutter
    DEF ServerCloses, CommitRead, EventLoop, Clock, PollTimeout, Tick,
        MessageArrives, pictureVars
  <1>9. ASSUME NEW t \in Painters, RepaintClear(t) PROVE InPlace'
    BY <1>9, InPlaceStutter DEF RepaintClear, pictureVars
  <1>10. CASE InputLift \/ KeyboardOpens \/ KeyboardCloses \/ ButtonPower
    BY <1>10, InPlaceStutter
    DEF InputLift, KeyboardOpens, KeyboardCloses, ButtonPower, pictureVars
  <1>11. ASSUME NEW kind \in {"press", "update", "release"}, NEW q \in TouchCells,
                InputTouch(kind, q)
         PROVE  InPlace'
    BY <1>11, InPlaceStutter DEF InputTouch, pictureVars
  <1>12. CASE UNCHANGED vars
    BY <1>12, InPlaceStutter DEF vars
  <1> HIDE DEF Goto, Painters
  <1> QED
    BY <1>1, <1>2, <1>3, <1>4, <1>5, <1>6, <1>7, <1>8, <1>9, <1>10, <1>11, <1>12
    DEF Next, DecodeRest, MainStep, InputStep, Network, User, Repaint, Painters

(* A step that sends a pointer event sends the pixel shown at the cell.    *)
LEMMA TouchStep ==
    ASSUME Inv, InPlace, [Next]_vars, pointer' # pointer
    PROVE  panel[pointer'.at] \in {pointer'.to, Stale}
  <1>1. PICK q \in Cells, b \in {"Left", "None"} : SendPointer(q, b)
    <2>1. \/ \E kind \in {"press", "update", "release"}, q \in TouchCells :
                InputTouch(kind, q)
          \/ InputLift
      BY DEF Next, vars, DecodeRest, Connect, Resize, RecvRect, MainStep, CommitRead,
             CommitWrite, EventLoop, Repaint, RepaintClear, RepaintBlit,
             RepaintPresent, InputStep, Clock, PollTimeout, Tick, Network,
             MessageArrives, ServerCloses, User, KeyboardOpens, KeyboardCloses,
             ButtonHome, ButtonPower, Sensor, SensorMark, SensorTilt
    <2>2. pointer.at \in Cells
      BY DEF Inv, TypeOK
    <2> QED
      BY <2>1, <2>2, TouchAssumption DEF InputTouch, InputLift
  <1>2. pointer'.at = q /\ pointer'.to = ToSource(effective, src, q)
    BY <1>1 DEF SendPointer
  <1>3. CASE panel[q] # Stale
    <2>1. panel[q] \in Int \X Int /\ src \in Size /\ effective \in Orientations
      BY <1>3, SrcType DEF Inv, TypeOK
    <2>2. ToPanel(effective, src, panel[q]) = q
      BY <1>3 DEF InPlace, InPlaceOn
    <2>3. ToSource(effective, src, q) = panel[q]
      BY <2>1, <2>2, TouchInvertsBlit
    <2> QED
      BY <1>2, <2>3
  <1> QED
    BY <1>2, <1>3

(* With a fixed orientation, for every panel, desktop and interleaving of  *)
(* repaints, a touch is sent as the pixel shown under the finger.          *)
THEOREM TouchCorrect == ~AutoRotate => (Spec => TouchHitsShownPixel)
  <1> SUFFICES ASSUME ~AutoRotate PROVE Spec => TouchHitsShownPixel
    OBVIOUS
  <1>1. Init => InPlace
    BY DEF Init, InPlace, InPlaceOn
  <1>2. Inv /\ InPlace /\ [Next]_vars => InPlace'
    BY NextInPlace
  <1>3. Inv /\ InPlace /\ [Next]_vars
        => [pointer' # pointer => panel[pointer'.at] \in {pointer'.to, Stale}]_vars
    BY TouchStep
  <1> QED
    BY <1>1, <1>2, <1>3, InvHolds, PTL DEF Spec, TouchHitsShownPixel
-----------------------------------------------------------------------------
(* Where damage rectangles always merge, nothing is refused and nothing is *)
(* flushed.  Boxes holds all that update_info may then accumulate.         *)
Damages == UpdateRects \cup {FullRect(sz) : sz \in SrcSizes}
MergeableIn(Boxes) ==
    /\ Boxes \subseteq Rect /\ Damages \subseteq Boxes
    /\ \A a \in Boxes, b \in Damages : Merge(a, b) \in Boxes /\ ~BadMerge(a, b)

(* With no second thread, what is accumulated is one of the boxes, and     *)
(* what is being committed is damage the server sent.                      *)
Boxed(Boxes) ==
    /\ info.has => info.rect \in Boxes
    /\ pc.main \in {"commitRead", "commitWrite"} => cur \in Damages
    /\ pc.main \notin {"init", "closed"} => src \in SrcSizes

LEMMA NextBoxed ==
    ASSUME NEW Boxes, MergeableIn(Boxes), Vncast, Inv, Alone, Boxed(Boxes), [Next]_vars
    PROVE  Boxed(Boxes)'
  <1>0. /\ pc = [main |-> pc.main, input |-> pc.input, sensor |-> pc.sensor]
        /\ info = [rect |-> info.rect, has |-> info.has]
    BY DEF Inv, TypeOK
  <1> USE <1>0 DEF Boxed, Goto
  <1>1. ASSUME NEW sz \in SrcSizes, Connect(sz) \/ Resize(sz) PROVE Boxed(Boxes)'
    BY <1>1 DEF Connect, Resize, CreateFramebuf, Rest
  <1>2. ASSUME NEW r \in DamageRects, RecvRect(r) PROVE Boxed(Boxes)'
    <2>1. r \in Damages
      BY <1>2 DEF RecvRect, DamageRects, Damages
    <2> QED
      BY <1>2, <2>1 DEF RecvRect
  <1>3. CASE CommitWrite
    <2>1. cur \in Damages /\ info = snap
      BY <1>3 DEF CommitWrite, Alone
    <2>2. cur \in Boxes /\ (snap.has => Merge(snap.rect, cur) \in Boxes)
      BY <2>1 DEF MergeableIn
    <2>3. info'.has => info'.rect \in Boxes
      BY <1>3, <2>1, <2>2 DEF CommitWrite, StartFresh, FlushBadMerge, MergeIn
    <2>4. pc'.main \in {"loop", "rects"} /\ src' = src /\ pc.main = "commitWrite"
      BY <1>3 DEF CommitWrite, Rest
    <2> QED
      BY <2>3, <2>4
  <1>4. CASE CommitRead \/ EventLoop \/ ServerCloses \/ Clock
    BY <1>4
    DEF CommitRead, EventLoop, ServerCloses, Clock, PollTimeout, Tick, commitVars
  <1>5. ASSUME NEW t \in Painters, Repaint(t) PROVE Boxed(Boxes)'
    <2>1. t = "main"
      BY <1>5 DEF Repaint, RepaintClear, RepaintBlit, RepaintPresent, Alone, Painters
    <2>2. info'.rect = info.rect /\ (info'.has => info.has)
      BY <1>5 DEF Repaint, RepaintClear, RepaintBlit, RepaintPresent, Inv, TypeOK
    <2>3. /\ pc'.main \in {"blit", "present", "poll"} /\ src' = src
          /\ pc.main \in {"clear", "blit", "present"}
      BY <1>5, <2>1 DEF Repaint, RepaintClear, RepaintBlit, RepaintPresent, Home
    <2> QED
      BY <2>2, <2>3
  <1>6. ASSUME NEW n \in 0 .. MaxRects, MessageArrives(n) PROVE Boxed(Boxes)'
    BY <1>6 DEF MessageArrives
  <1>7. CASE InputStep \/ User \/ Sensor
    BY <1>5, <1>7
    DEF Alone, InputStep, InputLift, User, InputTouch, KeyboardOpens, KeyboardCloses,
        ButtonHome, ButtonPower, Sensor, SensorTilt, SensorMark, Painters
  <1>8. CASE UNCHANGED vars
    BY <1>8 DEF vars
  <1> HIDE DEF Boxed, Goto
  <1> QED
    BY <1>1, <1>2, <1>3, <1>4, <1>5, <1>6, <1>7, <1>8
    DEF Next, DecodeRest, MainStep, Network, Painters

(* A commit of such damage refuses no merge.                               *)
LEMMA BoxedLosesNothing ==
    ASSUME NEW Boxes, MergeableIn(Boxes), Inv, Alone, Boxed(Boxes), [Next]_vars,
           NoLostDamage
    PROVE  NoLostDamage'
  <1>1. ~LossExplained
    BY DEF LossExplained, Alone, Boxed, MergeableIn
  <1> QED
    BY <1>1, NextLoss DEF NoLostDamage

(* On vncast with a fixed orientation, whatever the panel, the desktops    *)
(* and the order of messages: damage that always merges is never forgotten *)
(* (commit_updates, repaint).                                              *)
THEOREM MergedDamageIsKept ==
    ASSUME NEW Boxes, MergeableIn(Boxes), Vncast, ~AutoRotate
    PROVE  Spec => []NoLostDamage
  <1>1. Init => Alone /\ Boxed(Boxes) /\ NoLostDamage
    BY DEF Init, Alone, Boxed, Nothing, NoLostDamage, Untracked, Owed
  <1>2. Inv /\ Alone /\ Boxed(Boxes) /\ NoLostDamage /\ [Next]_vars
            => (Alone /\ Boxed(Boxes) /\ NoLostDamage)'
    BY NextAlone, NextBoxed, BoxedLosesNothing
  <1> QED
    BY <1>1, <1>2, InvHolds, PTL DEF Spec

(* Full frames of one desktop are such damage.                             *)
LEMMA FullFramesMerge ==
    ASSUME NEW sz \in Size, SrcSizes = {sz}, UpdateRects = {}
    PROVE  MergeableIn({FullRect(sz)})
  <1> DEFINE f == FullRect(sz)
  <1>1. f \in Rect /\ Damages = {f}
    BY FullRectType DEF Damages
  <1>2. Merge(f, f) = f
    BY DEF Merge, FullRect, Lesser, Greater, Size
  <1>3. Area(f) \in Nat
    BY <1>1 DEF Area, Rect
  <1>4. ~BadMerge(f, f)
    BY <1>2, <1>3 DEF BadMerge
  <1> QED
    BY <1>1, <1>2, <1>4 DEF MergeableIn

(* A server that only ever sends whole frames of one desktop loses nothing *)
(* to vncast, at any size.                                                 *)
THEOREM FullFramesAreKept ==
    ASSUME NEW sz \in Size, SrcSizes = {sz}, UpdateRects = {}, Vncast, ~AutoRotate
    PROVE  Spec => []NoLostDamage
  BY FullFramesMerge, MergedDamageIsKept
-----------------------------------------------------------------------------
(* With one thread, a repaint leaves nothing owed, and a poll without      *)
(* timeout begins only there or with nothing accumulated.                  *)
PaidUp ==
    /\ pc.main = "present" => Owed = {}
    /\ pc.main = "poll" /\ ~timed => Owed = {}

(* What is owed is in update_info, where no commit or blit is under way.   *)
LEMMA OwedIsPending ==
    ASSUME NoLostDamage, Alone, Running,
           pc.main \notin {"commitRead", "commitWrite", "blit"}, ~info.has
    PROVE  Owed = {}
  BY DEF NoLostDamage, Untracked, Tracked, Pending, Committing, Painting, Turning,
         Alone, Painters

(* A blit with everything tracked pays all that is owed.                   *)
LEMMA BlitPays ==
    ASSUME Inv, NoLostDamage, Alone, RepaintBlit("main")
    PROVE  Owed' = {}
  <1>1. /\ UNCHANGED <<effective, src, received, info>> /\ pc.main = "blit" /\ Running
        /\ TypeOK /\ "main" \in Painters
    BY DEF RepaintBlit, Inv, Painters
  <1> SUFFICES ASSUME NEW p \in Owed' PROVE FALSE
    OBVIOUS
  <1>2. /\ p \in received /\ ToPanel(effective, src, p) \in Cells
        /\ fb'[ToPanel(effective, src, p)] # p
    BY <1>1 DEF Owed
  <1>3. p \notin Pix(info.rect) /\ fb[ToPanel(effective, src, p)] # p
    BY <1>1, <1>2, BlitSettles
  <1>4. p \in Owed /\ ~Tracked(p)
    BY <1>1, <1>2, <1>3
    DEF Owed, Tracked, Pending, Committing, Painting, Turning, Alone
  <1> QED
    BY <1>1, <1>4 DEF NoLostDamage, Untracked

LEMMA NextPaidUp ==
    ASSUME Vncast, Inv, Alone, NoLostDamage, PaidUp, [Next]_vars
    PROVE  PaidUp'
  <1>0. pc = [main |-> pc.main, input |-> pc.input, sensor |-> pc.sensor]
    BY DEF Inv, TypeOK
  <1> USE <1>0 DEF Goto
  <1>1. ASSUME NEW sz \in SrcSizes, Connect(sz) \/ Resize(sz) PROVE PaidUp'
    BY <1>1 DEF Connect, Resize, CreateFramebuf, PaidUp, Owed
  <1>2. CASE \/ \E r \in DamageRects : RecvRect(r)
             \/ CommitRead \/ CommitWrite \/ ServerCloses
             \/ \E n \in 0 .. MaxRects : MessageArrives(n)
    BY <1>2 DEF RecvRect, CommitRead, CommitWrite, ServerCloses, MessageArrives,
                Rest, PaidUp
  <1>3. CASE EventLoop
    <2>1. CASE info.has
      BY <1>3, <2>1 DEF EventLoop, MustWait, PaidUp
    <2>2. CASE ~info.has
      <3>1. Owed = {}
        BY <1>3, <2>2, OwedIsPending DEF EventLoop, Running
      <3> QED
        BY <1>3, <3>1 DEF EventLoop, pictureVars, PaidUp, Owed
    <2> QED
      BY <2>1, <2>2
  <1>4. CASE Clock
    BY <1>4 DEF Clock, PollTimeout, Tick, pictureVars, loopVars, PaidUp, Owed
  <1>5. ASSUME NEW t \in Painters, Repaint(t) PROVE PaidUp'
    <2>1. t = "main"
      BY <1>5 DEF Repaint, RepaintClear, RepaintBlit, RepaintPresent, Alone, Painters
    <2>2. CASE RepaintClear(t)
      BY <2>1, <2>2 DEF RepaintClear, PaidUp
    <2>3. CASE RepaintBlit(t)
      BY <2>1, <2>3, BlitPays DEF PaidUp
    <2>4. CASE RepaintPresent(t)
      BY <2>1, <2>4 DEF RepaintPresent, PaidUp, Owed
    <2> QED
      BY <1>5, <2>2, <2>3, <2>4 DEF Repaint
  <1>6. CASE InputStep \/ User \/ Sensor
    BY <1>5, <1>6
    DEF Alone, InputStep, InputLift, User, InputTouch, KeyboardOpens, KeyboardCloses,
        ButtonHome, ButtonPower, Sensor, SensorTilt, SensorMark, Painters
  <1>7. CASE UNCHANGED vars
    BY <1>7 DEF vars, PaidUp, Owed
  <1> HIDE DEF Goto
  <1> QED
    BY <1>1, <1>2, <1>3, <1>4, <1>5, <1>6, <1>7
    DEF Next, DecodeRest, MainStep, Network, Painters

(* With nothing owed and nobody presenting, the panel is up to date.       *)
LEMMA PaidUpIsShown ==
    ASSUME Alone, PresentedExactly, PaidUp
    PROVE  AsleepIsUpToDate
  <1> SUFFICES ASSUME pc.main = "poll", ~timed PROVE Damaged = {}
    BY DEF AsleepIsUpToDate
  <1>1. \A q \in Cells : fb[q] = panel[q]
    BY DEF PresentedExactly, Running, Alone, Painters
  <1> QED
    BY <1>1 DEF PaidUp, Owed, Damaged

(* On vncast with a fixed orientation and damage that always merges, the   *)
(* client never sleeps on a picture it has not shown: the safety half of   *)
(* EventuallyShown, which needs no fairness.                               *)
THEOREM NeverAsleepOnDamage ==
    ASSUME NEW Boxes, MergeableIn(Boxes), Vncast, ~AutoRotate
    PROVE  Spec => []AsleepIsUpToDate
  <1> DEFINE All == Alone /\ Boxed(Boxes) /\ NoLostDamage /\ PaidUp
  <1>1. Init => All
    BY DEF Init, Alone, Boxed, Nothing, NoLostDamage, Untracked, Owed, PaidUp
  <1>2. Inv /\ All /\ [Next]_vars => All'
    BY NextAlone, NextBoxed, BoxedLosesNothing, NextPaidUp
  <1>3. All /\ PresentedExactly => AsleepIsUpToDate
    BY PaidUpIsShown
  <1> HIDE DEF All
  <1> QED
    BY <1>1, <1>2, <1>3, InvHolds, PresentedCorrect, PTL DEF Spec
-----------------------------------------------------------------------------
(* With a fixed orientation the drawing buffer is never behind the panel,  *)
(* so that presenting any of it at any time gives nothing up.              *)
Ahead == \A q \in Cells : panel[q] # Stale => fb[q] = panel[q]
Steady == InPlace /\ Ahead

(* A blit changes no cell that shows a pixel in its place.                 *)
LEMMA BlitKeeps ==
    ASSUME Inv, InPlace, NEW t \in Painters, RepaintBlit(t),
           NEW q \in Cells, fb[q] # Stale
    PROVE  fb'[q] = fb[q]
  <1>1. /\ src \in Size /\ effective \in Orientations
        /\ fb[q] \in Int \X Int /\ ToPanel(effective, src, fb[q]) = q
    BY SrcType DEF Inv, TypeOK, InPlace, InPlaceOn
  <1>2. ASSUME NEW p \in Landing(q, info.rect) PROVE p = fb[q]
    <2>1. p \in Int \X Int /\ ToPanel(effective, src, p) = q
      BY LandingType DEF Inv
    <2> QED
      BY <1>1, <2>1, TouchInvertsBlit
  <1> QED
    BY <1>2 DEF RepaintBlit, Drawn

LEMMA NextAhead == Inv /\ Steady /\ [Next]_vars => Ahead'
  <1> SUFFICES ASSUME Inv, InPlace, Ahead, [Next]_vars PROVE Ahead'
    BY DEF Steady
  <1>1. ASSUME NEW sz \in SrcSizes, Connect(sz) \/ Resize(sz) PROVE Ahead'
    BY <1>1 DEF Connect, Resize, CreateFramebuf, Ahead
  <1>2. ASSUME NEW r \in DamageRects, RecvRect(r) PROVE Ahead'
    BY <1>2 DEF RecvRect, Outdate, Ahead
  <1>3. ASSUME NEW t \in Painters, RepaintBlit(t) PROVE Ahead'
    <2>1. panel' = panel
      BY <1>3 DEF RepaintBlit
    <2> QED
      BY <1>3, <2>1, BlitKeeps DEF Ahead
  <1>4. ASSUME fb' = fb, \A q \in Cells : panel'[q] \in {fb[q], panel[q]} PROVE Ahead'
    BY <1>4 DEF Ahead
  <1>5. ASSUME CommitWrite \/ ButtonHome \/ \E t \in Painters : RepaintPresent(t)
        PROVE  Ahead'
    BY <1>4, <1>5
    DEF CommitWrite, StartFresh, FlushBadMerge, MergeIn, ButtonHome, RepaintPresent,
        Present
  <1>6. ASSUME UNCHANGED <<fb, panel>> PROVE Ahead'
    BY <1>6 DEF Ahead
  <1>7. CASE ServerCloses \/ CommitRead \/ EventLoop \/ Clock \/ Sensor
             \/ \E n \in 0 .. MaxRects : MessageArrives(n)
    BY <1>6, <1>7
    DEF ServerCloses, CommitRead, EventLoop, Clock, PollTimeout, Tick, Sensor,
        SensorTilt, SensorMark, MessageArrives, pictureVars
  <1>8. CASE InputLift \/ KeyboardOpens \/ KeyboardCloses \/ ButtonPower
             \/ (\E kind \in {"press", "update", "release"}, q \in TouchCells :
                    InputTouch(kind, q))
             \/ \E t \in Painters : RepaintClear(t)
    BY <1>6, <1>8
    DEF InputLift, KeyboardOpens, KeyboardCloses, ButtonPower, InputTouch,
        RepaintClear, pictureVars
  <1>9. CASE UNCHANGED vars
    BY <1>6, <1>9 DEF vars
  <1> QED
    BY <1>1, <1>2, <1>3, <1>5, <1>7, <1>8, <1>9
    DEF Next, DecodeRest, MainStep, InputStep, Network, User, Repaint, Painters

(* The mapping of D, spelled out.                                          *)
Shown == OnPanel \ Damaged

LEMMA ShownHasItsCell ==
    ASSUME NEW p
    PROVE  p \in Shown <=> /\ p \in received /\ ToPanel(effective, src, p) \in Cells
                           /\ panel[ToPanel(effective, src, p)] = p
  BY DEF Shown, OnPanel, Damaged

(* A step that puts on the panel what the drawing buffer has, or nothing.  *)
LEMMA PresentShows ==
    ASSUME Inv, Steady, UNCHANGED <<effective, src, received>>,
           \A q \in Cells : panel'[q] \in {fb[q], panel[q]}
    PROVE  D!Show
  <1>1. OnPanel' = OnPanel
    BY DEF OnPanel
  <1>2. ASSUME NEW p \in Shown PROVE p \in Shown'
    <2> DEFINE q == ToPanel(effective, src, p)
    <2>1. p \in received /\ q \in Cells /\ panel[q] = p
      BY <1>2, ShownHasItsCell
    <2>2. p # Stale
      BY <2>1, SrcType DEF Inv, TypeOK, Pixels, Pix, FullRect, Stale, Size
    <2>3. panel'[q] = p
      BY <2>1, <2>2 DEF Steady, Ahead
    <2> QED
      BY <2>1, <2>3 DEF Shown, OnPanel, Damaged
  <1> QED
    BY <1>1, <1>2 DEF D!Show, Shown

LEMMA NextDisplay == Inv /\ Steady /\ [Next]_vars => [D!Next]_(D!vars)
  <1> SUFFICES ASSUME Inv, Steady, [Next]_vars PROVE D!Next
    OBVIOUS
  <1>1. ASSUME NEW sz \in SrcSizes, Connect(sz) \/ Resize(sz) PROVE D!Next
    <2>1. received' = {}
      BY <1>1 DEF Connect, Resize, CreateFramebuf
    <2>2. D!Replace
      BY <2>1 DEF D!Replace, OnPanel
    <2> QED
      BY <2>2 DEF D!Next
  <1>2. ASSUME NEW r \in DamageRects, RecvRect(r) PROVE D!Next
    <2> DEFINE place == {p \in Pix(r) : ToPanel(effective, src, p) \in Cells}
    <2>1. /\ UNCHANGED <<effective, src>> /\ received' = received \cup Pix(r)
          /\ panel' = Outdate(panel, r)
      BY <1>2 DEF RecvRect
    <2>2. src \in SrcSizes \/ Pixels(src) = {}
      BY DEF Inv, TypeOK, NoSize, Pixels, Pix, FullRect
    <2>3. Pix(r) \subseteq Pixels(src) /\ src \in Size
      BY DamageRectType, SrcType DEF Inv
    <2>4. place \in SUBSET AllPixels
      BY <2>2, <2>3 DEF AllPixels
    <2>5. OnPanel' = OnPanel \cup place
      BY <2>1 DEF OnPanel
    <2>6. \A p \in received \cup Pix(r) : p # Stale
      BY <2>3 DEF Inv, TypeOK, Pixels, Pix, FullRect, Size, Stale
    <2>7. ASSUME NEW p PROVE p \in Shown' <=> p \in Shown \ place
      <3> DEFINE q == ToPanel(effective, src, p)
      <3>1. p \in Shown' <=> /\ p \in received \cup Pix(r) /\ q \in Cells
                             /\ panel'[q] = p
        BY <2>1 DEF Shown, OnPanel, Damaged
      <3>2. q \in Cells => panel'[q] = IF panel[q] \in Pix(r) THEN Stale ELSE panel[q]
        BY <2>1 DEF Outdate
      <3>3. p \in Shown' <=> /\ p \in received /\ q \in Cells /\ panel[q] = p
                             /\ p \notin Pix(r)
        <4> HIDE DEF q
        <4> QED
          BY <2>6, <3>1, <3>2
      <3> QED
        BY <3>3, ShownHasItsCell
    <2>8. D!Receive(place)
      BY <2>5, <2>7 DEF D!Receive, Shown
    <2> QED
      BY <2>4, <2>8 DEF D!Next
  <1>3. ASSUME UNCHANGED <<effective, src, received>>,
               \A q \in Cells : panel'[q] \in {fb[q], panel[q]}
        PROVE  D!Next
    BY <1>3, PresentShows DEF D!Next
  <1>4. ASSUME UNCHANGED <<effective, src, received, panel>> PROVE D!Next
    BY <1>3, <1>4
  <1>5. CASE CommitWrite \/ ButtonHome \/ \E t \in Painters : RepaintPresent(t)
    BY <1>3, <1>5
    DEF CommitWrite, StartFresh, FlushBadMerge, MergeIn, ButtonHome, RepaintPresent,
        Present
  <1>6. CASE ServerCloses \/ CommitRead \/ EventLoop \/ Clock
             \/ \E n \in 0 .. MaxRects : MessageArrives(n)
    BY <1>4, <1>6
    DEF ServerCloses, CommitRead, EventLoop, Clock, PollTimeout, Tick,
        MessageArrives, pictureVars
  <1>7. CASE \/ InputLift \/ KeyboardOpens \/ KeyboardCloses \/ ButtonPower
             \/ \E kind \in {"press", "update", "release"}, q \in TouchCells :
                    InputTouch(kind, q)
             \/ \E t \in Painters : RepaintClear(t) \/ RepaintBlit(t)
    BY <1>4, <1>7
    DEF InputLift, KeyboardOpens, KeyboardCloses, ButtonPower, InputTouch,
        RepaintClear, RepaintBlit, pictureVars
  <1>8. CASE Sensor
    BY <1>8 DEF Sensor, SensorTilt, SensorMark, Steady, InPlace
  <1>9. CASE UNCHANGED vars
    BY <1>4, <1>9 DEF vars
  <1> QED
    BY <1>1, <1>2, <1>5, <1>6, <1>7, <1>8, <1>9
    DEF Next, DecodeRest, MainStep, InputStep, Network, User, Repaint, Painters

(* With a fixed orientation vnsee implements Display, on either backend,   *)
(* with any damage and any interleaving of its two threads: what is        *)
(* current on the panel stays, whatever is repainted, flushed or refreshed *)
THEOREM ImplementsDisplay == ~AutoRotate => (Spec => DisplaySpec)
  <1> SUFFICES ASSUME ~AutoRotate PROVE Spec => DisplaySpec
    OBVIOUS
  <1>1. Init => Steady
    BY DEF Init, Steady, InPlace, InPlaceOn, Ahead
  <1>2. Inv /\ Steady /\ [Next]_vars => Steady'
    BY NextInPlace, NextAhead DEF Steady
  <1>3. Init => D!Init
    BY DEF Init, D!Init, OnPanel
  <1>4. Inv /\ Steady /\ [Next]_vars => [D!Next]_(D!vars)
    BY NextDisplay
  <1> QED
    BY <1>1, <1>2, <1>3, <1>4, InvHolds, PTL DEF Spec, DisplaySpec, D!Spec
-----------------------------------------------------------------------------
(* Which configurations the findings about turns need.                     *)

(* With a fixed orientation no cell ever holds another cell's pixel.       *)
LEMMA InPlaceHeals == Inv /\ InPlace => TurnRaceHeals
  <1> SUFFICES ASSUME Inv, InPlace, NEW p \in received,
                      ToPanel(effective, src, p) \in Cells
               PROVE  fb[ToPanel(effective, src, p)] \in {p, Stale}
    BY DEF TurnRaceHeals
  <1> DEFINE q == ToPanel(effective, src, p)
  <1>1. /\ src \in Size /\ effective \in Orientations /\ p \in Int \X Int
        /\ fb[q] \in (Int \X Int) \cup {Stale}
    BY SrcType DEF Inv, TypeOK, Pixels, Pix, FullRect, Size
  <1>2. CASE fb[q] # Stale
    <2>1. ToPanel(effective, src, fb[q]) = q
      BY <1>2 DEF InPlace, InPlaceOn
    <2> QED
      BY <1>1, <1>2, <2>1, TouchInvertsBlit
  <1> QED
    BY <1>2

(* Only --auto-rotate leaves a picture half turned: with a fixed           *)
(* orientation, whatever else races on update_info and whatever damage is  *)
(* lost, no cell holds the pixel of another.                               *)
THEOREM NeverHalfTurnedWhenFixed == ~AutoRotate => (Spec => []TurnRaceHeals)
  <1> SUFFICES ASSUME ~AutoRotate PROVE Spec => []TurnRaceHeals
    OBVIOUS
  <1>1. Init => InPlace
    BY DEF Init, InPlace, InPlaceOn
  <1>2. Inv /\ InPlace /\ [Next]_vars => InPlace'
    BY NextInPlace
  <1> QED
    BY <1>1, <1>2, InPlaceHeals, InvHolds, PTL DEF Spec

LEMMA NextAutoRotate ==
    ASSUME Requested # "Auto", Inv, AutoRotateWins, [Next]_vars
    PROVE  AutoRotateWins'
  <1>1. ASSUME NEW sz \in SrcSizes, Connect(sz) \/ Resize(sz) PROVE AutoRotateWins'
    BY <1>1 DEF Connect, Resize, CreateFramebuf, Resolve, AutoRotateWins
  <1>2. ASSUME NEW d \in DOMAIN BlitOf, SensorTilt(d) PROVE AutoRotateWins'
    BY <1>2 DEF SensorTilt, AutoRotateWins
  <1>3. ASSUME UNCHANGED <<effective, tilt>> PROVE AutoRotateWins'
    BY <1>3 DEF AutoRotateWins
  <1>4. CASE \/ \E r \in DamageRects : RecvRect(r)
             \/ CommitRead \/ CommitWrite \/ EventLoop \/ Clock \/ SensorMark
             \/ (\E n \in 0 .. MaxRects : MessageArrives(n)) \/ ServerCloses
    BY <1>3, <1>4
    DEF RecvRect, CommitRead, CommitWrite, EventLoop, Clock, PollTimeout, Tick,
        SensorMark, MessageArrives, ServerCloses
  <1>5. CASE InputLift \/ User \/ \E t \in Painters : Repaint(t)
    BY <1>3, <1>5
    DEF InputLift, User, InputTouch, KeyboardOpens, KeyboardCloses, ButtonHome,
        ButtonPower, Repaint, RepaintClear, RepaintBlit, RepaintPresent
  <1>6. CASE UNCHANGED vars
    BY <1>3, <1>6 DEF vars
  <1> QED
    BY <1>1, <1>2, <1>4, <1>5, <1>6
    DEF Next, DecodeRest, MainStep, InputStep, Network, Sensor, Painters

(* With an orientation that is named, --auto-rotate does override it, as   *)
(* main.cpp:212-213 says; only --orientation auto takes it back.           *)
THEOREM OverriddenOnlyByAuto ==
    Requested # "Auto" => (Spec => []AutoRotateWins)
  <1> SUFFICES ASSUME Requested # "Auto" PROVE Spec => []AutoRotateWins
    OBVIOUS
  <1>1. Init => AutoRotateWins
    BY DEF Init, AutoRotateWins
  <1>2. Inv /\ AutoRotateWins /\ [Next]_vars => AutoRotateWins'
    BY NextAutoRotate
  <1> QED
    BY <1>1, <1>2, InvHolds, PTL DEF Spec
=============================================================================
