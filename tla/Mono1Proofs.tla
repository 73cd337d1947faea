---------------------------- MODULE Mono1Proofs -----------------------------
(* Theorems about Mono1, for every size of rectangle and whatever the      *)
(* server sends.                                                           *)
EXTENDS Mono1, TLAPS

LEMMA Sizes ==
  ASSUME Rectangle
  PROVE  /\ RowBytes \in Nat /\ Width <= 8 * RowBytes /\ Total \in Nat
         /\ Row \subseteq Nat /\ Col \subseteq Nat /\ Index \subseteq Nat
  <1>1. RowBytes \in Nat /\ Width <= 8 * RowBytes
    BY DEF Rectangle, RowBytes
  <1>2. Total \in Nat
    BY <1>1 DEF Rectangle, Total
  <1> QED
    BY <1>1, <1>2 DEF Rectangle, Row, Col, Index

(* The byte of a pixel is in the buffer: rows end at a whole byte.         *)
LEMMA CellInBuffer ==
  ASSUME Rectangle, NEW r \in Row, NEW c \in Col
  PROVE  Cell(r, c) \in Index
  <1>1. /\ RowBytes \in Nat /\ Width <= 8 * RowBytes
        /\ r \in Nat /\ r + 1 <= Height /\ Height \in Nat
        /\ c \in Nat /\ c < Width /\ Width \in Nat
    BY Sizes DEF Rectangle, Row, Col
  <1>2. c \div 8 \in Nat /\ c \div 8 + 1 <= RowBytes
    BY <1>1
  <1> DEFINE left == Height - (r + 1)
  <1>3. left \in Nat /\ left * RowBytes \in Nat
    <2> left \in Nat
      BY <1>1
    <2> HIDE DEF left
    <2> QED
      BY <1>1
  <1>4. RowBytes * Height = r * RowBytes + RowBytes + left * RowBytes
    <2>1. Height = r + 1 + left
      BY <1>1
    <2> HIDE DEF left
    <2> QED
      BY <1>1, <1>3, <2>1
  <1>5. r * RowBytes \in Nat
    BY <1>1
  <1> HIDE DEF left
  <1> QED
    BY <1>1, <1>2, <1>3, <1>4, <1>5 DEF Cell, Index, Total

(* The counts of the runs are what remains at most.                        *)
LEMMA RepeatClamped ==
  ASSUME Rectangle, InBounds, MoreRuns, Ctrl >= 128
  PROVE  /\ Ctrl \in Byte /\ RepeatCount \in Nat /\ RepeatCount <= Total - outPos
         /\ RepeatCount = Ctrl - 128 + 2 \/ RepeatCount = Total - outPos
  <1>1. Ctrl \in Byte
    BY DEF Rectangle, InBounds, MoreRuns, Ctrl
  <1> QED
    BY <1>1, Sizes DEF Byte, RepeatCount, Lesser, InBounds, MoreRuns

LEMMA LiteralClamped ==
  ASSUME Rectangle, InBounds, MoreRuns, Ctrl < 128
  PROVE  /\ Ctrl \in Byte /\ LiteralCount \in Nat /\ LiteralCount <= Total - outPos
         /\ LiteralCount <= CompLen - (inPos + 1)
         /\ \/ LiteralCount = Ctrl + 1 \/ LiteralCount = Total - outPos
            \/ LiteralCount = CompLen - (inPos + 1) /\ CompLen - (inPos + 1) < Ctrl + 1
  <1>1. Ctrl \in Byte
    BY DEF Rectangle, InBounds, MoreRuns, Ctrl
  <1> QED
    BY <1>1, Sizes DEF Byte, LiteralCount, Lesser, InBounds, MoreRuns, Rectangle

LEMMA InitInBounds == Rectangle /\ Init => InBounds
  BY Sizes DEF Rectangle, Init, InBounds

LEMMA InBoundsStep == Rectangle /\ InBounds /\ [Next]_vars => InBounds'
  <1> SUFFICES ASSUME Rectangle, InBounds, [Next]_vars PROVE InBounds'
    OBVIOUS
  <1> USE Sizes
  <1>1. CASE RepeatRun
    <2>1. /\ RepeatCount \in Nat /\ RepeatCount <= Total - outPos
          /\ Wire[inPos + 1] \in Byte
      BY <1>1, RepeatClamped DEF RepeatRun, MoreRuns, Rectangle, InBounds
    <2> QED
      BY <1>1, <2>1 DEF RepeatRun, InBounds, Rectangle
  <1>2. CASE LiteralRun
    <2>1. /\ LiteralCount \in Nat /\ LiteralCount <= Total - outPos
          /\ LiteralCount <= CompLen - (inPos + 1)
      BY <1>2, LiteralClamped DEF LiteralRun
    <2>2. \A i \in outPos .. outPos + LiteralCount - 1 :
             Wire[inPos + 1 + (i - outPos)] \in Byte
      BY <2>1 DEF Rectangle, InBounds
    <2>3. packed' \in [Index -> Byte]
      BY <1>2, <2>2 DEF LiteralRun, InBounds
    <2> QED
      BY <1>2, <2>1, <2>3 DEF LiteralRun, InBounds, Rectangle
  <1>3. CASE ReadPlain
    BY <1>3 DEF ReadPlain, InBounds, Rectangle, Index
  <1>4. CASE BreakOff
    BY <1>4 DEF BreakOff, MoreRuns, InBounds, Rectangle
  <1>5. CASE Fail \/ ReadCompressed \/ EndRuns \/ DrawRow \/ RectDone \/ UNCHANGED vars
    BY <1>5 DEF Fail, ReadCompressed, EndRuns, DrawRow, RectDone, vars, InBounds
  <1> QED
    BY <1>1, <1>2, <1>3, <1>4, <1>5 DEF Next

(* Whatever the server sends, no byte is read past what came, none written *)
(* past what was allocated, and the rows are drawn from allocated bytes    *)
(* (the clamps of the run loop; row_bytes).                                *)
THEOREM StaysInBounds ==
  ASSUME Rectangle
  PROVE  /\ Spec => []InBounds
         /\ \A r \in Row, c \in Col : Cell(r, c) \in Index
  <1>1. Init => InBounds
    BY InitInBounds
  <1>2. InBounds /\ [Next]_vars => InBounds'
    BY InBoundsStep
  <1>3. Spec => []InBounds
    BY <1>1, <1>2, PTL DEF Spec
  <1> QED
    BY <1>3, CellInBuffer

-----------------------------------------------------------------------------
(* Decoding what was encoded.                                              *)

(* Between two runs of the encoding the decoder has decoded those before,  *)
(* as far as the rectangle goes.                                           *)
Decoded(plain, m) == \A i \in Index : i < m => packed[i] = plain[i]
Between(plain, n, at, upto) ==
    \E k \in 0 .. n : /\ outPos = Lesser(upto[k], Total)
                      /\ outPos < Total => inPos = at[k]
                      /\ Decoded(plain, upto[k])
Drawn(plain) == \A r \in Row, c \in Col :
    r < row => picture[r][c] = Bit(plain[Cell(r, c)], c)

Inv(plain, n, at, upto) ==
    /\ InBounds /\ row \in 0 .. Height
    /\ picture = [r \in Row |-> picture[r]]
    /\ pc \in {"read", "runs", "rows", "done", "failed"}
    /\ pc \in {"read", "runs"} => row = 0
    /\ pc = "read" => inPos = 0 /\ outPos = 0
    /\ pc = "runs" => Between(plain, n, at, upto)
    /\ pc \in {"rows", "done"} => Decoded(plain, Total)
    /\ pc = "done" => row = Height
    /\ Drawn(plain)

LEMMA InitInv ==
  ASSUME Rectangle, NEW plain, NEW n, NEW at, NEW upto, Init
  PROVE  Inv(plain, n, at, upto)
  <1>1. InBounds
    BY InitInBounds
  <1>2. picture = [r \in Row |-> picture[r]]
    BY DEF Init
  <1>3. Drawn(plain)
    BY Sizes DEF Init, Drawn, Row
  <1> QED
    BY <1>1, <1>2, <1>3, Sizes DEF Init, Inv, Rectangle

(* One run.                                                                *)
LEMMA RunStep ==
  ASSUME Rectangle, NEW plain, NEW n, NEW at, NEW upto,
         Encodes(plain, n, at, upto), Inv(plain, n, at, upto), RepeatRun \/ LiteralRun
  PROVE  Between(plain, n, at, upto)'
  <1>0. /\ InBounds /\ MoreRuns /\ Between(plain, n, at, upto)
        /\ n \in Nat /\ at \in [0 .. n -> Nat] /\ upto \in [0 .. n -> Nat]
    BY DEF Inv, Encodes, RepeatRun, LiteralRun, MoreRuns
  <1>1. PICK k \in 0 .. n : /\ outPos = Lesser(upto[k], Total)
                            /\ outPos < Total => inPos = at[k]
                            /\ Decoded(plain, upto[k])
    BY <1>0 DEF Between
  <1>2. /\ inPos = at[k] /\ outPos = upto[k] /\ inPos < CompLen /\ outPos < Total
        /\ inPos \in Nat /\ outPos \in Nat /\ Total \in Nat /\ CompLen \in Nat
    BY <1>0, <1>1, Sizes DEF MoreRuns, Lesser, InBounds, Rectangle
  <1>3. k \in 0 .. n - 1 /\ k + 1 \in 0 .. n
    BY <1>0, <1>2 DEF Encodes
  <1>4. at[k + 1] \in Nat /\ upto[k + 1] \in Nat /\ at[k + 1] <= CompLen
    BY <1>0, <1>3 DEF Encodes
  <1>5. Ctrl = Wire[at[k]]
    BY <1>2 DEF Ctrl
  <1>8. /\ Wire[at[k]] >= 128 =>
            /\ at[k + 1] = at[k] + 2
            /\ upto[k + 1] = upto[k] + Wire[at[k]] - 128 + 2
            /\ \A i \in upto[k] .. upto[k + 1] - 1 : plain[i] = Wire[at[k] + 1]
        /\ Wire[at[k]] < 128 =>
            /\ at[k + 1] = at[k] + 1 + Wire[at[k]] + 1
            /\ upto[k + 1] = upto[k] + Wire[at[k]] + 1
            /\ \A i \in upto[k] .. upto[k + 1] - 1 :
                 plain[i] = Wire[at[k] + 1 + (i - upto[k])]
    BY <1>3 DEF Encodes
  <1> SUFFICES /\ outPos' = Lesser(upto[k + 1], Total)
               /\ outPos' < Total => inPos' = at[k + 1]
               /\ Decoded(plain, upto[k + 1])'
    BY <1>3 DEF Between
  <1>6. CASE RepeatRun
    <2>1. /\ Ctrl >= 128 /\ outPos' = outPos + RepeatCount /\ inPos' = inPos + 2
          /\ packed' = [i \in Index |-> IF i \in outPos .. outPos + RepeatCount - 1
                                        THEN Wire[inPos + 1] ELSE packed[i]]
      BY <1>6 DEF RepeatRun
    <2>2. /\ Ctrl \in Byte /\ RepeatCount = Lesser(Ctrl - 128 + 2, Total - outPos)
          /\ RepeatCount \in Nat
      BY <1>0, <2>1, RepeatClamped DEF RepeatCount
    <2>3. /\ at[k + 1] = at[k] + 2
          /\ upto[k + 1] = outPos + (Ctrl - 128 + 2)
          /\ \A i \in upto[k] .. upto[k + 1] - 1 : plain[i] = Wire[inPos + 1]
      BY <1>2, <1>5, <1>8, <2>1, <2>2 DEF Byte
    <2>4. outPos' = Lesser(upto[k + 1], Total)
      BY <1>2, <2>1, <2>2, <2>3 DEF Lesser, Byte
    <2>5. ASSUME NEW i \in Index, i < upto[k + 1] PROVE packed'[i] = plain[i]
      <3>1. i \in Nat /\ i < Total
        BY Sizes, <1>2 DEF Index
      <3>2. CASE i < outPos
        BY <1>1, <1>2, <2>1, <3>1, <3>2 DEF Decoded
      <3>3. CASE i >= outPos
        <4>1. i \in upto[k] .. upto[k + 1] - 1 /\ i \in outPos .. outPos + RepeatCount - 1
          BY <1>2, <1>4, <2>1, <2>2, <2>4, <2>5, <3>1, <3>3 DEF Lesser
        <4> QED
          BY <2>1, <2>3, <4>1
      <3> QED
        BY <1>2, <3>1, <3>2, <3>3
    <2> QED
      BY <1>2, <2>1, <2>3, <2>4, <2>5 DEF Decoded
  <1>7. CASE LiteralRun
    <2>1. /\ Ctrl < 128 /\ outPos' = outPos + LiteralCount
          /\ inPos' = inPos + 1 + LiteralCount
          /\ packed' = [i \in Index |-> IF i \in outPos .. outPos + LiteralCount - 1
                                        THEN Wire[inPos + 1 + (i - outPos)] ELSE packed[i]]
      BY <1>7 DEF LiteralRun
    <2>2. /\ Ctrl \in Byte /\ LiteralCount \in Nat
          /\ LiteralCount = Lesser(Lesser(Ctrl + 1, CompLen - (inPos + 1)), Total - outPos)
      BY <1>0, <2>1, LiteralClamped DEF LiteralCount
    <2>3. /\ at[k + 1] = inPos + 1 + (Ctrl + 1)
          /\ upto[k + 1] = outPos + (Ctrl + 1)
          /\ \A i \in upto[k] .. upto[k + 1] - 1 :
               plain[i] = Wire[inPos + 1 + (i - outPos)]
      BY <1>2, <1>5, <1>8, <2>1, <2>2 DEF Byte
    <2>4. LiteralCount = Lesser(Ctrl + 1, Total - outPos)
      <3>1. Ctrl \in Nat /\ Ctrl + 1 <= CompLen - (inPos + 1)
        BY <1>2, <1>4, <2>2, <2>3 DEF Byte
      <3>2. Lesser(Ctrl + 1, CompLen - (inPos + 1)) = Ctrl + 1
        BY <1>2, <3>1 DEF Lesser
      <3> QED
        BY <2>2, <3>2
    <2>5. /\ outPos' = Lesser(upto[k + 1], Total)
          /\ outPos' < Total => inPos' = at[k + 1]
      BY <1>2, <2>1, <2>2, <2>3, <2>4 DEF Lesser, Byte
    <2>6. ASSUME NEW i \in Index, i < upto[k + 1] PROVE packed'[i] = plain[i]
      <3>1. i \in Nat /\ i < Total
        BY Sizes, <1>2 DEF Index
      <3>2. CASE i < outPos
        BY <1>1, <1>2, <2>1, <3>1, <3>2 DEF Decoded
      <3>3. CASE i >= outPos
        <4>1. i \in upto[k] .. upto[k + 1] - 1 /\ i \in outPos .. outPos + LiteralCount - 1
          BY <1>2, <1>4, <2>1, <2>2, <2>5, <2>6, <3>1, <3>3 DEF Lesser
        <4> QED
          BY <2>1, <2>3, <4>1
      <3> QED
        BY <1>2, <3>1, <3>2, <3>3
    <2> QED
      BY <2>5, <2>6 DEF Decoded
  <1> QED
    BY <1>6, <1>7

LEMMA InvStep ==
  ASSUME Rectangle, NEW plain, NEW n, NEW at, NEW upto,
         Encodes(plain, n, at, upto), Compressed, upto[n] >= Total,
         Inv(plain, n, at, upto), [Next]_vars
  PROVE  Inv(plain, n, at, upto)'
  <1>0. InBounds' /\ InBounds
    BY InBoundsStep DEF Inv
  <1>1. CASE Fail
    BY <1>0, <1>1 DEF Fail, Inv, Drawn
  <1>2. CASE ReadCompressed
    <2>1. Decoded(plain, upto[0])'
      BY Sizes DEF Encodes, Decoded, Index
    <2>2. 0 \in 0 .. n /\ at[0] = 0 /\ upto[0] = 0
      BY DEF Encodes
    <2>3. outPos' = Lesser(upto[0], Total) /\ inPos' = at[0]
      BY <1>2, <2>2, Sizes DEF ReadCompressed, Inv, Lesser
    <2>4. Between(plain, n, at, upto)'
      BY <2>1, <2>2, <2>3 DEF Between
    <2> QED
      BY <1>0, <1>2, <2>4 DEF ReadCompressed, Inv, Drawn
  <1>3. CASE RepeatRun \/ LiteralRun
    <2>1. /\ pc = "runs" /\ UNCHANGED <<pc, row, picture>>
      BY <1>3 DEF RepeatRun, LiteralRun, MoreRuns
    <2> QED
      BY <1>0, <1>3, <2>1, RunStep DEF Inv, Drawn
  <1>4. CASE BreakOff
    <2>1. PICK k \in 0 .. n : /\ outPos = Lesser(upto[k], Total)
                              /\ outPos < Total => inPos = at[k]
      BY <1>4 DEF BreakOff, MoreRuns, Inv, Between
    <2>2. inPos = at[k] /\ inPos \in Nat /\ CompLen \in Nat /\ inPos < CompLen
      BY <1>0, <1>4, <2>1 DEF BreakOff, MoreRuns, InBounds, Rectangle
    <2>3. k \in 0 .. n - 1 /\ k + 1 \in 0 .. n
      BY <2>1, <2>2 DEF Encodes
    <2>4. at[k + 1] <= CompLen /\ at[k + 1] = inPos + 2
      BY <1>4, <2>2, <2>3 DEF BreakOff, Ctrl, Encodes
    <2> QED
      BY <1>4, <2>2, <2>4 DEF BreakOff
  <1>5. CASE EndRuns
    <2>1. PICK k \in 0 .. n : /\ outPos = Lesser(upto[k], Total)
                              /\ outPos < Total => inPos = at[k]
                              /\ Decoded(plain, upto[k])
      BY <1>5 DEF EndRuns, Inv, Between
    <2>2. /\ upto[k] \in Nat /\ at[k] \in Nat /\ Total \in Nat /\ CompLen \in Nat
          /\ inPos \in Nat /\ outPos \in Nat /\ at[k] <= CompLen
      BY <1>0, <2>1, Sizes DEF Encodes, InBounds, Rectangle
    <2>3. upto[k] >= Total
      <3> SUFFICES ASSUME upto[k] < Total PROVE FALSE
        BY <2>2
      <3>1. outPos < Total /\ outPos = upto[k]
        BY <2>1, <2>2 DEF Lesser
      <3>2. at[k] >= CompLen
        BY <1>5, <2>1, <2>2, <3>1 DEF EndRuns, MoreRuns
      <3>3. k = n
        BY <2>1, <3>2, <2>2 DEF Encodes
      <3> QED
        BY <3>3, <2>2
    <2>4. Decoded(plain, Total)
      BY <2>1, <2>2, <2>3, Sizes DEF Decoded, Index
    <2> QED
      BY <1>0, <1>5, <2>4 DEF EndRuns, Inv, Drawn, Decoded
  <1>6. CASE DrawRow
    <2>1. /\ pc = "rows" /\ row \in Row /\ row \in Nat /\ row' = row + 1
          /\ Height \in Nat /\ Decoded(plain, Total)
          /\ picture' = [picture EXCEPT ![row] = [c \in Col |-> Bit(packed[Cell(row, c)], c)]]
          /\ UNCHANGED <<pc, inPos, outPos, packed>>
      BY <1>6 DEF DrawRow, Inv, Row, Rectangle
    <2>2. ASSUME NEW r \in Row, NEW c \in Col, r < row'
          PROVE  picture'[r][c] = Bit(plain[Cell(r, c)], c)
      <3>1. r \in Nat
        BY Sizes
      <3>2. CASE r = row
        <4>1. Cell(row, c) \in Index /\ Cell(row, c) < Total
          BY <2>1, CellInBuffer, Sizes DEF Index
        <4>2. packed[Cell(row, c)] = plain[Cell(row, c)]
          BY <2>1, <4>1 DEF Decoded
        <4>3. picture'[row] = [d \in Col |-> Bit(packed[Cell(row, d)], d)]
          BY <2>1 DEF Inv
        <4> QED
          BY <3>2, <4>2, <4>3
      <3>3. CASE r < row
        BY <2>1, <3>3 DEF Inv, Drawn
      <3> QED
        BY <2>1, <2>2, <3>1, <3>2, <3>3
    <2>3. picture' = [r \in Row |-> picture'[r]]
      BY <2>1 DEF Inv
    <2>4. Drawn(plain)' /\ Decoded(plain, Total)'
      BY <2>1, <2>2 DEF Drawn, Decoded
    <2>5. row' \in 0 .. Height
      BY <2>1 DEF Row
    <2> QED
      BY <1>0, <2>1, <2>3, <2>4, <2>5 DEF Inv
  <1>7. CASE RectDone
    BY <1>0, <1>7 DEF RectDone, Inv, Drawn, Decoded
  <1>8. CASE ReadPlain
    BY <1>8 DEF ReadPlain
  <1>9. CASE UNCHANGED vars
    BY <1>0, <1>9 DEF vars, Inv, Between, Drawn, Decoded
  <1> QED
    BY <1>1, <1>2, <1>3, <1>4, <1>5, <1>6, <1>7, <1>8, <1>9 DEF Next

(* A rectangle that the server has encoded, with runs for all of it, is    *)
(* drawn as it was, whatever the size and wherever the runs begin: no run  *)
(* is lost, repeated or shifted, and no pixel is left to what malloc()     *)
(* returned (the run loop and the loop over rows and columns).             *)
THEOREM DrawsWhatWasEncoded ==
  ASSUME Rectangle, Compressed,
         NEW CONSTANT plain, NEW CONSTANT n, NEW CONSTANT at, NEW CONSTANT upto,
         Encodes(plain, n, at, upto), upto[n] >= Total
  PROVE  Spec => []Exact(plain)
  <1>1. Init => Inv(plain, n, at, upto)
    BY InitInv
  <1>2. Inv(plain, n, at, upto) /\ [Next]_vars => Inv(plain, n, at, upto)'
    BY InvStep
  <1>3. Inv(plain, n, at, upto) => Exact(plain)
    BY Sizes DEF Inv, Exact, Drawn, Row, Rectangle
  <1> QED
    BY <1>1, <1>2, <1>3, PTL DEF Spec
=============================================================================
