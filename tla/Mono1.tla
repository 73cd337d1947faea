------------------------------- MODULE Mono1 --------------------------------
(***************************************************************************)
(* The decoder of rcast's own encodings, which a patch adds to             *)
(* libvncclient: a rectangle of one bit per pixel, plain (mono1) or run    *)
(* length encoded (mono1z), is unpacked into a buffer and drawn row by     *)
(* row.                                                                    *)
(*                                                                         *)
(* What the server sends is anything: bytes that end within a run, or too  *)
(* few or too many for the rectangle.  The buffer is as malloc() gave it,  *)
(* so what the bytes leave unwritten is drawn from whatever was there.     *)
(***************************************************************************)
EXTENDS Integers

CONSTANTS
    Width, Height,  \* rect.r.w, rect.r.h
    Compressed,     \* mono1z
    CompLen,        \* length of what was sent
    Wire,           \* what was sent, numbered from 0
    Garbage         \* bytes that allocated memory may hold

Byte == 0 .. 255
RowBytes == (Width + 7) \div 8
Total == RowBytes * Height
Index == 0 .. Total - 1
Row == 0 .. Height - 1
Col == 0 .. Width - 1

VARIABLES
    pc,         \* where the decoder is
    inPos,      \* in_pos
    outPos,     \* out_pos
    packed,     \* all_packed
    row,        \* the row to draw next
    picture     \* the rectangle: a bit for each pixel, None before its row
vars == <<pc, inPos, outPos, packed, row, picture>>

None == -1

Init ==
    /\ pc = "read" /\ inPos = 0 /\ outPos = 0 /\ row = 0
    /\ packed \in [Index -> Garbage]
    /\ picture = [r \in Row |-> [c \in Col |-> None]]

(* Memory runs out or the connection ends: HandleRFBServerMessage returns  *)
(* FALSE with nothing drawn, and vnsee ends.                               *)
Fail ==
    /\ pc = "read" /\ pc' = "failed"
    /\ UNCHANGED <<inPos, outPos, packed, row, picture>>

ReadPlain ==
    /\ pc = "read" /\ ~Compressed /\ CompLen = Total
    /\ pc' = "rows"
    /\ packed' = [i \in Index |-> Wire[i]]
    /\ UNCHANGED <<inPos, outPos, row, picture>>

ReadCompressed ==
    /\ pc = "read" /\ Compressed
    /\ pc' = "runs"
    /\ UNCHANGED <<inPos, outPos, packed, row, picture>>

Lesser(a, b) == IF a < b THEN a ELSE b
Ctrl == Wire[inPos]
MoreRuns == pc = "runs" /\ inPos < CompLen /\ outPos < Total

(* A repeat run, of the byte that follows.                                 *)
RepeatCount == Lesser(Ctrl - 128 + 2, Total - outPos)
RepeatRun ==
    /\ MoreRuns /\ Ctrl >= 128 /\ inPos + 1 < CompLen
    /\ packed' = [i \in Index |->
                    IF i \in outPos .. outPos + RepeatCount - 1
                    THEN Wire[inPos + 1] ELSE packed[i]]
    /\ inPos' = inPos + 2
    /\ outPos' = outPos + RepeatCount
    /\ UNCHANGED <<pc, row, picture>>

(* The byte to repeat is missing.                                          *)
BreakOff ==
    /\ MoreRuns /\ Ctrl >= 128 /\ inPos + 1 >= CompLen
    /\ pc' = "rows" /\ inPos' = inPos + 1
    /\ UNCHANGED <<outPos, packed, row, picture>>

(* A literal run, of the bytes that follow.                                *)
LiteralCount == Lesser(Lesser(Ctrl + 1, CompLen - (inPos + 1)), Total - outPos)
LiteralRun ==
    /\ MoreRuns /\ Ctrl < 128
    /\ packed' = [i \in Index |->
                    IF i \in outPos .. outPos + LiteralCount - 1
                    THEN Wire[inPos + 1 + (i - outPos)] ELSE packed[i]]
    /\ inPos' = inPos + 1 + LiteralCount
    /\ outPos' = outPos + LiteralCount
    /\ UNCHANGED <<pc, row, picture>>

EndRuns ==
    /\ pc = "runs" /\ ~MoreRuns
    /\ pc' = "rows"
    /\ UNCHANGED <<inPos, outPos, packed, row, picture>>

(* The most significant bit is the leftmost pixel.                         *)
Bit(b, c) == (b \div 2^(7 - (c % 8))) % 2
Cell(r, c) == r * RowBytes + c \div 8

DrawRow ==
    /\ pc = "rows" /\ row < Height
    /\ picture' = [picture EXCEPT ![row] =
                     [c \in Col |-> Bit(packed[Cell(row, c)], c)]]
    /\ row' = row + 1
    /\ UNCHANGED <<pc, inPos, outPos, packed>>

(* rect_done: the rectangle is handed to commit_updates.                   *)
RectDone ==
    /\ pc = "rows" /\ row = Height
    /\ pc' = "done"
    /\ UNCHANGED <<inPos, outPos, packed, row, picture>>

Next == Fail \/ ReadPlain \/ ReadCompressed
        \/ RepeatRun \/ BreakOff \/ LiteralRun \/ EndRuns
        \/ DrawRow \/ RectDone
Spec == Init /\ [][Next]_vars

-----------------------------------------------------------------------------
(* What may be sent: any bytes.                                            *)
Rectangle ==
    /\ Width \in Nat /\ Height \in Nat /\ CompLen \in Nat
    /\ Compressed \in BOOLEAN
    /\ Wire \in [0 .. CompLen - 1 -> Byte] /\ Garbage \subseteq Byte

(* The bytes read and the bytes written stay within what was sent and what *)
(* was allocated, whatever was sent (the three clamps of the decoder).     *)
InBounds ==
    /\ inPos \in 0 .. CompLen /\ outPos \in 0 .. Total
    /\ packed \in [Index -> Byte]

(* The format, without a decoder: the n runs begin at[k] in the wire and   *)
(* at upto[k] in the bytes they stand for.                                 *)
Encodes(plain, n, at, upto) ==
    /\ n \in Nat /\ plain \in [Nat -> Byte]
    /\ at \in [0 .. n -> Nat] /\ upto \in [0 .. n -> Nat]
    /\ at[0] = 0 /\ upto[0] = 0 /\ at[n] = CompLen
    /\ \A k \in 0 .. n - 1 :
         /\ at[k] < CompLen
         /\ Wire[at[k]] >= 128 =>
              /\ at[k + 1] = at[k] + 2
              /\ upto[k + 1] = upto[k] + Wire[at[k]] - 128 + 2
              /\ \A i \in upto[k] .. upto[k + 1] - 1 : plain[i] = Wire[at[k] + 1]
         /\ Wire[at[k]] < 128 =>
              /\ at[k + 1] = at[k] + 1 + Wire[at[k]] + 1
              /\ upto[k + 1] = upto[k] + Wire[at[k]] + 1
              /\ \A i \in upto[k] .. upto[k + 1] - 1 :
                   plain[i] = Wire[at[k] + 1 + (i - upto[k])]
    /\ \A k \in 0 .. n : at[k] <= CompLen

(* The rectangle is done when every pixel is that of the bytes encoded.    *)
Exact(plain) ==
    pc = "done" => \A r \in Row, c \in Col : picture[r][c] = Bit(plain[Cell(r, c)], c)
=============================================================================
