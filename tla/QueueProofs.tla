----------------------------- MODULE QueueProofs ----------------------------
(* What is in a queue when something is put at its end or taken from its   *)
(* front, for the theorems about modules whose channels are sequences.     *)
EXTENDS Integers, Sequences, TLAPS

(* The elements of a queue.                                                *)
In(s) == {s[k] : k \in DOMAIN s}

(* Something is put at the end.                                            *)
LEMMA Appended ==
  ASSUME NEW S, NEW s \in Seq(S), NEW x \in S
  PROVE  /\ Append(s, x) \in Seq(S) /\ Append(s, x) # <<>>
         /\ Len(Append(s, x)) = Len(s) + 1
         /\ \A k \in 1 .. Len(s) : Append(s, x)[k] = s[k]
         /\ Append(s, x)[Len(s) + 1] = x
         /\ In(Append(s, x)) = In(s) \cup {x}
  <1>1. /\ Append(s, x) \in Seq(S) /\ Append(s, x) # <<>>
        /\ Len(Append(s, x)) = Len(s) + 1 /\ Len(s) \in Nat
        /\ \A k \in 1 .. Len(s) : Append(s, x)[k] = s[k]
        /\ Append(s, x)[Len(s) + 1] = x
    OBVIOUS
  <1>2. /\ DOMAIN s = 1 .. Len(s)
        /\ DOMAIN Append(s, x) = 1 .. Len(s) + 1
    BY <1>1
  <1>3. In(Append(s, x)) = In(s) \cup {x}
    BY <1>1, <1>2 DEF In
  <1> QED
    BY <1>1, <1>3

(* Something is taken from the front.                                      *)
LEMMA Tailed ==
  ASSUME NEW S, NEW s \in Seq(S), s # <<>>
  PROVE  /\ Head(s) \in S /\ Head(s) = s[1] /\ Head(s) \in In(s)
         /\ 1 \in DOMAIN s /\ Len(s) \in Nat /\ Len(s) > 0
         /\ Tail(s) \in Seq(S) /\ Len(Tail(s)) = Len(s) - 1
         /\ \A k \in 1 .. Len(s) - 1 : Tail(s)[k] = s[k + 1]
         /\ In(s) = In(Tail(s)) \cup {Head(s)}
  <1>1. /\ Head(s) \in S /\ Head(s) = s[1] /\ Len(s) \in Nat /\ Len(s) > 0
        /\ Tail(s) \in Seq(S) /\ Len(Tail(s)) = Len(s) - 1
        /\ \A k \in 1 .. Len(s) - 1 : Tail(s)[k] = s[k + 1]
    OBVIOUS
  <1>2. DOMAIN s = 1 .. Len(s) /\ DOMAIN Tail(s) = 1 .. Len(s) - 1
    BY <1>1
  <1>3. ASSUME NEW x \in In(s) PROVE x \in In(Tail(s)) \cup {Head(s)}
    <2>1. PICK k \in 1 .. Len(s) : x = s[k]
      BY <1>2 DEF In
    <2>2. CASE k = 1
      BY <1>1, <2>1, <2>2
    <2>3. CASE k # 1
      <3>1. k - 1 \in 1 .. Len(s) - 1 /\ (k - 1) + 1 = k
        BY <1>1, <2>1, <2>3
      <3>2. Tail(s)[k - 1] = x
        BY <1>1, <2>1, <3>1
      <3> QED
        BY <1>2, <3>1, <3>2 DEF In
    <2> QED
      BY <2>2, <2>3
  <1>4. ASSUME NEW x \in In(Tail(s)) PROVE x \in In(s)
    <2>1. PICK k \in 1 .. Len(s) - 1 : x = Tail(s)[k]
      BY <1>2 DEF In
    <2>2. k + 1 \in 1 .. Len(s) /\ x = s[k + 1]
      BY <1>1, <2>1
    <2> QED
      BY <1>2, <2>2 DEF In
  <1>5. Head(s) \in In(s) /\ 1 \in DOMAIN s
    BY <1>1, <1>2 DEF In
  <1> QED
    BY <1>1, <1>3, <1>4, <1>5
=============================================================================
