------------------------- MODULE RotationLockProofs -------------------------
(* Theorems about RotationLock, for any number of instances and of files,  *)
(* whichever of them exist and can be read, and under every fault.         *)
EXTENDS RotationLock, TLAPS

(* Until it starts, an instance has taken nothing.                         *)
Fresh == \A i \in Instances : stage[i] = "new" => saved[i] = {} /\ at[i] = 1

(* What an instance that is alone knows of the files: the values it will   *)
(* put back are the original ones, what it has not taken is untouched,     *)
(* what it has taken is silent until restore() reaches it.                 *)
Held(i) ==
    /\ \A f \in saved[i] \cap Parsable : prior[i][f] = Original[f]
    /\ \A f \in Parsable : f \notin saved[i] => file[f] = Original[f]
    /\ stage[i] # "restore" => \A f \in saved[i] : file[f] = Silent(f)
    /\ stage[i] = "restore" =>
           \A f \in Parsable : f < at[i] => file[f] = Original[f]
    /\ stage[i] \in {"read", "write"} => \A f \in saved[i] : f < at[i]
    /\ stage[i] = "write" /\ at[i] \in Parsable =>
           prior[i][at[i]] = Original[at[i]]

Alone == \A i, j \in Instances : stage[i] \in Alive /\ stage[j] \in Alive => i = j
Untouched == \A f \in Parsable : file[f] = Original[f]

Inv == /\ TypeOK
       /\ Fresh
       /\ blame = {} =>
            /\ Alone
            /\ \A i \in Instances : stage[i] \in Alive => Held(i)
            /\ (\A i \in Instances : stage[i] \notin Alive) => Untouched

LEMMA FilesFacts ==
    /\ Hall \in Files /\ Files \subseteq Nat
    /\ Parsable \subseteq Files /\ Original \in [Files -> {0, 1}]
    /\ \A f \in Files : Silent(f) \in {0, 1}
  BY FilesAssumption DEF Files, Silent

LEMMA ValuesFacts ==
    /\ Unread \in Values /\ 0 \in Values /\ 1 \in Values
    /\ \A v \in Values : v >= 0 => v \in {0, 1}
  BY DEF Values, Unread

LEMMA InitInv == Init => Inv
  BY FilesFacts, FilesAssumption
  DEF Init, Inv, TypeOK, Fresh, Alone, Untouched, Values, Unread, Alive, Locking, Files

-----------------------------------------------------------------------------
LEMMA TypeStep == TypeOK /\ [Next]_vars => TypeOK'
  <1> SUFFICES ASSUME TypeOK, [Next]_vars PROVE TypeOK'
    OBVIOUS
  <1> USE FilesFacts, ValuesFacts DEF TypeOK, Alive, Locking, Go, Blamed
  <1>a. ASSUME NEW i \in Instances, NEW lock \in BOOLEAN, Start(i, lock)
        PROVE  TypeOK'
    BY <1>a DEF Start
  <1>b. ASSUME NEW i \in Instances, Read(i) PROVE TypeOK'
    BY <1>b DEF Read
  <1>1. ASSUME NEW i \in Instances, at[i] # Hall
        PROVE  at[i] + 1 \in Files
    BY <1>1, FilesAssumption DEF Files
  <1>3. ASSUME NEW i \in Instances, NEW s \in Alive, NEW t \in Alive \cup {"gone"},
               Advance(i, s, t)
        PROVE  /\ stage' \in [Instances -> Alive \cup {"new", "gone"}]
               /\ at' \in [Instances -> Files]
    <2>1. CASE at[i] = Hall
      BY <1>3, <2>1 DEF Advance
    <2>2. CASE at[i] # Hall
      BY <1>1, <1>3, <2>2 DEF Advance
    <2> QED
      BY <2>1, <2>2
  <1>c. ASSUME NEW i \in Instances, Write(i) PROVE TypeOK'
    <2>1. file' \in [Files -> {0, 1}] /\ saved' \in [Instances -> SUBSET Files]
      BY <1>c DEF Write, Silenced
    <2>2. Advance(i, "read", "arm")
      BY <1>c DEF Write
    <2>3. /\ stage' \in [Instances -> Alive \cup {"new", "gone"}]
          /\ at' \in [Instances -> Files]
      BY <1>3, <2>2
    <2> QED
      BY <1>c, <2>1, <2>3 DEF Write
  <1>d. ASSUME NEW i \in Instances, Arm(i) PROVE TypeOK'
    BY <1>d DEF Arm
  <1>2. 1 \in Files
    BY FilesAssumption DEF Files
  <1>e. ASSUME NEW i \in Instances, BeginRestore(i) PROVE TypeOK'
    BY <1>e, <1>2 DEF BeginRestore
  <1>f. ASSUME NEW i \in Instances,
               NEW why \in {"early", "kill", "power"}, Vanish(i, why)
        PROVE  TypeOK'
    BY <1>f DEF Vanish
  <1>g. ASSUME NEW i \in Instances, Restore(i) PROVE TypeOK'
    <2>1. prior[i][at[i]] \in Values
      OBVIOUS
    <2>2. file' \in [Files -> {0, 1}]
      BY <1>g, <2>1 DEF Restore
    <2>3. StillSaved(i) \subseteq Files
      BY DEF StillSaved
    <2>4. saved' \in [Instances -> SUBSET Files] /\ Advance(i, "restore", "gone")
      BY <1>g, <2>3 DEF Restore
    <2>5. /\ stage' \in [Instances -> Alive \cup {"new", "gone"}]
          /\ at' \in [Instances -> Files]
      BY <1>3, <2>4
    <2> QED
      BY <1>g, <2>2, <2>4, <2>5 DEF Restore
  <1>h. CASE UNCHANGED vars
    BY <1>h DEF vars
  <1> QED
    BY <1>a, <1>b, <1>c, <1>d, <1>e, <1>f, <1>g, <1>h
    DEF Next, Return, Signal, Kill, Power

-----------------------------------------------------------------------------
(* One lemma per step: from Inv, the rest of Inv in the next state.        *)
Rest == /\ Fresh
        /\ blame = {} =>
             /\ Alone
             /\ \A i \in Instances : stage[i] \in Alive => Held(i)
             /\ (\A i \in Instances : stage[i] \notin Alive) => Untouched

LEMMA Typed ==
    ASSUME TypeOK, NEW i \in Instances
    PROVE  /\ at[i] \in Files /\ at[i] \in Nat
           /\ saved[i] \subseteq Files
  BY FilesFacts DEF TypeOK

LEMMA StartStep ==
    ASSUME Inv, NEW i \in Instances, NEW lock \in BOOLEAN, Start(i, lock)
    PROVE  Rest'
  BY FilesFacts
  DEF Inv, Rest, Start, Go, Blamed, TypeOK, Fresh, Alone, Held, Untouched,
      Alive, Locking

LEMMA ReadStep ==
    ASSUME Inv, NEW i \in Instances, Read(i)
    PROVE  Rest'
  <1> USE DEF Alive, Locking
  <1>1. /\ stage[i] = "read" /\ stage'[i] = "write"
        /\ \A j \in Instances : j # i => stage'[j] = stage[j]
        /\ UNCHANGED <<file, at, saved, blame>>
    BY DEF Inv, TypeOK, Read, Go
  <1>2. Fresh'
    BY <1>1 DEF Inv, Fresh
  <1> SUFFICES ASSUME blame = {}
               PROVE  /\ Alone'
                      /\ \A j \in Instances : stage'[j] \in Alive => Held(j)'
    BY <1>1, <1>2 DEF Rest
  <1>3. Alone /\ Held(i)
    BY <1>1 DEF Inv
  <1>4. Alone'
    BY <1>1, <1>3 DEF Alone
  <1>5. at[i] \in Files /\ at[i] \in Nat /\ saved[i] \subseteq Files
    BY Typed DEF Inv
  <1>6. /\ \A f \in Files : f # at[i] => prior'[i][f] = prior[i][f]
        /\ at[i] \in Parsable => prior'[i][at[i]] = file[at[i]]
    BY <1>5 DEF Inv, TypeOK, Read
  <1>7. \A f \in saved[i] : f # at[i]
    BY <1>1, <1>3, <1>5, FilesFacts DEF Held
  <1>8. Held(i)'
    BY <1>1, <1>3, <1>5, <1>6, <1>7 DEF Held
  <1> QED
    BY <1>1, <1>3, <1>4, <1>8 DEF Alone

LEMMA WriteStep ==
    ASSUME Inv, NEW i \in Instances, Write(i)
    PROVE  Rest'
  <1> USE FilesFacts DEF Alive, Locking
  <1>1. stage[i] = "write" /\ at[i] \in Files
    BY DEF Inv, TypeOK, Write
  <1>2. Fresh'
    BY DEF Inv, TypeOK, Fresh, Write, Advance, Go
  <1> SUFFICES ASSUME blame' = {}
               PROVE  /\ Alone'
                      /\ \A j \in Instances : stage'[j] \in Alive => Held(j)'
                      /\ (\A j \in Instances : stage'[j] \notin Alive) => Untouched'
    BY <1>2 DEF Rest
  <1>3. blame = {} /\ Alone /\ Held(i)
    BY <1>1 DEF Inv, Write
  <1>4. stage'[i] \in {"read", "arm"} /\ \A j \in Instances : j # i => stage'[j] = stage[j]
    BY DEF Inv, TypeOK, Write, Advance, Go
  <1>5. Alone'
    BY <1>1, <1>3, <1>4 DEF Alone
  <1>6. Held(i)'
    <2>1. CASE CanSilence(i)
      <3>1. file' = Silenced(at[i]) /\ saved'[i] = saved[i] \cup {at[i]} /\ prior' = prior
        BY <2>1 DEF Write, Inv, TypeOK
      <3>2. \A f \in Files : file'[f] = IF f = at[i] THEN Silent(f) ELSE file[f]
        BY <3>1 DEF Silenced, Inv, TypeOK
      <3>3. saved[i] \subseteq Files
        BY DEF Inv, TypeOK
      <3>4. stage'[i] = "read" => at'[i] = at[i] + 1
        BY <1>1 DEF Write, Advance, Go, Inv, TypeOK
      <3>5. \A f \in saved'[i] \cap Parsable : prior'[i][f] = Original[f]
        BY <1>1, <1>3, <3>1 DEF Held
      <3>6. \A f \in Parsable : f \notin saved'[i] => file'[f] = Original[f]
        BY <1>3, <3>1, <3>2 DEF Held
      <3>7. \A f \in saved'[i] : file'[f] = Silent(f)
        BY <1>1, <1>3, <3>1, <3>2, <3>3 DEF Held
      <3>8. stage'[i] = "read" => \A f \in saved'[i] : f < at'[i]
        <4> SUFFICES ASSUME stage'[i] = "read", NEW f \in saved'[i]
                     PROVE  f < at'[i]
          OBVIOUS
        <4>1. f < at[i] \/ f = at[i]
          BY <1>1, <1>3, <3>1 DEF Held
        <4>2. f \in Nat /\ at[i] \in Nat
          BY <1>1, <3>1, <3>3
        <4> QED
          BY <3>4, <4>1, <4>2
      <3> QED
        BY <1>4, <3>5, <3>6, <3>7, <3>8 DEF Held
    <2>2. CASE ~CanSilence(i)
      <3>1. UNCHANGED <<file, saved, prior>>
        BY <2>2 DEF Write
      <3>2. stage'[i] = "read" => at'[i] = at[i] + 1
        BY <1>1 DEF Write, Advance, Go, Inv, TypeOK
      <3>3. saved[i] \subseteq Files
        BY DEF Inv, TypeOK
      <3>4. stage'[i] = "read" => \A f \in saved'[i] : f < at'[i]
        <4> SUFFICES ASSUME stage'[i] = "read", NEW f \in saved'[i]
                     PROVE  f < at'[i]
          OBVIOUS
        <4>1. f < at[i] /\ f \in Nat /\ at[i] \in Nat
          BY <1>1, <1>3, <3>1, <3>3 DEF Held
        <4> QED
          BY <3>2, <4>1
      <3> QED
        BY <1>1, <1>3, <1>4, <3>1, <3>4 DEF Held
    <2> QED
      BY <2>1, <2>2
  <1> QED
    BY <1>1, <1>3, <1>4, <1>5, <1>6 DEF Alone

LEMMA ArmStep ==
    ASSUME Inv, NEW i \in Instances, Arm(i)
    PROVE  Rest'
  BY FilesFacts
  DEF Inv, Rest, Arm, Go, TypeOK, Fresh, Alone, Held, Untouched, Alive, Locking

(* A restore() begun, or begun again by the signal handler.                *)
LEMMA BeginStep ==
    ASSUME Inv, NEW i \in Instances, stage[i] \in Alive, BeginRestore(i)
    PROVE  Rest'
  <1> USE DEF Alive, Locking
  <1>1. /\ stage'[i] = "restore" /\ at'[i] = 1
        /\ \A j \in Instances : j # i => stage'[j] = stage[j] /\ at'[j] = at[j]
        /\ UNCHANGED <<file, prior, saved, blame>>
    BY DEF Inv, TypeOK, BeginRestore, Go
  <1>2. Fresh'
    BY <1>1 DEF Inv, Fresh
  <1> SUFFICES ASSUME blame = {}
               PROVE  /\ Alone'
                      /\ \A j \in Instances : stage'[j] \in Alive => Held(j)'
    BY <1>1, <1>2 DEF Rest
  <1>3. Alone /\ Held(i)
    BY DEF Inv
  <1>4. \A f \in Parsable : ~(f < 1)
    BY FilesFacts DEF Files
  <1>5. Held(i)'
    BY <1>1, <1>3, <1>4 DEF Held
  <1> QED
    BY <1>1, <1>3, <1>5 DEF Alone

(* A process that vanishes without blame had taken nothing.                *)
LEMMA VanishStep ==
    ASSUME Inv, NEW i \in Instances, stage[i] \in Alive, NEW why,
           Vanish(i, why)
    PROVE  Rest'
  BY FilesFacts
  DEF Inv, Rest, Vanish, Go, Blamed, TypeOK, Fresh, Alone, Held, Untouched, Alive,
      Locking

LEMMA RestoreStep ==
    ASSUME Inv, NEW i \in Instances, Restore(i)
    PROVE  Rest'
  <1> USE FilesFacts DEF Alive, Locking
  <1>1. /\ stage[i] = "restore" /\ at[i] \in Files /\ at[i] \in Nat
        /\ saved[i] \subseteq Files
    BY Typed DEF Inv, Restore
  <1>2. Fresh'
    BY DEF Inv, TypeOK, Fresh, Restore, Advance, Go
  <1> SUFFICES ASSUME blame' = {}
               PROVE  /\ Alone'
                      /\ \A j \in Instances : stage'[j] \in Alive => Held(j)'
                      /\ (\A j \in Instances : stage'[j] \notin Alive) => Untouched'
    BY <1>2 DEF Rest
  <1>3. blame = {} /\ Alone /\ Held(i)
    BY <1>1 DEF Inv, Restore
  <1>4. stage'[i] \in {"restore", "gone"} /\ \A j \in Instances : j # i => stage'[j] = stage[j]
    BY DEF Inv, TypeOK, Restore, Advance, Go
  <1>5. Alone'
    BY <1>1, <1>3, <1>4 DEF Alone
  <1>0. \A f \in Files : f # at[i] => file'[f] = file[f]
    BY DEF Restore, Inv, TypeOK
  <1>6. \A f \in Parsable : f <= at[i] => file'[f] = Original[f]
    <2> SUFFICES ASSUME NEW f \in Parsable, f <= at[i]
                 PROVE  file'[f] = Original[f]
      OBVIOUS
    <2>1. f \in Files /\ Original[f] \in {0, 1}
      OBVIOUS
    <2>2. CASE f = at[i] /\ f \in saved[i]
      BY <1>3, <2>1, <2>2 DEF Held, Restore, Inv, TypeOK
    <2>3. CASE f = at[i] /\ f \notin saved[i]
      BY <1>3, <2>1, <2>3 DEF Held, Restore, Inv, TypeOK
    <2>4. CASE f # at[i]
      <3>1. f \in Nat /\ at[i] \in Nat
        BY <1>1
      <3>2. f < at[i]
        BY <3>1, <2>4, Z3
      <3> QED
        BY <1>1, <1>3, <1>0, <2>1, <2>4, <3>2 DEF Held
    <2> QED
      BY <2>2, <2>3, <2>4
  <1>7. saved'[i] = StillSaved(i) /\ prior' = prior
    BY DEF Restore, Inv, TypeOK
  <1>8. \A f \in Parsable : f \notin saved'[i] => file'[f] = Original[f]
    <2> SUFFICES ASSUME NEW f \in Parsable, f \notin saved'[i], ~(f <= at[i])
                 PROVE  file'[f] = Original[f]
      BY <1>6
    <2>1. f \in Nat /\ f > at[i]
      BY <1>1
    <2>2. f \notin saved[i] /\ f # at[i]
      BY <1>1, <1>7, <2>1 DEF StillSaved
    <2> QED
      BY <1>3, <1>0, <2>2 DEF Held
  <1>9. Held(i)' \/ stage'[i] = "gone"
    <2> SUFFICES ASSUME stage'[i] = "restore" PROVE Held(i)'
      BY <1>4
    <2>1. at'[i] = at[i] + 1
      BY DEF Restore, Advance, Go, Inv, TypeOK
    <2>2. saved'[i] \subseteq saved[i]
      BY <1>7 DEF StillSaved
    <2>3. \A f \in Parsable : f < at'[i] => file'[f] = Original[f]
      <3> SUFFICES ASSUME NEW f \in Parsable, f < at'[i]
                   PROVE  file'[f] = Original[f]
        OBVIOUS
      <3>1. f \in Nat
        OBVIOUS
      <3> QED
        BY <1>1, <1>6, <2>1, <3>1
    <2> QED
      BY <1>3, <1>7, <1>8, <2>2, <2>3 DEF Held
  <1>10. stage'[i] = "gone" => Untouched'
    <2> SUFFICES ASSUME stage'[i] = "gone" PROVE Untouched'
      OBVIOUS
    <2>1. at[i] = Hall
      BY <1>1 DEF Restore, Advance, Go, Inv, TypeOK
    <2>2. \A f \in Parsable : f <= Hall
      BY DEF Files
    <2> QED
      BY <1>6, <2>1, <2>2 DEF Untouched
  <1> QED
    BY <1>1, <1>3, <1>4, <1>5, <1>9, <1>10 DEF Alone

-----------------------------------------------------------------------------
LEMMA StutterStep == Inv /\ UNCHANGED vars => Rest'
  BY DEF Inv, Rest, vars, Fresh, Alone, Held, Untouched

LEMMA NextInv == Inv /\ [Next]_vars => Inv'
  <1> SUFFICES ASSUME Inv, [Next]_vars PROVE Inv'
    OBVIOUS
  <1>1. TypeOK'
    BY TypeStep DEF Inv
  <1>2. ASSUME NEW i \in Instances, Signal(i) PROVE Rest'
    BY <1>2, BeginStep, VanishStep DEF Signal
  <1>3. ASSUME NEW i \in Instances, Kill(i) \/ Power(i) PROVE Rest'
    BY <1>3, VanishStep DEF Kill, Power, Alive
  <1>4. ASSUME NEW i \in Instances, Return(i) PROVE Rest'
    BY <1>4, BeginStep DEF Return, Alive
  <1>5. Rest'
    BY <1>2, <1>3, <1>4, StartStep, ReadStep, WriteStep, ArmStep, RestoreStep,
       StutterStep DEF Next
  <1> QED
    BY <1>1, <1>5 DEF Inv, Rest

LEMMA InvImplies == Inv => TypeOK /\ LeftAsFound /\ SilentWhileRunning
  BY DEF Inv, LeftAsFound, SilentWhileRunning, Held, Untouched, Alive

(* Every variable of the guard keeps its type (OrientationLockGuard).      *)
THEOREM TypeCorrect == Spec => []TypeOK
  <1>1. Init => TypeOK
    BY InitInv DEF Inv
  <1> QED
    BY <1>1, TypeStep, PTL DEF Spec

LEMMA AlwaysInv == Spec => []Inv
  BY InitInv, NextInv, PTL DEF Spec

(* Without overlap, early signal, SIGKILL or exit(0), a vnsee that is gone *)
(* has put back every value it could read (restore(), signal_handler).     *)
THEOREM PutsBack == Spec => []LeftAsFound
  <1>1. Inv => LeftAsFound
    BY InvImplies
  <1> QED
    BY <1>1, AlwaysInv, PTL

(* Without overlap, what a running vnsee has silenced stays silent.        *)
THEOREM StaysSilent == Spec => []SilentWhileRunning
  <1>1. Inv => SilentWhileRunning
    BY InvImplies
  <1> QED
    BY <1>1, AlwaysInv, PTL
=============================================================================
