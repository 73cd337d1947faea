---------------------------- MODULE RotationLock ----------------------------
(***************************************************************************)
(* OrientationLockGuard of main.cpp: while vnsee runs, the files through   *)
(* which xochitl learns of a rotation are silenced, and the values they    *)
(* had are put back when it ends.                                          *)
(*                                                                         *)
(* The files belong to the system and outlive every process, so a process  *)
(* that ends without writing them back leaves the tablet locked.  Several  *)
(* instances of vnsee may run over the life of the system, one after the   *)
(* other or at once; each file access is a step, and a signal may arrive   *)
(* between any two of them.                                                *)
(*                                                                         *)
(* Files are numbered in the order the constructor takes them.  The last   *)
(* is the inhibit switch of the Hall sensor, the others are event enables  *)
(* of the accelerometer's IIO devices.                                     *)
(***************************************************************************)
EXTENDS Integers

CONSTANTS
    Instances,      \* runs of vnsee
    Hall,           \* number of the Hall switch: the last file
    Present,        \* files that exist: opening another one fails
    Parsable,       \* files that read_int can read a number from
    Original,       \* the values before the first run
    Faults          \* ends to be considered besides return, exception, signal

Files == 1..Hall
ASSUME FilesAssumption ==
    /\ Hall \in Nat \ {0}
    /\ Parsable \subseteq Present /\ Present \subseteq Files
    /\ Original \in [Files -> {0, 1}]
ASSUME FaultsAssumption == Faults \subseteq {"kill", "power"}

VARIABLES
    file,       \* the kernel's files
    stage,      \* where each instance is
    at,         \* the file its constructor or restore() is at
    prior,      \* what read_int returned for each file
    saved,      \* saved_iio_ and hall_engaged_: files to put back
    armed,      \* the signal handlers are installed
    blame       \* history: why files may differ from what they were
vars == <<file, stage, at, prior, saved, armed, blame>>

Locking == {"read", "write", "arm"}
Alive == Locking \cup {"running", "restore"}
Unread == -1
Silent(f) == IF f = Hall THEN 1 ELSE 0

Init ==
    /\ file = Original
    /\ stage = [i \in Instances |-> "new"]
    /\ at = [i \in Instances |-> 1]
    /\ prior = [i \in Instances |-> [f \in Files |-> Unread]]
    /\ saved = [i \in Instances |-> {}]
    /\ armed = [i \in Instances |-> FALSE]
    /\ blame = {}

Go(i, s) == stage' = [stage EXCEPT ![i] = s]
Blamed(why, cond) == blame' = IF cond THEN blame \cup {why} ELSE blame

\* Mutated: the loop over the files has no end.
AdvanceRunsOn(i, again, done) ==
    /\ Go(i, again)
    /\ at' = [at EXCEPT ![i] = @ + 1]
(* On to the next file, or to what follows the last one.                   *)
Advance(i, again, done) ==
    IF at[i] = Hall
    THEN Go(i, done) /\ UNCHANGED at
    ELSE Go(i, again) /\ at' = [at EXCEPT ![i] = @ + 1]

(* main() constructs the guard unless --no-lock-rotation was given.        *)
Start(i, lock) ==
    /\ stage[i] = "new"
    /\ Go(i, IF lock THEN "read" ELSE "running")
    /\ Blamed("overlap", \E j \in Instances : stage[j] \in Alive)
    /\ UNCHANGED <<file, at, prior, saved, armed>>

(* int prior = read_int(p)                                                 *)
Read(i) ==
    /\ stage[i] = "read"
    /\ Go(i, "write")
    /\ prior' = [prior EXCEPT ![i][at[i]] =
                    IF at[i] \in Parsable THEN file[at[i]] ELSE Unread]
    /\ UNCHANGED <<file, at, saved, armed, blame>>

(* The IIO files are written whatever was read, the Hall switch only when  *)
(* its value is known.                                                     *)
CanSilence(i) ==
    /\ at[i] \in Present
    /\ at[i] = Hall => prior[i][Hall] >= 0

\* Mutated: the Hall switch gets the 0 of the event enables.
SilencedWithZero(f) == [file EXCEPT ![f] = 0]
Silenced(f) == [file EXCEPT ![f] = Silent(f)]

Write(i) ==
    /\ stage[i] = "write"
    /\ IF CanSilence(i)
       THEN /\ file' = Silenced(at[i])
            /\ saved' = [saved EXCEPT ![i] = @ \cup {at[i]}]
       ELSE UNCHANGED <<file, saved>>
    /\ Advance(i, "read", "arm")
    /\ UNCHANGED <<prior, armed, blame>>

(* sing_ = this, then install_signal_handlers(): only now is a signal      *)
(* followed by a restore().                                                *)
Arm(i) ==
    /\ stage[i] = "arm"
    /\ Go(i, "running")
    /\ armed' = [armed EXCEPT ![i] = saved[i] # {}]
    /\ UNCHANGED <<file, at, prior, saved, blame>>

BeginRestore(i) ==
    /\ Go(i, "restore")
    /\ at' = [at EXCEPT ![i] = 1]
    /\ UNCHANGED <<file, prior, saved, armed, blame>>

(* The server closes the connection, or an exception unwinds main().       *)
Return(i) == stage[i] = "running" /\ BeginRestore(i)

(* The process disappears without a restore().                             *)
Vanish(i, why) ==
    /\ Go(i, "gone")
    /\ Blamed(why, saved[i] # {})
    /\ UNCHANGED <<file, at, prior, saved, armed>>

(* SIGINT, SIGTERM, SIGHUP or SIGQUIT.  During restore() the handler runs  *)
(* it again from the start and the process never returns to the first.     *)
Signal(i) ==
    /\ stage[i] \in Alive
    /\ IF armed[i] THEN BeginRestore(i) ELSE Vanish(i, "early")

(* SIGKILL, which the launcher sends to a vnsee that has not ended 1.5 s   *)
(* after SIGTERM.                                                          *)
Kill(i) ==
    /\ "kill" \in Faults
    /\ stage[i] \in Alive
    /\ Vanish(i, "kill")

(* The power button calls exit(0) on the input thread: no object of        *)
(* main() is destroyed.                                                    *)
Power(i) ==
    /\ "power" \in Faults
    /\ stage[i] = "running"
    /\ Vanish(i, "power")

\* Mutated: hall_engaged_ is cleared along with saved_iio_.
StillSavedNone(i) == IF at[i] >= Hall - 1 THEN {} ELSE saved[i]
(* saved_iio_ is cleared after its last file, hall_engaged_ after the Hall *)
(* switch.                                                                 *)
StillSaved(i) ==
    IF at[i] >= Hall - 1 THEN {f \in saved[i] : f > at[i]} ELSE saved[i]

(* One file of restore().                                                  *)
Restore(i) ==
    /\ stage[i] = "restore"
    /\ file' = IF at[i] \in saved[i] /\ prior[i][at[i]] >= 0
               THEN [file EXCEPT ![at[i]] = prior[i][at[i]]]
               ELSE file
    /\ saved' = [saved EXCEPT ![i] = StillSaved(i)]
    /\ Advance(i, "restore", "gone")
    /\ UNCHANGED <<prior, armed, blame>>

Next ==
    \E i \in Instances :
        \/ \E lock \in BOOLEAN : Start(i, lock)
        \/ Read(i)
        \/ Write(i)
        \/ Arm(i)
        \/ Return(i)
        \/ Signal(i)
        \/ Kill(i)
        \/ Power(i)
        \/ Restore(i)

Spec == Init /\ [][Next]_vars

-----------------------------------------------------------------------------
Values == {Unread, 0, 1}

TypeOK ==
    /\ file \in [Files -> {0, 1}]
    /\ stage \in [Instances -> Alive \cup {"new", "gone"}]
    /\ at \in [Instances -> Files]
    /\ prior \in [Instances -> [Files -> Values]]
    /\ saved \in [Instances -> SUBSET Files]
    /\ armed \in [Instances -> BOOLEAN]
    /\ blame \subseteq {"overlap", "early", "kill", "power"}

(* Whatever ended it, a vnsee that is not running has left every file      *)
(* whose value it could read as it found it, and the exceptions are        *)
(* exactly these: two instances were alive at once, a signal came before   *)
(* the handlers were installed, SIGKILL, and exit(0) from the power        *)
(* button.  ("Each prior value is saved on construction and restored on    *)
(* destruction", main.cpp.)                                                *)
LeftAsFound ==
    blame = {} /\ (\A i \in Instances : stage[i] \notin Alive)
        => \A f \in Parsable : file[f] = Original[f]

(* While vnsee runs, the files it took stay silent: nothing puts one back  *)
(* under a running instance unless two of them overlap.                    *)
SilentWhileRunning ==
    blame = {} =>
        \A i \in Instances : stage[i] = "running" =>
            \A f \in saved[i] : file[f] = Silent(f)
=============================================================================
