--------------------------- MODULE MCRotationLock ---------------------------
(* Values for the constants of RotationLock.  Four files stand for the     *)
(* five: an ordinary event enable, one whose value cannot be read, one     *)
(* that does not exist, and the Hall switch, found inhibited or not.       *)
EXTENDS RotationLock, TLC

OrdinaryValues == [f \in Files |-> IF f = Hall THEN 0 ELSE 1]
Readable == Files \ {2, 3}
Existing == Files \ {3}
Runs == Permutations(Instances)
=============================================================================
