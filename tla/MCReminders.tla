---------------------------- MODULE MCReminders ----------------------------
(***************************************************************************)
(* Instances of Reminders for TLC.                                         *)
(***************************************************************************)
EXTENDS Reminders, TLC

CONSTANTS t1, r1, r2

OneThread == [r \in {r1, r2} |-> t1]
CallSymmetry == Permutations({r1, r2})
=============================================================================
