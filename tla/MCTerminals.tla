---------------------------- MODULE MCTerminals ----------------------------
(***************************************************************************)
(* Instances of Terminals for TLC.                                         *)
(***************************************************************************)
EXTENDS Terminals

CONSTANTS s1, k1, k2, k3

OneSession == [k \in Connections |-> s1]
=============================================================================
