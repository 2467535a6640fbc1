--------------------------- MODULE MCGraphStore ---------------------------
(***************************************************************************)
(* Instances of GraphStore for TLC.                                        *)
(***************************************************************************)
EXTENDS GraphStore

CONSTANTS k1, k2, p1, p2
=============================================================================
