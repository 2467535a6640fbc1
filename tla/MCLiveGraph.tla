---------------------------- MODULE MCLiveGraph ----------------------------
(***************************************************************************)
(* Instances of LiveGraph for TLC.                                         *)
(***************************************************************************)
EXTENDS LiveGraph

CONSTANTS a, b

AB == {<<a, b>>}
G(config, template, edges) ==
  [template |-> [n \in Ids |-> IF n = a THEN "agent" ELSE template],
   config |-> [n \in Ids |-> IF n = a THEN config ELSE "c1"], edges |-> edges]

(* Graphs that differ in a node and its edge, a template, a configuration. *)
Changes == {G("c1", "none", {}), G("c2", "tool", AB), G("c2", "mcp", AB)}
=============================================================================
