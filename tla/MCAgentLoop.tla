---------------------------- MODULE MCAgentLoop ----------------------------
(***************************************************************************)
(* Instances of AgentLoop for TLC.                                         *)
(***************************************************************************)
EXTENDS AgentLoop

Summarizing == [injects |-> TRUE, summarizes |-> TRUE, restricts |-> TRUE, cap |-> 1]
Capped == [Summarizing EXCEPT !.summarizes = FALSE]
Uncapped == [Capped EXCEPT !.cap = 0]

EachConfig == {Summarizing, Capped, Uncapped}
=============================================================================
