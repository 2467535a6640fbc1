--------------------------- MODULE MCAgentThreads ---------------------------
(***************************************************************************)
(* Instances of AgentThreads for TLC.                                      *)
(***************************************************************************)
EXTENDS AgentThreads, FiniteSets, TLC

CONSTANTS t1, m1, m2, m3

OneThread == [m \in {m1, m2, m3} |-> t1]
OneThread2 == [m \in {m1, m2} |-> t1]

InjectOneByOne == {[whenBusy |-> "injectAfterTools", processBuffer |-> "oneByOne"]}
WaitOrInject == InjectOneByOne \union {DefaultBehavior}
InjectEither == InjectOneByOne \union {[whenBusy |-> "injectAfterTools", processBuffer |-> "allTogether"]}
WaitAllTogether == {DefaultBehavior}
AllFaults == FaultPoints
=============================================================================
