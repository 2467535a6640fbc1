---------------------------- MODULE MCDelegation ----------------------------
(***************************************************************************)
(* Instances of Delegation for TLC.                                        *)
(***************************************************************************)
EXTENDS Delegation

CONSTANTS c1, c2, c3, t1, t2

Of(x1, x2, x3) == [c \in Calls |-> CASE c = c1 -> x1 [] c = c2 -> x2 [] OTHER -> x3]

S(tool, child, sync, timed, fails) ==
  [tool |-> tool, child |-> child, sync |-> sync, timed |-> timed, fails |-> fails]

Workers == Of("manage", "manage", "none")
WithUser == Of("manage", "manage", "user")
Agents == Of("call_agent", "call_agent", "none")
Same == Of(t1, t1, t1)
Two == Of(t1, t2, t1)

(* Messages to one worker and to two, with and without a user who writes   *)
(* to it; a worker and an agent called directly; two such agents.          *)
EachSetup ==
  {S(Workers, Same, TRUE, TRUE, TRUE),
   S(WithUser, Same, TRUE, FALSE, FALSE),
   S(WithUser, Same, FALSE, FALSE, FALSE),
   S(Workers, Two, FALSE, FALSE, TRUE),
   S(Of("manage", "call_agent", "user"), Two, TRUE, TRUE, TRUE),
   S(Agents, Same, TRUE, FALSE, TRUE),
   S(Agents, Two, FALSE, FALSE, TRUE)}
=============================================================================
