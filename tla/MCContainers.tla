--------------------------- MODULE MCContainers ---------------------------
(***************************************************************************)
(* Instances of Containers for TLC.                                        *)
(***************************************************************************)
EXTENDS Containers

CONSTANTS k1, c1, c2

WantsAmd == [k \in Callers |-> "amd64"]

(* A thread that is closed, with faults or while its workspace ends; one    *)
(* whose workspace may end or be deleted by an administrator; one with a    *)
(* workspace of an earlier server.  The last two are a thread that is       *)
(* closed with the sweep switched off, and one whose workspace, of an       *)
(* earlier server, has no time to live.                                     *)
Defaults == [existing |-> {}, incidents |-> {}, faults |-> {}, expires |-> TRUE, sweeps |-> TRUE]
Everything ==
  {[Defaults EXCEPT !.incidents = {"close"},
      !.faults = {"stop", "remove", "volume", "reconnect", "crash"}],
   [Defaults EXCEPT !.incidents = {"close", "exit"}],
   [Defaults EXCEPT !.incidents = {"exit", "oom", "delete"}, !.faults = FaultKinds],
   [Defaults EXCEPT !.existing = {c1}, !.faults = {"stop", "remove"}],
   [Defaults EXCEPT !.incidents = {"close", "exit"}, !.faults = {"conflict", "remove", "list"},
      !.sweeps = FALSE],
   [Defaults EXCEPT !.existing = {c1}, !.incidents = {"exit"},
      !.faults = {"conflict", "register", "reconnect", "crash"}, !.expires = FALSE]}
OnlyExpiry == {[Defaults EXCEPT !.faults = {"remove"}]}
=============================================================================
