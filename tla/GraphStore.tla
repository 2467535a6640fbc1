---------------------------- MODULE GraphStore ----------------------------
(***************************************************************************)
(* The saved graph: a directory tree that is replaced as a whole under a   *)
(* lock file (FsGraphRepository), the clients that save a design           *)
(* (GraphPersistController), the patches of the state of a node            *)
(* (NodeStateService), and the snapshot of that state in the runtime,      *)
(* which a save replaces only when its graph is applied.                   *)
(*                                                                         *)
(* A tree has the version in its meta file, its nodes, its edges, and the  *)
(* state of one node, kept with the nodes.  A design is named for the      *)
(* client that saves it, a key of the state for the call that patches it.  *)
(* Files are written and removed one at a time: of a directory of nodes    *)
(* with some of its files it matters whether the node that is patched is   *)
(* among them ("some") or not ("others").                                  *)
(* Staging and backup directories have unique names; only those of whoever *)
(* holds the lock matter.                                                  *)
(***************************************************************************)
EXTENDS Naturals, Sequences

CONSTANTS
  Clients,    \* requests that save a design
  Patchers,   \* calls of NodeStateService.upsertNodeState
  Faults,     \* what may fail: writing or renaming a tree, rolling back, "crash"
  MaxFaults   \* bound on the number of faults

ASSUME GraphStoreAssumption ==
  /\ Clients \cap Patchers = {}
  /\ {"initial", "none", "some", "others"} \cap Clients = {}
  /\ {"free", "left"} \cap (Clients \cup Patchers) = {}
  /\ Faults \subseteq {"stage", "swap", "restore", "read", "crash"}
  /\ MaxFaults \in Nat

VARIABLES
  \* --- file system
  root,       \* the working tree
  staging,    \* the tree being built by the holder of the lock
  backup,     \* the working tree it has moved away
  lock,       \* who made the lock file; "left" by a process that is gone
  \* --- memory of the server
  up,         \* does the server run?
  op,         \* progress of the requests
  snapshot,   \* the state of the node in the runtime
  applies,    \* states of saved graphs that wait to be applied
  \* --- history
  last,       \* the tree that was swapped in last and not rolled back
  rolledBack, \* has a save been rolled back?
  damaged,    \* did a rollback fail, or the server crash in one?
  faults      \* number of faults so far

diskVars == <<root, staging, backup, lock>>
historyVars == <<last, rolledBack, damaged>>
vars == <<diskVars, up, op, snapshot, applies, historyVars, faults>>

Actors == Clients \cup Patchers
Designs == Clients \cup {"initial"}

Tree == [meta : Nat, nodes : Designs \cup {"none", "some", "others"},
         edges : Designs \cup {"none"}, state : SUBSET Patchers]

(* A directory that is not there, or is empty; edges of which any is       *)
(* missing are "none", too.                                                *)
NoTree == [meta |-> 0, nodes |-> "none", edges |-> "none", state |-> {}]
Saved == [meta |-> 1, nodes |-> "initial", edges |-> "initial", state |-> {}]

(* A request that waits for nothing; given is the version it names, 0 if   *)
(* it names none, base the tree it has read, merged the state a patch has  *)
(* come to.                                                                *)
Idle == [at |-> "no", given |-> 0, base |-> NoTree, merged |-> {}]

Stages == {"no", "meta", "nodes", "edges", "lock", "stage", "swap", "place", "back",
           "clear", "clearEdges", "write", "writeEdges", "writeMeta", "finish", "release",
           "answer", "over", "failed"}

Request == [at : Stages, given : Nat, base : Tree, merged : SUBSET Patchers]

(* The stages at which the lock is held, those of a rollback that has      *)
(* begun to rewrite the working tree among them.                           *)
Rewriting == {"clearEdges", "write", "writeEdges", "writeMeta"}
Holding == {"stage", "swap", "place", "back", "clear", "finish", "release"} \cup Rewriting

TypeOK ==
  /\ root \in Tree /\ staging \in Tree /\ backup \in Tree
  /\ lock \in Actors \cup {"free", "left"}
  /\ up \in BOOLEAN
  /\ op \in [Actors -> Request]
  /\ \A a \in Actors : op[a].at \in Holding <=> lock = a
  /\ snapshot \subseteq Patchers
  /\ applies \in Seq([client : Clients, state : SUBSET Patchers])
  /\ last \in Tree
  /\ rolledBack \in BOOLEAN /\ damaged \in BOOLEAN
  /\ faults \in 0..MaxFaults

Init ==
  /\ root = Saved /\ staging = NoTree /\ backup = NoTree
  /\ lock = "free" /\ up = TRUE
  /\ op = [a \in Actors |-> Idle]
  /\ snapshot = {} /\ applies = << >>
  /\ last = root
  /\ rolledBack = FALSE /\ damaged = FALSE /\ faults = 0

Fault(kind) == kind \in Faults /\ faults < MaxFaults /\ faults' = faults + 1
Goto(a, at) == op' = [op EXCEPT ![a].at = at]

-----------------------------------------------------------------------------
(* Requests up to the lock. *)

(* A client names the version it sees, or none. *)
Post(k) ==
  /\ up /\ op[k].at = "no"
  /\ \E v \in {0, root.meta} : op' = [op EXCEPT ![k] = [Idle EXCEPT !.at = "lock", !.given = v]]
  /\ UNCHANGED <<diskVars, up, snapshot, applies, historyVars, faults>>

(* The patch is merged with the state in the runtime. *)
Patch(p) ==
  /\ up /\ op[p].at = "no"
  /\ op' = [op EXCEPT ![p] = [Idle EXCEPT !.at = "meta", !.merged = snapshot \cup {p}]]
  /\ UNCHANGED <<diskVars, up, snapshot, applies, historyVars, faults>>

(* Mutant: the call names no version. *)
ReadMeta_Unversioned(p) ==
  /\ op[p].at = "meta"
  /\ op' = [op EXCEPT ![p].at = IF root.meta = 0 THEN "failed" ELSE "nodes",
                      ![p].base.meta = root.meta]
  /\ UNCHANGED <<diskVars, up, snapshot, applies, historyVars, faults>>

(* FsGraphRepository.upsertNodeState reads the tree without the lock: the  *)
(* meta file, the nodes, the edges.  A directory that is not there has no  *)
(* entries.  The graph without the node is refused by validation, and one  *)
(* without others is if an edge names them.                                *)
ReadMeta(p) ==
  /\ op[p].at = "meta"
  /\ op' = [op EXCEPT ![p].at = IF root.meta = 0 THEN "failed" ELSE "nodes",
                      ![p].given = root.meta, ![p].base.meta = root.meta]
  /\ UNCHANGED <<diskVars, up, snapshot, applies, historyVars, faults>>

ReadNodes(p) ==
  /\ op[p].at = "nodes"
  /\ op' = [op EXCEPT ![p].at = IF root.nodes \in {"none", "others"} THEN "failed" ELSE "edges",
                      ![p].base.nodes = root.nodes]
  /\ UNCHANGED <<diskVars, up, snapshot, applies, historyVars, faults>>

ReadEdges(p) ==
  /\ op[p].at = "edges"
  /\ \/ op' = [op EXCEPT ![p].at = "lock", ![p].base.edges = root.edges]
     \/ op[p].base.nodes = "some" /\ Goto(p, "failed")
  /\ UNCHANGED <<diskVars, up, snapshot, applies, historyVars, faults>>

(* A file that vanishes between the listing and the read fails the call. *)
ReadFails(p) ==
  /\ op[p].at \in {"nodes", "edges"}
  /\ Fault("read")
  /\ Goto(p, "failed")
  /\ UNCHANGED <<diskVars, up, snapshot, applies, historyVars>>

(* Mutant: an older version than the present one will do. *)
TakeLock_NotNewer(a) ==
  /\ op[a].at = "lock" /\ lock = "free"
  /\ IF op[a].given <= root.meta
       THEN /\ lock' = a
            /\ op' = [op EXCEPT ![a].at = "stage",
                                ![a].base = IF a \in Clients THEN root ELSE @]
       ELSE Goto(a, "failed") /\ UNCHANGED lock
  /\ UNCHANGED <<root, staging, backup, up, snapshot, applies, historyVars, faults>>

(* The lock file is made and the tree read again under it; a request that  *)
(* names another version is refused, and gives the lock back.              *)
TakeLock(a) ==
  /\ op[a].at = "lock" /\ lock = "free"
  /\ IF op[a].given \in {0, root.meta}
       THEN /\ lock' = a
            /\ op' = [op EXCEPT ![a].at = "stage",
                                ![a].base = IF a \in Clients THEN root ELSE @]
       ELSE Goto(a, "failed") /\ UNCHANGED lock
  /\ UNCHANGED <<root, staging, backup, up, snapshot, applies, historyVars, faults>>

(* Mutant: the wait ends only while somebody holds the lock. *)
LockTimeout_OnlyHeld(a) ==
  /\ op[a].at = "lock" /\ lock \in Actors
  /\ Goto(a, "failed")
  /\ UNCHANGED <<diskVars, up, snapshot, applies, historyVars, faults>>

LockTimeout(a) ==
  /\ op[a].at = "lock" /\ lock # "free"
  /\ Goto(a, "failed")
  /\ UNCHANGED <<diskVars, up, snapshot, applies, historyVars, faults>>

-----------------------------------------------------------------------------
(* A save, from the staging tree to the release of the lock. *)

(* What is to be saved: a design with the state as it was, or the graph as *)
(* it was read with the merged state.                                      *)
Target(a) ==
  IF a \in Clients
    THEN [op[a].base EXCEPT !.meta = root.meta + 1, !.nodes = a, !.edges = a]
    ELSE [op[a].base EXCEPT !.meta = root.meta + 1, !.state = op[a].merged]

(* Before anything is overwritten the existing tree is kept in memory.     *)
Stage(a) ==
  /\ op[a].at = "stage"
  /\ staging' = Target(a)
  /\ op' = [op EXCEPT ![a].at = "swap", ![a].base = root]
  /\ UNCHANGED <<root, backup, lock, up, snapshot, applies, historyVars, faults>>

StageFails(a) ==
  /\ op[a].at = "stage"
  /\ Fault("stage")
  /\ op' = [op EXCEPT ![a].at = "clear", ![a].base = root]
  /\ rolledBack' = TRUE
  /\ UNCHANGED <<diskVars, up, snapshot, applies, last, damaged>>

MoveAway(a) ==
  /\ op[a].at = "swap"
  /\ backup' = root /\ root' = NoTree
  /\ Goto(a, "place")
  /\ UNCHANGED <<staging, lock, up, snapshot, applies, historyVars, faults>>

MoveAwayFails(a) ==
  /\ op[a].at = "swap"
  /\ Fault("swap")
  /\ staging' = NoTree
  /\ Goto(a, "clear")
  /\ rolledBack' = TRUE
  /\ UNCHANGED <<root, backup, lock, up, snapshot, applies, last, damaged>>

PutInPlace(a) ==
  /\ op[a].at = "place"
  /\ root' = staging /\ staging' = NoTree
  /\ last' = staging
  /\ Goto(a, "finish")
  /\ UNCHANGED <<backup, lock, up, snapshot, applies, rolledBack, damaged, faults>>

PutInPlaceFails(a) ==
  /\ op[a].at = "place"
  /\ Fault("swap")
  /\ Goto(a, "back")
  /\ rolledBack' = TRUE
  /\ UNCHANGED <<diskVars, up, snapshot, applies, last, damaged>>

(* The backup is moved back, or, when that fails too, discarded: the       *)
(* existing tree is still in memory.                                       *)
MoveBack(a) ==
  /\ op[a].at = "back"
  /\ \/ root' = backup /\ UNCHANGED faults
     \/ Fault("swap") /\ UNCHANGED root
  /\ staging' = NoTree /\ backup' = NoTree
  /\ Goto(a, "clear")
  /\ UNCHANGED <<lock, up, snapshot, applies, historyVars>>

(* The backup is discarded and the lock file removed; a client's graph is  *)
(* handed to the runtime.                                                  *)
Finish(a) ==
  /\ op[a].at = "finish"
  /\ backup' = NoTree /\ lock' = "free"
  /\ Goto(a, "answer")
  /\ applies' = IF a \in Clients THEN Append(applies, [client |-> a, state |-> last.state])
                                 ELSE applies
  /\ UNCHANGED <<root, staging, up, snapshot, historyVars, faults>>

(* restoreWorkingTree rewrites the tree in place, file after file.  What   *)
(* the working tree may be with some of the nodes of t.                    *)
SomeNodes(t) ==
  {[root EXCEPT !.nodes = n, !.state = IF n = "some" THEN t.state ELSE {}] :
     n \in IF t.nodes = "none" THEN {}
           ELSE IF t.nodes = "others" THEN {"others"} ELSE {"some", "others"}}

(* Nodes go one by one, and so they come back: the node that is patched,   *)
(* or others, before the rest.                                             *)
ClearSomeNodes(a) ==
  /\ op[a].at = "clear"
  /\ root' \in SomeNodes(root) \ {root}
  /\ UNCHANGED <<staging, backup, lock, up, op, snapshot, applies, historyVars, faults>>

ClearNodes(a) ==
  /\ op[a].at = "clear"
  /\ root' = [root EXCEPT !.nodes = "none", !.state = {}]
  /\ Goto(a, "clearEdges")
  /\ UNCHANGED <<staging, backup, lock, up, snapshot, applies, historyVars, faults>>

ClearEdges(a) ==
  /\ op[a].at = "clearEdges"
  /\ root' = [root EXCEPT !.edges = "none"]
  /\ Goto(a, "write")
  /\ UNCHANGED <<staging, backup, lock, up, snapshot, applies, historyVars, faults>>

WriteSomeNodes(a) ==
  /\ op[a].at = "write" /\ root.nodes # "some"
  /\ root' \in SomeNodes(op[a].base) \ {root}
  /\ UNCHANGED <<staging, backup, lock, up, op, snapshot, applies, historyVars, faults>>

WriteNodes(a) ==
  /\ op[a].at = "write"
  /\ root' = [root EXCEPT !.nodes = op[a].base.nodes, !.state = op[a].base.state]
  /\ Goto(a, "writeEdges")
  /\ UNCHANGED <<staging, backup, lock, up, snapshot, applies, historyVars, faults>>

WriteEdges(a) ==
  /\ op[a].at = "writeEdges"
  /\ root' = [root EXCEPT !.edges = op[a].base.edges]
  /\ Goto(a, "writeMeta")
  /\ UNCHANGED <<staging, backup, lock, up, snapshot, applies, historyVars, faults>>

WriteMeta(a) ==
  /\ op[a].at = "writeMeta"
  /\ root' = [root EXCEPT !.meta = op[a].base.meta]
  /\ Goto(a, "release")
  /\ UNCHANGED <<staging, backup, lock, up, snapshot, applies, historyVars, faults>>

(* An error in it is swallowed. *)
RestoreFails(a) ==
  /\ op[a].at \in Rewriting \cup {"clear"}
  /\ Fault("restore")
  /\ damaged' = TRUE
  /\ Goto(a, "release")
  /\ UNCHANGED <<diskVars, up, snapshot, applies, last, rolledBack>>

(* Mutant: a failed save returns without its finally block. *)
Release_KeepsLock(a) ==
  /\ op[a].at = "release"
  /\ Goto(a, "failed")
  /\ UNCHANGED <<diskVars, up, snapshot, applies, historyVars, faults>>

Release(a) ==
  /\ op[a].at = "release"
  /\ lock' = "free"
  /\ Goto(a, "failed")
  /\ UNCHANGED <<root, staging, backup, up, snapshot, applies, historyVars, faults>>

-----------------------------------------------------------------------------
(* The runtime. *)

(* A saved graph becomes the graph of the runtime, its state the snapshot; *)
(* then its client is answered.                                            *)
Apply ==
  /\ applies # << >>
  /\ snapshot' = Head(applies).state
  /\ applies' = Tail(applies)
  /\ Goto(Head(applies).client, "over")
  /\ UNCHANGED <<diskVars, up, historyVars, faults>>

(* A patch that has been saved is put into the snapshot. *)
NotePatch(p) ==
  /\ op[p].at = "answer"
  /\ snapshot' = op[p].merged
  /\ Goto(p, "over")
  /\ UNCHANGED <<diskVars, up, applies, historyVars, faults>>

-----------------------------------------------------------------------------
(* The process dies; a lock file it had made is left. *)
Crash ==
  /\ up /\ Fault("crash")
  /\ up' = FALSE
  /\ op' = [a \in Actors |-> IF op[a].at \in {"no", "over"} THEN op[a]
                             ELSE [op[a] EXCEPT !.at = "failed"]]
  /\ lock' = IF lock = "free" THEN "free" ELSE "left"
  /\ applies' = << >>
  /\ damaged' = (damaged \/ \E a \in Actors : \/ op[a].at \in Rewriting
                                              \/ op[a].at = "clear" /\ root # op[a].base)
  /\ UNCHANGED <<root, staging, backup, snapshot, last, rolledBack>>

(* Mutant: backups are orphans like the rest. *)
Recovered_Discarded == root

(* initIfNeeded: a backup is moved back if there is no working tree, the   *)
(* directories left over are discarded, and the graph is loaded.           *)
Recovered == IF root = NoTree THEN backup ELSE root

Restart ==
  /\ ~up
  /\ up' = TRUE
  /\ root' = Recovered
  /\ staging' = NoTree /\ backup' = NoTree
  /\ snapshot' = Recovered.state
  /\ UNCHANGED <<lock, op, applies, historyVars, faults>>

-----------------------------------------------------------------------------
ReadStep(p) == ReadMeta(p) \/ ReadNodes(p) \/ ReadEdges(p) \/ ReadFails(p)

SaveStep(a) ==
  \/ Stage(a) \/ StageFails(a)
  \/ MoveAway(a) \/ MoveAwayFails(a)
  \/ PutInPlace(a) \/ PutInPlaceFails(a)
  \/ MoveBack(a)
  \/ Finish(a)

RestoreStep(a) ==
  \/ ClearSomeNodes(a) \/ ClearNodes(a) \/ ClearEdges(a)
  \/ WriteSomeNodes(a) \/ WriteNodes(a) \/ WriteEdges(a) \/ WriteMeta(a)
  \/ RestoreFails(a)
  \/ Release(a)

Next ==
  \/ \E k \in Clients : Post(k)
  \/ \E p \in Patchers : Patch(p) \/ ReadStep(p) \/ NotePatch(p)
  \/ \E a \in Actors : TakeLock(a) \/ LockTimeout(a) \/ SaveStep(a) \/ RestoreStep(a)
  \/ Apply
  \/ Crash \/ Restart

Spec == Init /\ [][Next]_vars

(* What the server has begun goes on; a server that died is started again. *)
FairSpec ==
  /\ Spec
  /\ \A p \in Patchers : WF_vars(ReadStep(p)) /\ WF_vars(NotePatch(p))
  /\ \A a \in Actors : /\ WF_vars(TakeLock(a) \/ LockTimeout(a))
                       /\ WF_vars(SaveStep(a)) /\ WF_vars(RestoreStep(a))
  /\ WF_vars(Apply) /\ WF_vars(Restart)

-----------------------------------------------------------------------------
(* Between saves the working tree is the one saved last, whole: no save    *)
(* that failed, and no crash at any point of one, loses or mixes graphs    *)
(* (FsGraphRepository.upsert, swapWorkingTree, cleanupSwapArtifacts).      *)
(* Only a second failure during a rollback may.                            *)
SavedSurvives == up /\ lock \in {"free", "left"} /\ ~damaged => root = last

(* A saved graph has the edges of its nodes, although a patch reads the    *)
(* graph file by file and without the lock (upsertNodeState): the version  *)
(* it names refuses what was mixed, unless a save was rolled back to it.   *)
SavedGraphsWhole == ~rolledBack => last.nodes = last.edges

(* A save follows the one before it by one version.  A request that names  *)
(* a version replaces that one and no other; a patch leaves the nodes as   *)
(* they are (FsGraphRepository.upsert, VERSION_CONFLICT), unless it has    *)
(* read them, without the lock, while a rollback was writing them back:    *)
(* then it may save a part of them.                                        *)
SaveFollows ==
  [][last' # last /\ ~damaged =>
       /\ last'.meta = last.meta + 1
       /\ \E a \in Actors :
            /\ op[a].at = "place" /\ op'[a].at = "finish"
            /\ op[a].given \in {0, last.meta}
            /\ a \in Patchers => \/ last'.nodes = last.nodes
                                 \/ rolledBack /\ last'.nodes = "some"]_vars

(* Every request is answered, or fails, whoever holds or left the lock     *)
(* (acquireLock).                                                          *)
RequestsEnd ==
  \A a \in Actors : op[a].at \notin {"no", "over", "failed"} ~> op[a].at \in {"over", "failed"}
=============================================================================
