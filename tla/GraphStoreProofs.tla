-------------------------- MODULE GraphStoreProofs --------------------------
(***************************************************************************)
(* Proofs about GraphStore: what is saved survives and is whole, for any   *)
(* clients and patches, and any number of faults.                          *)
(***************************************************************************)
EXTENDS GraphStore, TLAPS

(* What a save that is under way has done to the tree.                     *)
Saving(a) ==
  LET at == op[a].at IN
  /\ at \in {"stage", "swap", "finish", "release"} => root = last
  /\ at \in {"place", "back"} => root = NoTree /\ backup = last
  /\ at \in {"swap", "place", "back", "clear"} \cup Rewriting => op[a].base = last
  /\ at \in {"writeEdges", "writeMeta"} => root.nodes = last.nodes /\ root.state = last.state
  /\ at = "writeMeta" => root.edges = last.edges

(* All of the nodes saved last or, once a rollback has rewritten them, a   *)
(* part that has the node that is patched.                                 *)
Patchable(nodes) == nodes = last.nodes \/ (rolledBack /\ nodes = "some")

(* What it will put in the place of the tree.                              *)
Staged(a) ==
  op[a].at \in {"swap", "place"} =>
    /\ staging.meta = last.meta + 1
    /\ op[a].given \in {0, last.meta}
    /\ a \in Patchers => Patchable(staging.nodes)
    /\ ~rolledBack => staging.nodes = staging.edges

(* A patch that names the version of the tree has its nodes, or, once a    *)
(* save was rolled back, a part of them, and its edges unless it has found *)
(* them moved away by a save that is not over.                             *)
Reading(p) ==
  LET at == op[p].at IN
  /\ at \in {"nodes", "edges", "lock", "stage"} => op[p].given > 0 /\ op[p].given <= last.meta
  /\ at = "stage" => op[p].given = last.meta
  /\ at \in {"edges", "lock", "stage"} /\ op[p].given = last.meta =>
       Patchable(op[p].base.nodes)
  /\ at = "lock" /\ op[p].given = last.meta /\ ~rolledBack =>
       op[p].base.edges = last.edges \/ \E b \in Actors : op[b].at = "place"
  /\ at = "stage" /\ ~rolledBack => op[p].base.edges = last.edges

(* A client's request names the version it has seen, if any.               *)
Naming(k) == op[k].at = "stage" => op[k].given \in {0, last.meta}

(* The nodes of the working tree: those saved last, none while the tree is *)
(* moved away or emptied, or a part of them in a rollback.                 *)
NodesInPlace ==
  root.nodes \in {"none", last.nodes} \/ (rolledBack /\ root.nodes \in {"some", "others"})

Tidy ==
  /\ last.meta > 0 /\ root.meta \in {0, last.meta}
  /\ NodesInPlace
  /\ up /\ lock \in {"free", "left"} => root = last
  /\ ~up => root = last \/ (root = NoTree /\ backup = last)
  /\ \A a \in Actors : Saving(a) /\ Staged(a)
  /\ \A p \in Patchers : Reading(p)
  /\ \A k \in Clients : Naming(k)

Undamaged == ~damaged => Tidy

(* Requests whose graph waits to be applied wait for that.                 *)
Waiting ==
  /\ \A i \in DOMAIN applies : op[applies[i].client].at = "answer"
  /\ \A i, j \in DOMAIN applies : applies[i].client = applies[j].client => i = j

(* Nothing is under way while the server is down.                          *)
Down == ~up => (applies = << >> /\ \A a \in Actors : op[a].at \in {"no", "over", "failed"})

RollsBack ==
  /\ damaged => rolledBack
  /\ \A a \in Actors : op[a].at \in {"back", "clear"} \cup Rewriting => rolledBack

IInv ==
  /\ TypeOK
  /\ Waiting /\ Down /\ RollsBack /\ SavedGraphsWhole
  /\ Undamaged

-----------------------------------------------------------------------------
(* How a step moves one request.                                           *)

Others(a) == \A b \in Actors \ {a} : op'[b] = op[b]

Moves(a, at) ==
  /\ op'[a].at = at /\ op'[a].given = op[a].given
  /\ op'[a].base = op[a].base /\ op'[a].merged = op[a].merged

(* What a request becomes is all that changes of the requests.             *)
LEMMA Becomes ==
  ASSUME op \in [Actors -> Request], NEW a \in Actors, NEW r \in Request,
         op' = [op EXCEPT ![a] = r]
  PROVE  op' \in [Actors -> Request] /\ op'[a] = r /\ Others(a)
  BY DEF Others

(* A step of a request that changes nothing else of it.                    *)
LEMMA GotoMoves ==
  ASSUME TypeOK, NEW a \in Actors, NEW at \in Stages, Goto(a, at)
  PROVE  op' \in [Actors -> Request] /\ Moves(a, at) /\ Others(a)
<1>1. op[a] \in Request
  BY DEF TypeOK
<1>2. [op[a] EXCEPT !.at = at] \in Request
  BY <1>1 DEF Request
<1>3. op' = [op EXCEPT ![a] = [op[a] EXCEPT !.at = at]]
  BY DEF Goto
<1>4. op' \in [Actors -> Request] /\ op'[a] = [op[a] EXCEPT !.at = at] /\ Others(a)
  BY <1>2, <1>3, Becomes DEF TypeOK
<1>. QED BY <1>1, <1>4 DEF Moves, Request

(* The request at a stage of a save, and no other, holds the lock.         *)
LockHeld(l, o) == \A b \in Actors : o[b].at \in Holding <=> l = b

(* ... and keeps the lock with who holds it, or gives it back.            *)
LEMMA MoveTyped ==
  ASSUME TypeOK, NEW a \in Actors, NEW at \in Stages, Goto(a, at),
         \/ at \in Holding /\ op[a].at \in Holding /\ lock' = lock
         \/ at \notin Holding /\ op[a].at \notin Holding /\ lock' = lock
         \/ at \notin Holding /\ op[a].at \in Holding /\ lock' = "free"
  PROVE  op' \in [Actors -> Request] /\ Moves(a, at) /\ Others(a) /\ LockHeld(lock', op')
<1>1. op' \in [Actors -> Request] /\ Moves(a, at) /\ Others(a)
  BY GotoMoves
<1>2. \A b \in Actors : op[b].at \in Holding <=> lock = b
  BY DEF TypeOK
<1>3. "free" \notin Actors
  BY GraphStoreAssumption DEF Actors
<1>. QED BY <1>1, <1>2, <1>3 DEF LockHeld, Moves, Others

(* A directory that is not there is a tree.                               *)
LEMMA EmptyTree == NoTree \in Tree
  BY DEF NoTree, Tree, Designs

(* A read that fails ends the call.                                        *)
LEMMA ReadFailsEffect ==
  ASSUME TypeOK, NEW p \in Patchers, ReadFails(p)
  PROVE  TypeOK' /\ Moves(p, "failed") /\ Others(p)
<1>1. p \in Actors /\ "failed" \in Stages /\ Goto(p, "failed")
  BY DEF ReadFails, Stages, Actors
<1>2. op' \in [Actors -> Request] /\ Moves(p, "failed") /\ Others(p) /\ LockHeld(lock', op')
  BY <1>1, MoveTyped DEF ReadFails, Holding, Rewriting, diskVars
<1>3. faults' \in 0..MaxFaults
  BY GraphStoreAssumption DEF ReadFails, Fault, TypeOK
<1>. QED BY <1>1, <1>2, <1>3
       DEF ReadFails, LockHeld, TypeOK, diskVars, historyVars

(* A patch that was saved is noted.                                        *)
LEMMA NotePatchEffect ==
  ASSUME TypeOK, NEW p \in Patchers, NotePatch(p)
  PROVE  TypeOK' /\ Moves(p, "over") /\ Others(p)
<1>1. p \in Actors /\ "over" \in Stages /\ Goto(p, "over")
  BY DEF NotePatch, Stages, Actors
<1>2. op' \in [Actors -> Request] /\ Moves(p, "over") /\ Others(p) /\ LockHeld(lock', op')
  BY <1>1, MoveTyped DEF NotePatch, Holding, Rewriting, diskVars
<1>3. op[p].merged \subseteq Patchers
  BY <1>1 DEF TypeOK, Request
<1>. QED BY <1>1, <1>2, <1>3
       DEF NotePatch, LockHeld, TypeOK, diskVars, historyVars

(* The wait for the lock ends the call.                                    *)
LEMMA LockTimeoutEffect ==
  ASSUME TypeOK, NEW a \in Actors, LockTimeout(a)
  PROVE  TypeOK' /\ Moves(a, "failed") /\ Others(a)
<1>1. a \in Actors /\ "failed" \in Stages /\ Goto(a, "failed")
  BY DEF LockTimeout, Stages
<1>2. op' \in [Actors -> Request] /\ Moves(a, "failed") /\ Others(a) /\ LockHeld(lock', op')
  BY <1>1, MoveTyped DEF LockTimeout, Holding, Rewriting, diskVars
<1>. QED BY <1>1, <1>2
       DEF LockTimeout, LockHeld, TypeOK, diskVars, historyVars

(* The tree is moved away.                                                 *)
LEMMA MoveAwayEffect ==
  ASSUME TypeOK, NEW a \in Actors, MoveAway(a)
  PROVE  TypeOK' /\ Moves(a, "place") /\ Others(a)
<1>1. a \in Actors /\ "place" \in Stages /\ Goto(a, "place")
  BY DEF MoveAway, Stages
<1>2. op' \in [Actors -> Request] /\ Moves(a, "place") /\ Others(a) /\ LockHeld(lock', op')
  BY <1>1, MoveTyped DEF MoveAway, Holding, Rewriting, diskVars
<1>3. NoTree \in Tree
  BY EmptyTree
<1>. QED BY <1>1, <1>2, <1>3
       DEF MoveAway, LockHeld, TypeOK, diskVars, historyVars

(* Or it cannot be.                                                        *)
LEMMA MoveAwayFailsEffect ==
  ASSUME TypeOK, NEW a \in Actors, MoveAwayFails(a)
  PROVE  TypeOK' /\ Moves(a, "clear") /\ Others(a)
<1>1. a \in Actors /\ "clear" \in Stages /\ Goto(a, "clear")
  BY DEF MoveAwayFails, Stages
<1>2. op' \in [Actors -> Request] /\ Moves(a, "clear") /\ Others(a) /\ LockHeld(lock', op')
  BY <1>1, MoveTyped DEF MoveAwayFails, Holding, Rewriting, diskVars
<1>3. NoTree \in Tree
  BY EmptyTree
<1>4. faults' \in 0..MaxFaults
  BY GraphStoreAssumption DEF MoveAwayFails, Fault, TypeOK
<1>. QED BY <1>1, <1>2, <1>3, <1>4
       DEF MoveAwayFails, LockHeld, TypeOK, diskVars, historyVars

(* The new tree is put in its place.                                       *)
LEMMA PutInPlaceEffect ==
  ASSUME TypeOK, NEW a \in Actors, PutInPlace(a)
  PROVE  TypeOK' /\ Moves(a, "finish") /\ Others(a)
<1>1. a \in Actors /\ "finish" \in Stages /\ Goto(a, "finish")
  BY DEF PutInPlace, Stages
<1>2. op' \in [Actors -> Request] /\ Moves(a, "finish") /\ Others(a) /\ LockHeld(lock', op')
  BY <1>1, MoveTyped DEF PutInPlace, Holding, Rewriting, diskVars
<1>3. NoTree \in Tree
  BY EmptyTree
<1>. QED BY <1>1, <1>2, <1>3
       DEF PutInPlace, LockHeld, TypeOK, diskVars, historyVars

(* Or it cannot be.                                                        *)
LEMMA PutInPlaceFailsEffect ==
  ASSUME TypeOK, NEW a \in Actors, PutInPlaceFails(a)
  PROVE  TypeOK' /\ Moves(a, "back") /\ Others(a)
<1>1. a \in Actors /\ "back" \in Stages /\ Goto(a, "back")
  BY DEF PutInPlaceFails, Stages
<1>2. op' \in [Actors -> Request] /\ Moves(a, "back") /\ Others(a) /\ LockHeld(lock', op')
  BY <1>1, MoveTyped DEF PutInPlaceFails, Holding, Rewriting, diskVars
<1>3. faults' \in 0..MaxFaults
  BY GraphStoreAssumption DEF PutInPlaceFails, Fault, TypeOK
<1>. QED BY <1>1, <1>2, <1>3
       DEF PutInPlaceFails, LockHeld, TypeOK, diskVars, historyVars

(* The tree that was moved away is moved back, or cannot be.               *)
LEMMA MoveBackEffect ==
  ASSUME TypeOK, NEW a \in Actors, MoveBack(a)
  PROVE  TypeOK' /\ Moves(a, "clear") /\ Others(a)
<1>1. a \in Actors /\ "clear" \in Stages /\ Goto(a, "clear")
  BY DEF MoveBack, Stages
<1>2. op' \in [Actors -> Request] /\ Moves(a, "clear") /\ Others(a) /\ LockHeld(lock', op')
  BY <1>1, MoveTyped DEF MoveBack, Holding, Rewriting, diskVars
<1>3. NoTree \in Tree
  BY EmptyTree
<1>4. faults' \in 0..MaxFaults
  BY GraphStoreAssumption DEF MoveBack, Fault, TypeOK
<1>. QED BY <1>1, <1>2, <1>3, <1>4
       DEF MoveBack, LockHeld, TypeOK, diskVars, historyVars

(* A save is finished.                                                     *)
LEMMA FinishEffect ==
  ASSUME TypeOK, NEW a \in Actors, Finish(a)
  PROVE  TypeOK' /\ Moves(a, "answer") /\ Others(a)
<1> DEFINE Entry == [client : Clients, state : SUBSET Patchers]
<1>1. "answer" \in Stages /\ Goto(a, "answer")
  BY DEF Finish, Stages
<1>2. op' \in [Actors -> Request] /\ Moves(a, "answer") /\ Others(a) /\ LockHeld(lock', op')
  BY <1>1, MoveTyped DEF Finish, Holding, Rewriting
<1>3. applies \in Seq(Entry) /\ (a \in Clients => [client |-> a, state |-> last.state] \in Entry)
  BY DEF TypeOK, Tree
<1>4. applies' \in Seq(Entry)
  <2> HIDE DEF Entry
  <2>. QED BY <1>3 DEF Finish
<1>5. NoTree \in Tree
  BY EmptyTree
<1>. QED BY <1>2, <1>4, <1>5 DEF Finish, LockHeld, TypeOK, historyVars

(* The tree is emptied for the rollback: its nodes.                        *)
LEMMA ClearNodesEffect ==
  ASSUME TypeOK, NEW a \in Actors, ClearNodes(a)
  PROVE  TypeOK' /\ Moves(a, "clearEdges") /\ Others(a)
<1>1. a \in Actors /\ "clearEdges" \in Stages /\ Goto(a, "clearEdges")
  BY DEF ClearNodes, Stages
<1>2. op' \in [Actors -> Request] /\ Moves(a, "clearEdges") /\ Others(a) /\ LockHeld(lock', op')
  BY <1>1, MoveTyped DEF ClearNodes, Holding, Rewriting, diskVars
<1>3. [root EXCEPT !.nodes = "none", !.state = {}] \in Tree
  BY DEF TypeOK, Tree, Designs
<1>. QED BY <1>1, <1>2, <1>3
       DEF ClearNodes, LockHeld, TypeOK, diskVars, historyVars

(* The tree is emptied for the rollback: its edges.                        *)
LEMMA ClearEdgesEffect ==
  ASSUME TypeOK, NEW a \in Actors, ClearEdges(a)
  PROVE  TypeOK' /\ Moves(a, "write") /\ Others(a)
<1>1. a \in Actors /\ "write" \in Stages /\ Goto(a, "write")
  BY DEF ClearEdges, Stages
<1>2. op' \in [Actors -> Request] /\ Moves(a, "write") /\ Others(a) /\ LockHeld(lock', op')
  BY <1>1, MoveTyped DEF ClearEdges, Holding, Rewriting, diskVars
<1>3. [root EXCEPT !.edges = "none"] \in Tree
  BY DEF TypeOK, Tree, Designs
<1>. QED BY <1>1, <1>2, <1>3
       DEF ClearEdges, LockHeld, TypeOK, diskVars, historyVars

(* Some of its nodes are removed, or written again.                        *)
LEMMA SomeNodesEffect ==
  ASSUME TypeOK, NEW a \in Actors, ClearSomeNodes(a) \/ WriteSomeNodes(a)
  PROVE  /\ TypeOK' /\ op' = op /\ Others(a)
         /\ root'.meta = root.meta /\ root'.nodes \in {"some", "others"}
<1>1. PICK t \in Tree : root' \in SomeNodes(t)
  BY DEF ClearSomeNodes, WriteSomeNodes, TypeOK, Request
<1>2. PICK n \in {"some", "others"} :
        root' = [root EXCEPT !.nodes = n, !.state = IF n = "some" THEN t.state ELSE {}]
  BY <1>1 DEF SomeNodes
<1>3. root' \in Tree /\ root'.meta = root.meta /\ root'.nodes = n
  BY <1>2 DEF TypeOK, Tree
<1>4. /\ op' = op
      /\ UNCHANGED <<staging, backup, lock, up, snapshot, applies, historyVars, faults>>
  BY DEF ClearSomeNodes, WriteSomeNodes
<1>. QED BY <1>3, <1>4 DEF Others, TypeOK, historyVars

(* And written again: nodes.                                               *)
LEMMA WriteNodesEffect ==
  ASSUME TypeOK, NEW a \in Actors, WriteNodes(a)
  PROVE  TypeOK' /\ Moves(a, "writeEdges") /\ Others(a)
<1>1. a \in Actors /\ "writeEdges" \in Stages /\ Goto(a, "writeEdges")
  BY DEF WriteNodes, Stages
<1>2. op' \in [Actors -> Request] /\ Moves(a, "writeEdges") /\ Others(a) /\ LockHeld(lock', op')
  BY <1>1, MoveTyped DEF WriteNodes, Holding, Rewriting, diskVars
<1>3. op[a].base \in Tree
  BY DEF TypeOK, Request
<1>4. [root EXCEPT !.nodes = op[a].base.nodes, !.state = op[a].base.state] \in Tree
  BY <1>3 DEF TypeOK, Tree
<1>. QED BY <1>1, <1>2, <1>3, <1>4
       DEF WriteNodes, LockHeld, TypeOK, diskVars, historyVars

(* And written again: edges.                                               *)
LEMMA WriteEdgesEffect ==
  ASSUME TypeOK, NEW a \in Actors, WriteEdges(a)
  PROVE  TypeOK' /\ Moves(a, "writeMeta") /\ Others(a)
<1>1. a \in Actors /\ "writeMeta" \in Stages /\ Goto(a, "writeMeta")
  BY DEF WriteEdges, Stages
<1>2. op' \in [Actors -> Request] /\ Moves(a, "writeMeta") /\ Others(a) /\ LockHeld(lock', op')
  BY <1>1, MoveTyped DEF WriteEdges, Holding, Rewriting, diskVars
<1>3. op[a].base \in Tree
  BY DEF TypeOK, Request
<1>4. [root EXCEPT !.edges = op[a].base.edges] \in Tree
  BY <1>3 DEF TypeOK, Tree
<1>. QED BY <1>1, <1>2, <1>3, <1>4
       DEF WriteEdges, LockHeld, TypeOK, diskVars, historyVars

(* And written again: meta file.                                           *)
LEMMA WriteMetaEffect ==
  ASSUME TypeOK, NEW a \in Actors, WriteMeta(a)
  PROVE  TypeOK' /\ Moves(a, "release") /\ Others(a)
<1>1. a \in Actors /\ "release" \in Stages /\ Goto(a, "release")
  BY DEF WriteMeta, Stages
<1>2. op' \in [Actors -> Request] /\ Moves(a, "release") /\ Others(a) /\ LockHeld(lock', op')
  BY <1>1, MoveTyped DEF WriteMeta, Holding, Rewriting, diskVars
<1>3. op[a].base \in Tree
  BY DEF TypeOK, Request
<1>4. [root EXCEPT !.meta = op[a].base.meta] \in Tree
  BY <1>3 DEF TypeOK, Tree
<1>. QED BY <1>1, <1>2, <1>3, <1>4
       DEF WriteMeta, LockHeld, TypeOK, diskVars, historyVars

(* The rollback fails.                                                     *)
LEMMA RestoreFailsEffect ==
  ASSUME TypeOK, NEW a \in Actors, RestoreFails(a)
  PROVE  TypeOK' /\ Moves(a, "release") /\ Others(a)
<1>1. a \in Actors /\ "release" \in Stages /\ Goto(a, "release")
  BY DEF RestoreFails, Stages
<1>2. op' \in [Actors -> Request] /\ Moves(a, "release") /\ Others(a) /\ LockHeld(lock', op')
  BY <1>1, MoveTyped DEF RestoreFails, Holding, Rewriting, diskVars
<1>3. faults' \in 0..MaxFaults
  BY GraphStoreAssumption DEF RestoreFails, Fault, TypeOK
<1>. QED BY <1>1, <1>2, <1>3
       DEF RestoreFails, LockHeld, TypeOK, diskVars, historyVars

(* The lock is given back.                                                 *)
LEMMA ReleaseEffect ==
  ASSUME TypeOK, NEW a \in Actors, Release(a)
  PROVE  TypeOK' /\ Moves(a, "failed") /\ Others(a)
<1>1. a \in Actors /\ "failed" \in Stages /\ Goto(a, "failed")
  BY DEF Release, Stages
<1>2. op' \in [Actors -> Request] /\ Moves(a, "failed") /\ Others(a) /\ LockHeld(lock', op')
  BY <1>1, MoveTyped DEF Release, Holding, Rewriting, diskVars
<1>. QED BY <1>1, <1>2
       DEF Release, LockHeld, TypeOK, diskVars, historyVars

(* A client posts a design.                                                *)
LEMMA PostEffect ==
  ASSUME TypeOK, NEW k \in Clients, Post(k)
  PROVE  TypeOK' /\ op'[k].at = "lock" /\ Others(k)
<1>1. PICK v \in {0, root.meta} :
        op' = [op EXCEPT ![k] = [Idle EXCEPT !.at = "lock", !.given = v]]
  BY DEF Post
<1>2. k \in Actors /\ v \in Nat
  BY DEF Actors, TypeOK, Tree
<1>3. [Idle EXCEPT !.at = "lock", !.given = v] \in Request
  BY <1>2, EmptyTree DEF Idle, Request, Stages
<1>4. op' \in [Actors -> Request] /\ Others(k)
      /\ op'[k] = [Idle EXCEPT !.at = "lock", !.given = v]
  BY <1>1, <1>2, <1>3, Becomes DEF TypeOK
<1>5. op'[k].at = "lock"
  BY <1>4 DEF Idle
<1>6. LockHeld(lock', op')
  BY <1>2, <1>4, <1>5 DEF LockHeld, Others, Post, TypeOK, Holding, Rewriting, diskVars
<1>. QED BY <1>4, <1>5, <1>6 DEF LockHeld, Post, TypeOK, diskVars, historyVars

(* The state of a node is patched.                                         *)
LEMMA PatchEffect ==
  ASSUME TypeOK, NEW p \in Patchers, Patch(p)
  PROVE  TypeOK' /\ op'[p].at = "meta" /\ Others(p)
<1> DEFINE r == [Idle EXCEPT !.at = "meta", !.merged = snapshot \cup {p}]
<1>1. p \in Actors /\ op' = [op EXCEPT ![p] = r]
  BY DEF Patch, Actors
<1>2. r \in Request /\ r.at = "meta"
  BY EmptyTree DEF Idle, Request, Stages, TypeOK
<1>3. op' \in [Actors -> Request] /\ Others(p) /\ op'[p] = r
  BY <1>1, <1>2, Becomes DEF TypeOK
<1>4. LockHeld(lock', op')
  BY <1>1, <1>2, <1>3 DEF LockHeld, Others, Patch, TypeOK, Holding, Rewriting, diskVars
<1>. QED BY <1>2, <1>3, <1>4 DEF LockHeld, Patch, TypeOK, diskVars, historyVars

(* A patch reads the version, ...                                          *)
LEMMA ReadMetaEffect ==
  ASSUME TypeOK, NEW p \in Patchers, ReadMeta(p)
  PROVE  /\ TypeOK' /\ Others(p)
         /\ op'[p].at = IF root.meta = 0 THEN "failed" ELSE "nodes"
         /\ op'[p].given = root.meta
<1> DEFINE r == [op[p] EXCEPT !.at = IF root.meta = 0 THEN "failed" ELSE "nodes",
                              !.given = root.meta, !.base.meta = root.meta]
<1>1. p \in Actors /\ op' = [op EXCEPT ![p] = r]
  BY DEF ReadMeta, Actors
<1>2. op[p] \in Request
  BY <1>1 DEF TypeOK
<1>3. /\ r \in Request /\ r.given = root.meta
      /\ r.at = IF root.meta = 0 THEN "failed" ELSE "nodes"
  BY <1>2 DEF TypeOK, Request, Stages, Tree
<1>4. op' \in [Actors -> Request] /\ Others(p) /\ op'[p] = r
  BY <1>1, <1>3, Becomes DEF TypeOK
<1>5. LockHeld(lock', op')
  BY <1>1, <1>3, <1>4 DEF LockHeld, Others, ReadMeta, TypeOK, Holding, Rewriting, diskVars
<1>. QED BY <1>3, <1>4, <1>5 DEF LockHeld, ReadMeta, TypeOK, diskVars, historyVars

(* ... the nodes ...                                                       *)
LEMMA ReadNodesEffect ==
  ASSUME TypeOK, NEW p \in Patchers, ReadNodes(p)
  PROVE  /\ TypeOK' /\ Others(p)
         /\ op'[p].at = IF root.nodes \in {"none", "others"} THEN "failed" ELSE "edges"
         /\ op'[p].given = op[p].given /\ op'[p].base.nodes = root.nodes
<1> DEFINE r == [op[p] EXCEPT !.at = IF root.nodes \in {"none", "others"} THEN "failed"
                                     ELSE "edges",
                              !.base.nodes = root.nodes]
<1>1. p \in Actors /\ op' = [op EXCEPT ![p] = r]
  BY DEF ReadNodes, Actors
<1>2. op[p] \in Request
  BY <1>1 DEF TypeOK
<1>3. /\ r \in Request /\ r.given = op[p].given /\ r.base.nodes = root.nodes
      /\ r.at = IF root.nodes \in {"none", "others"} THEN "failed" ELSE "edges"
  BY <1>2 DEF TypeOK, Request, Stages, Tree
<1>4. op' \in [Actors -> Request] /\ Others(p) /\ op'[p] = r
  BY <1>1, <1>3, Becomes DEF TypeOK
<1>5. LockHeld(lock', op')
  BY <1>1, <1>3, <1>4 DEF LockHeld, Others, ReadNodes, TypeOK, Holding, Rewriting, diskVars
<1>. QED BY <1>3, <1>4, <1>5 DEF LockHeld, ReadNodes, TypeOK, diskVars, historyVars

(* ... and the edges.                                                      *)
LEMMA ReadEdgesEffect ==
  ASSUME TypeOK, NEW p \in Patchers, ReadEdges(p)
  PROVE  /\ TypeOK' /\ Others(p)
         /\ \/ Moves(p, "failed")
            \/ /\ op'[p].at = "lock" /\ op'[p].given = op[p].given
               /\ op'[p].base.nodes = op[p].base.nodes /\ op'[p].base.edges = root.edges
<1> DEFINE r == [op[p] EXCEPT !.at = "lock", !.base.edges = root.edges]
<1>1. p \in Actors /\ op[p].at = "edges"
      /\ UNCHANGED <<diskVars, up, snapshot, applies, historyVars, faults>>
  BY DEF ReadEdges, Actors
<1>2. op[p] \in Request
  BY <1>1 DEF TypeOK
<1>3. CASE op' = [op EXCEPT ![p] = r]
  <2>1. /\ r \in Request /\ r.given = op[p].given /\ r.base.edges = root.edges
        /\ r.at = "lock" /\ r.base.nodes = op[p].base.nodes
    BY <1>2 DEF TypeOK, Request, Stages, Tree
  <2>2. op' \in [Actors -> Request] /\ Others(p) /\ op'[p] = r
    BY <1>1, <1>3, <2>1, Becomes DEF TypeOK
  <2>3. LockHeld(lock', op')
    BY <1>1, <2>1, <2>2 DEF LockHeld, Others, TypeOK, Holding, Rewriting, diskVars
  <2>. QED BY <1>1, <2>1, <2>2, <2>3 DEF LockHeld, TypeOK, diskVars, historyVars
<1>4. CASE Goto(p, "failed")
  <2>1. op' \in [Actors -> Request] /\ Moves(p, "failed") /\ Others(p) /\ LockHeld(lock', op')
    BY <1>1, <1>4, MoveTyped DEF Stages, Holding, Rewriting, diskVars
  <2>. QED BY <1>1, <2>1 DEF LockHeld, TypeOK, diskVars, historyVars
<1>. QED BY <1>3, <1>4 DEF ReadEdges

(* The lock is taken, or the version refused.                              *)
LEMMA TakeLockEffect ==
  ASSUME TypeOK, NEW a \in Actors, TakeLock(a)
  PROVE  /\ TypeOK' /\ Others(a) /\ op'[a].given = op[a].given
         /\ \/ op'[a].at = "failed"
            \/ /\ op'[a].at = "stage" /\ op[a].given \in {0, root.meta}
               /\ a \in Patchers => op'[a].base = op[a].base
<1>1. op[a] \in Request
  BY DEF TypeOK
<1>2. CASE op[a].given \in {0, root.meta}
  <2> DEFINE r == [op[a] EXCEPT !.at = "stage",
                                !.base = IF a \in Clients THEN root ELSE op[a].base]
  <2>1. op' = [op EXCEPT ![a] = r] /\ lock' = a
    BY <1>2 DEF TakeLock
  <2>2. /\ r \in Request /\ r.at = "stage" /\ r.given = op[a].given
        /\ a \in Patchers => r.base = op[a].base
    BY <1>1, GraphStoreAssumption DEF TypeOK, Request, Stages
  <2>3. op' \in [Actors -> Request] /\ Others(a) /\ op'[a] = r
    BY <2>1, <2>2, Becomes DEF TypeOK
  <2>4. LockHeld(lock', op')
    BY <2>1, <2>2, <2>3, GraphStoreAssumption
       DEF LockHeld, Others, TakeLock, TypeOK, Holding, Actors
  <2>. QED BY <1>2, <2>1, <2>2, <2>3, <2>4 DEF TakeLock, LockHeld, TypeOK, historyVars
<1>3. CASE op[a].given \notin {0, root.meta}
  <2>1. Goto(a, "failed") /\ "failed" \in Stages /\ lock' = lock
    BY <1>3 DEF TakeLock, Stages
  <2>2. op' \in [Actors -> Request] /\ Moves(a, "failed") /\ Others(a) /\ LockHeld(lock', op')
    BY <2>1, MoveTyped DEF TakeLock, Holding, Rewriting
  <2>. QED BY <2>1, <2>2 DEF TakeLock, LockHeld, Moves, TypeOK, historyVars
<1>. QED BY <1>2, <1>3

(* The new tree is staged, ...                                             *)
LEMMA StageEffect ==
  ASSUME TypeOK, NEW a \in Actors, Stage(a)
  PROVE  /\ TypeOK' /\ Others(a)
         /\ op'[a].at = "swap" /\ op'[a].given = op[a].given /\ op'[a].base = root
<1> DEFINE r == [op[a] EXCEPT !.at = "swap", !.base = root]
<1>1. op' = [op EXCEPT ![a] = r]
  BY DEF Stage
<1>2. op[a] \in Request
  BY DEF TypeOK
<1>3. /\ r \in Request /\ r.at = "swap" /\ r.given = op[a].given /\ r.base = root
  BY <1>2 DEF TypeOK, Request, Stages
<1>4. op' \in [Actors -> Request] /\ Others(a) /\ op'[a] = r
  BY <1>1, <1>3, Becomes DEF TypeOK
<1>5. LockHeld(lock', op')
  BY <1>3, <1>4 DEF LockHeld, Others, Stage, TypeOK, Holding
<1>6. op[a].base \in Tree /\ root.meta + 1 \in Nat /\ op[a].merged \subseteq Patchers
  BY <1>2 DEF TypeOK, Request, Tree
<1>7. Target(a) \in Tree
  <2>1. CASE a \in Clients
    BY <1>6, <2>1 DEF Target, Tree, Designs
  <2>2. CASE a \notin Clients
    BY <1>6, <2>2 DEF Target, Tree
  <2>. QED BY <2>1, <2>2
<1>. QED BY <1>3, <1>4, <1>5, <1>7 DEF Stage, LockHeld, TypeOK, historyVars

(* ... or cannot be.                                                       *)
LEMMA StageFailsEffect ==
  ASSUME TypeOK, NEW a \in Actors, StageFails(a)
  PROVE  /\ TypeOK' /\ Others(a)
         /\ op'[a].at = "clear" /\ op'[a].base = root
<1> DEFINE r == [op[a] EXCEPT !.at = "clear", !.base = root]
<1>1. op' = [op EXCEPT ![a] = r]
  BY DEF StageFails
<1>2. op[a] \in Request
  BY DEF TypeOK
<1>3. /\ r \in Request /\ r.at = "clear" /\ r.base = root
  BY <1>2 DEF TypeOK, Request, Stages
<1>4. op' \in [Actors -> Request] /\ Others(a) /\ op'[a] = r
  BY <1>1, <1>3, Becomes DEF TypeOK
<1>5. LockHeld(lock', op')
  BY <1>3, <1>4 DEF LockHeld, Others, StageFails, TypeOK, Holding, diskVars
<1>6. faults' \in 0..MaxFaults
  BY GraphStoreAssumption DEF StageFails, Fault, TypeOK
<1>. QED BY <1>3, <1>4, <1>5, <1>6 DEF StageFails, LockHeld, TypeOK, diskVars

(* A graph is applied, and its client, which waits for that, answered.     *)
LEMMA ApplyEffect ==
  ASSUME TypeOK, Waiting, Apply
  PROVE  /\ TypeOK' /\ Waiting'
         /\ \E k \in Clients : op[k].at = "answer" /\ Moves(k, "over") /\ Others(k)
<1> DEFINE Entry == [client : Clients, state : SUBSET Patchers]
<1>1. applies \in Seq(Entry) /\ applies # << >>
  BY DEF TypeOK, Apply
<1>2. /\ Head(applies) \in Entry /\ Tail(applies) \in Seq(Entry)
      /\ 1 \in DOMAIN applies /\ Head(applies) = applies[1]
      /\ \A i \in DOMAIN Tail(applies) : i + 1 \in DOMAIN applies /\ i + 1 # 1
                                         /\ Tail(applies)[i] = applies[i + 1]
      /\ DOMAIN Tail(applies) \subseteq Nat
      /\ \A i \in DOMAIN applies : applies[i] \in Entry
  <2> HIDE DEF Entry
  <2>. QED BY <1>1
<1>3. PICK k \in Clients : k = Head(applies).client
  BY <1>2
<1>4. k \in Actors /\ op[k].at = "answer" /\ "over" \in Stages /\ Goto(k, "over")
  BY <1>2, <1>3 DEF Actors, Waiting, Stages, Apply
<1>5. op' \in [Actors -> Request] /\ Moves(k, "over") /\ Others(k) /\ LockHeld(lock', op')
  BY <1>4, MoveTyped DEF Apply, Holding, Rewriting, diskVars
<1>6. snapshot' \subseteq Patchers /\ applies' \in Seq(Entry)
  BY <1>2 DEF Apply
<1>7. TypeOK'
  BY <1>5, <1>6 DEF Apply, LockHeld, TypeOK, diskVars, historyVars
<1>8. ASSUME NEW i \in DOMAIN applies'
      PROVE  op'[applies'[i].client].at = "answer"
  <2>1. /\ applies'[i] = applies[i + 1] /\ i + 1 \in DOMAIN applies
        /\ applies[i + 1].client # applies[1].client /\ applies[i + 1].client \in Actors
    BY <1>2 DEF Apply, Waiting, Actors
  <2>. QED BY <2>1, <1>2, <1>3, <1>5 DEF Others, Waiting
<1>9. \A i, j \in DOMAIN applies' : applies'[i].client = applies'[j].client => i = j
  <2>1. ASSUME NEW i \in DOMAIN applies', NEW j \in DOMAIN applies',
               applies'[i].client = applies'[j].client
        PROVE  i = j
    <3>1. i + 1 = j + 1
      BY <1>2, <2>1 DEF Apply, Waiting
    <3>2. i \in Nat /\ j \in Nat
      BY <1>2 DEF Apply
    <3>. QED BY <3>1, <3>2
  <2>. QED BY <2>1
<1>. QED BY <1>4, <1>5, <1>7, <1>8, <1>9 DEF Waiting

(* The server dies, ...                                                    *)
LEMMA CrashEffect ==
  ASSUME TypeOK, Crash
  PROVE  TypeOK' /\ \A b \in Actors : op'[b].at \in {"no", "over", "failed"}
<1>1. ASSUME NEW b \in Actors
      PROVE  op'[b] \in Request /\ op'[b].at \in {"no", "over", "failed"}
  BY DEF Crash, TypeOK, Request, Stages
<1>2. op' \in [Actors -> Request]
  BY <1>1 DEF Crash
<1>3. lock' \in {"free", "left"} /\ lock' \notin Actors
  BY GraphStoreAssumption DEF Crash, Actors
<1>4. LockHeld(lock', op')
  BY <1>1, <1>3 DEF LockHeld, Holding, Rewriting
<1>5. up' \in BOOLEAN /\ damaged' \in BOOLEAN
  BY DEF Crash
<1>6. applies' \in Seq([client : Clients, state : SUBSET Patchers])
  BY DEF Crash
<1>7. faults' \in 0..MaxFaults
  BY GraphStoreAssumption DEF Crash, Fault, TypeOK
<1>. QED BY <1>1, <1>2, <1>3, <1>4, <1>5, <1>6, <1>7 DEF Crash, LockHeld, TypeOK

(* ... and starts again.                                                   *)
LEMMA RestartEffect ==
  ASSUME TypeOK, Restart
  PROVE  TypeOK'
<1>1. Recovered \in Tree /\ Recovered.state \subseteq Patchers
  BY DEF Recovered, TypeOK, Tree
<1>. QED BY <1>1, EmptyTree DEF Restart, TypeOK, historyVars

-----------------------------------------------------------------------------
(* What the steps of one request leave true of the others.                 *)

(* The lock has one holder.                                                *)
LEMMA OneHolder ==
  ASSUME TypeOK, NEW a \in Actors, NEW b \in Actors,
         op[a].at \in Holding, op[b].at \in Holding
  PROVE  a = b
  BY DEF TypeOK

(* Graphs wait to be applied while their requests do.                      *)
LEMMA RequestKeeps ==
  ASSUME IInv, TypeOK', NEW a \in Actors, Others(a), UNCHANGED <<up, applies>>,
         op[a].at # "answer" \/ a \in Patchers,
         up \/ op[a].at \notin {"no", "over", "failed"}
  PROVE  Waiting' /\ Down'
<1>1. up
  BY DEF IInv, Down
<1>2. \A i \in DOMAIN applies : applies[i].client \in Clients
  <2> DEFINE Entry == [client : Clients, state : SUBSET Patchers]
  <2>1. applies \in Seq(Entry)
    BY DEF IInv, TypeOK
  <2>2. \A i \in DOMAIN applies : applies[i] \in Entry
    <3> HIDE DEF Entry
    <3>. QED BY <2>1
  <2>. QED BY <2>2
<1>3. \A i \in DOMAIN applies : op'[applies[i].client].at = "answer"
  BY <1>2, GraphStoreAssumption DEF IInv, Waiting, Others, Actors
<1>. QED BY <1>1, <1>3 DEF IInv, Waiting, Down

(* A request without the lock, which leaves the tree alone.                *)
LEMMA OutsideKeeps ==
  ASSUME IInv, TypeOK', NEW a \in Actors, Others(a),
         op[a].at \notin Holding, op'[a].at \notin Holding,
         UNCHANGED <<diskVars, up, historyVars>>,
         ~damaged /\ a \in Patchers => Reading(a)'
  PROVE  RollsBack' /\ SavedGraphsWhole' /\ Undamaged'
<1>1. RollsBack' /\ SavedGraphsWhole'
  BY DEF IInv, RollsBack, SavedGraphsWhole, Others, Holding, Rewriting, historyVars
<1>2. ASSUME ~damaged, NEW b \in Actors
      PROVE  Saving(b)' /\ Staged(b)'
  <2>1. CASE b = a
    BY <2>1 DEF Saving, Staged, Holding, Rewriting
  <2>2. CASE b # a
    BY <1>2, <2>2
       DEF IInv, Undamaged, Tidy, Saving, Staged, Patchable, Others, diskVars, historyVars
  <2>. QED BY <2>1, <2>2
<1>3. ASSUME ~damaged, NEW p \in Patchers
      PROVE  Reading(p)'
  <2>1. CASE p = a
    BY <1>3, <2>1
  <2>2. CASE p # a
    <3>1. p \in Actors /\ op'[p] = op[p] /\ Reading(p)
      BY <1>3, <2>2 DEF Others, Actors, IInv, Undamaged, Tidy
    <3>2. (\E b \in Actors : op[b].at = "place") => \E b \in Actors : op'[b].at = "place"
      BY DEF Others, Holding
    <3>. QED BY <3>1, <3>2 DEF Reading, Patchable, historyVars
  <2>. QED BY <2>1, <2>2
<1>4. ASSUME ~damaged, NEW k \in Clients
      PROVE  Naming(k)'
  BY <1>4 DEF Naming, Others, Actors, IInv, Undamaged, Tidy, Holding, historyVars
<1>. QED
  BY <1>1, <1>2, <1>3, <1>4
     DEF IInv, Undamaged, Tidy, NodesInPlace, diskVars, historyVars

(* The holder of the lock, which keeps it and the tree that counts.        *)
LEMMA HolderKeeps ==
  ASSUME IInv, TypeOK', NEW a \in Actors, Others(a),
         op[a].at \in Holding, op'[a].at \in Holding \ {"stage"},
         UNCHANGED <<lock, up, last, damaged>>,
         rolledBack => rolledBack',
         op[a].at = "place" => rolledBack',
         op'[a].at \in {"back", "clear"} \cup Rewriting => rolledBack',
         ~damaged => /\ Saving(a)' /\ Staged(a)'
                     /\ root'.meta \in {0, last.meta}
                     /\ NodesInPlace'
  PROVE  RollsBack' /\ SavedGraphsWhole' /\ Undamaged'
<1>1. RollsBack' /\ SavedGraphsWhole'
  BY DEF IInv, RollsBack, SavedGraphsWhole, Others
<1>2. ASSUME ~damaged, NEW b \in Actors
      PROVE  Saving(b)' /\ Staged(b)'
  <2>1. CASE b = a
    BY <1>2, <2>1
  <2>2. CASE b # a
    BY <2>2, OneHolder DEF IInv, Saving, Staged, Others, Holding, Rewriting
  <2>. QED BY <2>1, <2>2
<1>3. ASSUME ~damaged, NEW p \in Patchers
      PROVE  Reading(p)'
  <2>1. CASE p = a
    BY <2>1 DEF Reading, Holding, Rewriting
  <2>2. CASE p # a
    <3>1. p \in Actors /\ op'[p] = op[p] /\ Reading(p)
      BY <1>3, <2>2 DEF Others, Actors, IInv, Undamaged, Tidy
    <3>2. ~rolledBack' /\ (\E b \in Actors : op[b].at = "place") =>
            \E b \in Actors : op'[b].at = "place"
      BY DEF Others
    <3>. QED BY <3>1, <3>2 DEF Reading, Patchable
  <2>. QED BY <2>1, <2>2
<1>4. ASSUME ~damaged, NEW k \in Clients
      PROVE  Naming(k)'
  BY <1>4 DEF Naming, Others, Actors, IInv, Undamaged, Tidy
<1>5. up /\ lock \in Actors
  BY GraphStoreAssumption DEF IInv, TypeOK, Down, Holding, Rewriting, Actors
<1>6. lock \notin {"free", "left"}
  BY <1>5, GraphStoreAssumption DEF Actors
<1>. QED
  BY <1>1, <1>2, <1>3, <1>4, <1>5, <1>6 DEF IInv, Undamaged, Tidy

(* The holder of the lock gives it back, with the tree as it was saved.    *)
LEMMA HolderLeaves ==
  ASSUME IInv, TypeOK', NEW a \in Actors, Others(a),
         op[a].at \in {"finish", "release"}, op'[a].at \in {"answer", "failed"},
         UNCHANGED <<root, up, historyVars>>
  PROVE  RollsBack' /\ SavedGraphsWhole' /\ Undamaged'
<1>1. RollsBack' /\ SavedGraphsWhole'
  BY DEF IInv, RollsBack, SavedGraphsWhole, Others, Rewriting, historyVars
<1>2. ASSUME ~damaged, NEW b \in Actors
      PROVE  Saving(b)' /\ Staged(b)'
  <2>1. CASE b = a
    BY <2>1 DEF Saving, Staged, Rewriting
  <2>2. CASE b # a
    BY <2>2, OneHolder DEF IInv, Saving, Staged, Others, Holding, Rewriting
  <2>. QED BY <2>1, <2>2
<1>3. ASSUME ~damaged, NEW p \in Patchers
      PROVE  Reading(p)'
  <2>1. CASE p = a
    BY <2>1 DEF Reading
  <2>2. CASE p # a
    <3>1. p \in Actors /\ op'[p] = op[p] /\ Reading(p)
      BY <1>3, <2>2 DEF Others, Actors, IInv, Undamaged, Tidy
    <3>2. ~\E b \in Actors : op[b].at = "place"
      BY OneHolder DEF IInv, Holding
    <3>. QED BY <3>1, <3>2 DEF Reading, Patchable, historyVars
  <2>. QED BY <2>1, <2>2
<1>4. ASSUME ~damaged, NEW k \in Clients
      PROVE  Naming(k)'
  BY <1>4 DEF Naming, Others, Actors, IInv, Undamaged, Tidy, historyVars
<1>5. ~damaged => root = last
  BY DEF IInv, Undamaged, Tidy, Saving
<1>. QED
  BY <1>1, <1>2, <1>3, <1>4, <1>5
     DEF IInv, Undamaged, Tidy, NodesInPlace, TypeOK, Tree, historyVars

-----------------------------------------------------------------------------
(* The invariant, action by action.                                        *)

(* Trees with the same parts are the same.                                 *)
LEMMA SameTree ==
  ASSUME NEW s \in Tree, NEW t \in Tree, s.meta = t.meta, s.nodes = t.nodes,
         s.edges = t.edges, s.state = t.state
  PROVE  s = t
  BY DEF Tree

(* Initially the tree is the one saved last and nothing is asked for.      *)
LEMMA InitInvariant == Init => IInv
<1> SUFFICES ASSUME Init PROVE IInv
  OBVIOUS
<1>1. Saved \in Tree /\ Saved.meta = 1 /\ Saved.nodes = Saved.edges
  BY DEF Saved, Tree, Designs
<1>2. Idle \in Request /\ Idle.at = "no"
  BY EmptyTree DEF Idle, Request, Stages
<1>3. \A a \in Actors : op[a].at = "no"
  BY <1>2 DEF Init
<1>4. TypeOK
  <2>1. op \in [Actors -> Request]
    BY <1>2 DEF Init
  <2>2. applies \in Seq([client : Clients, state : SUBSET Patchers])
    BY DEF Init
  <2>3. \A a \in Actors : op[a].at \in Holding <=> lock = a
    BY <1>3, GraphStoreAssumption DEF Init, Holding, Rewriting, Actors
  <2>4. faults \in 0..MaxFaults
    BY GraphStoreAssumption DEF Init
  <2>5. lock \in Actors \cup {"free", "left"} /\ snapshot \subseteq Patchers
    BY DEF Init
  <2>6. up \in BOOLEAN /\ rolledBack \in BOOLEAN /\ damaged \in BOOLEAN
    BY DEF Init
  <2>7. root \in Tree /\ staging \in Tree /\ backup \in Tree /\ last \in Tree
    BY <1>1, EmptyTree DEF Init
  <2>. QED BY <2>1, <2>2, <2>3, <2>4, <2>5, <2>6, <2>7 DEF TypeOK
<1>5. Waiting /\ Down
  BY DEF Init, Waiting, Down
<1>6. RollsBack /\ SavedGraphsWhole
  BY <1>1, <1>3 DEF Init, RollsBack, SavedGraphsWhole, Rewriting
<1>7. \A a \in Actors : Saving(a) /\ Staged(a)
  BY <1>3 DEF Saving, Staged, Rewriting
<1>8. (\A p \in Patchers : Reading(p)) /\ (\A k \in Clients : Naming(k))
  BY <1>3 DEF Reading, Naming, Actors
<1>. QED
  BY <1>1, <1>4, <1>5, <1>6, <1>7, <1>8 DEF Init, IInv, Undamaged, Tidy, NodesInPlace

(* Steps of a request without the lock.                                    *)
LEMMA OutsideStep ==
  ASSUME IInv, NEW a \in Actors,
         \/ a \in Clients /\ Post(a)
         \/ a \in Patchers /\ (Patch(a) \/ ReadStep(a) \/ NotePatch(a))
         \/ LockTimeout(a)
  PROVE  IInv'
<1> USE DEF Holding, Rewriting
<1>1. TypeOK
  BY DEF IInv
<1>2. CASE a \in Clients /\ Post(a)
  <2>1. TypeOK' /\ op'[a].at = "lock" /\ Others(a)
    BY <1>1, <1>2, PostEffect
  <2>2. Waiting' /\ Down'
    BY <1>2, <2>1, RequestKeeps DEF Post
  <2>. QED BY <1>2, <2>1, <2>2, OutsideKeeps, GraphStoreAssumption DEF Post, IInv
<1>3. CASE a \in Patchers /\ Patch(a)
  <2>1. TypeOK' /\ op'[a].at = "meta" /\ Others(a)
    BY <1>1, <1>3, PatchEffect
  <2>2. Waiting' /\ Down'
    BY <1>3, <2>1, RequestKeeps DEF Patch
  <2>. QED BY <1>3, <2>1, <2>2, OutsideKeeps DEF Patch, IInv, Reading
<1>4. CASE a \in Patchers /\ ReadMeta(a)
  <2>1. /\ TypeOK' /\ Others(a) /\ op'[a].given = root.meta
        /\ op'[a].at = IF root.meta = 0 THEN "failed" ELSE "nodes"
    BY <1>1, <1>4, ReadMetaEffect
  <2>2. Waiting' /\ Down'
    BY <1>4, <2>1, RequestKeeps DEF ReadMeta
  <2>3. root.meta \in Nat /\ last.meta \in Nat /\ last' = last
    BY <1>1, <1>4 DEF ReadMeta, historyVars, TypeOK, Tree
  <2>4. ~damaged => Reading(a)'
    <3>1. ~damaged => root.meta \in {0, last.meta}
      BY DEF IInv, Undamaged, Tidy
    <3>. QED BY <2>1, <2>3, <3>1 DEF Reading
  <2>5. /\ op[a].at \notin Holding /\ op'[a].at \notin Holding
        /\ UNCHANGED <<diskVars, up, historyVars>>
    BY <1>4, <2>1 DEF ReadMeta
  <2>. QED BY <2>1, <2>2, <2>4, <2>5, OutsideKeeps DEF IInv
<1>5. CASE a \in Patchers /\ ReadNodes(a)
  <2>1. /\ TypeOK' /\ Others(a)
        /\ op'[a].at = IF root.nodes \in {"none", "others"} THEN "failed" ELSE "edges"
        /\ op'[a].given = op[a].given /\ op'[a].base.nodes = root.nodes
    BY <1>1, <1>5, ReadNodesEffect
  <2>2. Waiting' /\ Down'
    BY <1>5, <2>1, RequestKeeps DEF ReadNodes
  <2>3. ~damaged => Reading(a)'
    <3>1. ~damaged => Reading(a) /\ NodesInPlace
      BY <1>5 DEF IInv, Undamaged, Tidy
    <3>2. op[a].at = "nodes" /\ last' = last /\ rolledBack' = rolledBack
      BY <1>5 DEF ReadNodes, historyVars
    <3>. QED BY <2>1, <3>1, <3>2 DEF Reading, NodesInPlace, Patchable
  <2>4. /\ op[a].at \notin Holding /\ op'[a].at \notin Holding
        /\ UNCHANGED <<diskVars, up, historyVars>>
    BY <1>5, <2>1 DEF ReadNodes
  <2>. QED BY <2>1, <2>2, <2>3, <2>4, OutsideKeeps DEF IInv
<1>6. CASE a \in Patchers /\ ReadEdges(a)
  <2>1. /\ TypeOK' /\ Others(a)
        /\ \/ Moves(a, "failed")
           \/ /\ op'[a].at = "lock" /\ op'[a].given = op[a].given
              /\ op'[a].base.nodes = op[a].base.nodes /\ op'[a].base.edges = root.edges
    BY <1>1, <1>6, ReadEdgesEffect
  <2>2. Waiting' /\ Down'
    BY <1>6, <2>1, RequestKeeps DEF ReadEdges
  <2>3. ASSUME ~damaged, ~rolledBack
        PROVE  root = last \/ \E b \in Actors : op[b].at = "place"
    <3>1. up
      BY <1>6 DEF IInv, Down, ReadEdges
    <3>2. CASE lock \in {"free", "left"}
      BY <2>3, <3>1, <3>2 DEF IInv, Undamaged, Tidy
    <3>3. CASE lock \in Actors
      <4>1. op[lock].at \in Holding /\ Saving(lock)
            /\ op[lock].at \notin {"back", "clear"} \cup Rewriting
        BY <1>1, <2>3, <3>3 DEF IInv, Undamaged, Tidy, RollsBack, TypeOK
      <4>. QED BY <3>3, <4>1 DEF Saving
    <3>. QED BY <1>1, <3>2, <3>3 DEF TypeOK
  <2>4. (\E b \in Actors : op[b].at = "place") => \E b \in Actors : op'[b].at = "place"
    BY <1>6, <2>1 DEF ReadEdges, Others
  <2>5. ~damaged => Reading(a)'
    BY <1>6, <2>1, <2>3, <2>4
       DEF IInv, Undamaged, Tidy, ReadEdges, Reading, Patchable, Moves, historyVars
  <2>. QED BY <1>6, <2>1, <2>2, <2>5, OutsideKeeps DEF ReadEdges, IInv, Moves
<1>7. CASE a \in Patchers /\ ReadFails(a)
  <2>1. TypeOK' /\ Moves(a, "failed") /\ Others(a)
    BY <1>1, <1>7, ReadFailsEffect
  <2>2. Waiting' /\ Down'
    BY <1>7, <2>1, RequestKeeps DEF ReadFails
  <2>. QED BY <1>7, <2>1, <2>2, OutsideKeeps DEF ReadFails, IInv, Moves, Reading
<1>8. CASE a \in Patchers /\ NotePatch(a)
  <2>1. TypeOK' /\ Moves(a, "over") /\ Others(a)
    BY <1>1, <1>8, NotePatchEffect
  <2>2. Waiting' /\ Down'
    BY <1>8, <2>1, RequestKeeps DEF NotePatch
  <2>. QED BY <1>8, <2>1, <2>2, OutsideKeeps DEF NotePatch, IInv, Moves, Reading
<1>9. CASE LockTimeout(a)
  <2>1. TypeOK' /\ Moves(a, "failed") /\ Others(a)
    BY <1>1, <1>9, LockTimeoutEffect
  <2>2. Waiting' /\ Down'
    BY <1>9, <2>1, RequestKeeps DEF LockTimeout
  <2>. QED BY <1>9, <2>1, <2>2, OutsideKeeps DEF LockTimeout, IInv, Moves, Reading
<1>. QED BY <1>2, <1>3, <1>4, <1>5, <1>6, <1>7, <1>8, <1>9 DEF ReadStep

(* A graph is handed to the runtime.                                       *)
LEMMA ApplyStep ==
  ASSUME IInv, Apply PROVE IInv'
<1>1. PICK k \in Clients : op[k].at = "answer" /\ Moves(k, "over") /\ Others(k)
  BY ApplyEffect DEF IInv
<1>2. TypeOK' /\ Waiting'
  BY ApplyEffect DEF IInv
<1>3. k \in Actors /\ k \notin Patchers
  BY GraphStoreAssumption DEF Actors
<1>4. Down'
  BY <1>1, <1>3 DEF Apply, IInv, Down
<1>5. op[k].at \notin Holding /\ op'[k].at \notin Holding
  BY <1>1 DEF Moves, Holding, Rewriting
<1>. QED BY <1>1, <1>2, <1>3, <1>4, <1>5, OutsideKeeps DEF Apply, IInv

(* The lock is taken while the tree is the one saved last.                 *)
LEMMA TakeLockStep ==
  ASSUME IInv, NEW a \in Actors, TakeLock(a) PROVE IInv'
<1>1. /\ TypeOK' /\ Others(a) /\ op'[a].given = op[a].given
      /\ \/ op'[a].at = "failed"
         \/ /\ op'[a].at = "stage" /\ op[a].given \in {0, root.meta}
            /\ a \in Patchers => op'[a].base = op[a].base
  BY TakeLockEffect DEF IInv
<1>2. Waiting' /\ Down'
  BY <1>1, RequestKeeps DEF TakeLock
<1>3. op[a].at = "lock" /\ lock = "free" /\ up
  BY DEF TakeLock, IInv, Down
<1>4. ~damaged => root = last
  BY <1>3 DEF IInv, Undamaged, Tidy
<1>5. RollsBack' /\ SavedGraphsWhole'
  BY <1>1 DEF TakeLock, IInv, RollsBack, SavedGraphsWhole, Others, Rewriting, historyVars
<1>6. ASSUME ~damaged, NEW b \in Actors
      PROVE  Saving(b)' /\ Staged(b)'
  <2>1. CASE b = a
    BY <1>1, <1>4, <1>6, <2>1 DEF TakeLock, Saving, Staged, Rewriting, historyVars
  <2>2. CASE b # a
    BY <1>1, <1>6, <2>2
       DEF IInv, Undamaged, Tidy, Saving, Staged, Patchable, Others, TakeLock, historyVars
  <2>. QED BY <2>1, <2>2
<1>7. ~\E b \in Actors : op[b].at = "place"
  BY <1>3, GraphStoreAssumption DEF IInv, TypeOK, Holding, Actors
<1>8. ASSUME ~damaged, NEW p \in Patchers
      PROVE  Reading(p)'
  <2>1. p \in Actors /\ Reading(p) /\ last' = last /\ rolledBack' = rolledBack
    BY <1>8 DEF Actors, IInv, Undamaged, Tidy, TakeLock, historyVars
  <2>2. CASE p = a
    BY <1>1, <1>3, <1>4, <1>7, <1>8, <2>1, <2>2 DEF Reading, Patchable
  <2>3. CASE p # a
    BY <1>1, <1>7, <2>1, <2>3 DEF Reading, Patchable, Others
  <2>. QED BY <2>2, <2>3
<1>9. ASSUME ~damaged, NEW k \in Clients
      PROVE  Naming(k)'
  <2>1. k \in Actors /\ Naming(k) /\ last' = last
    BY <1>9 DEF Actors, IInv, Undamaged, Tidy, TakeLock, historyVars
  <2>. QED BY <1>1, <1>4, <1>9, <2>1 DEF Naming, Others
<1>. QED
  BY <1>1, <1>2, <1>3, <1>4, <1>5, <1>6, <1>8, <1>9
     DEF IInv, Undamaged, Tidy, NodesInPlace, TakeLock, historyVars, TypeOK, Tree

(* A save up to the new tree in its place, or the decision to roll back.   *)
LEMMA SaveStepKeeps ==
  ASSUME IInv, NEW a \in Actors,
         \/ Stage(a) \/ StageFails(a) \/ MoveAway(a) \/ MoveAwayFails(a)
         \/ PutInPlaceFails(a) \/ MoveBack(a)
  PROVE  IInv'
<1> USE DEF Holding, Rewriting
<1>1. TypeOK /\ up
  BY DEF IInv, Down, Stage, StageFails, MoveAway, MoveAwayFails, PutInPlaceFails, MoveBack
<1>2. /\ ~damaged => Saving(a) /\ Staged(a) /\ root.meta \in {0, last.meta} /\ NodesInPlace
      /\ ~damaged /\ a \in Patchers => Reading(a)
      /\ ~damaged /\ a \in Clients => Naming(a)
  BY DEF IInv, Undamaged, Tidy
<1>3. NoTree.meta = 0 /\ NoTree.nodes = "none"
  BY DEF NoTree
<1>4. CASE Stage(a)
  <2>1. /\ TypeOK' /\ Others(a)
        /\ op'[a].at = "swap" /\ op'[a].given = op[a].given /\ op'[a].base = root
    BY <1>1, <1>4, StageEffect
  <2>2. Waiting' /\ Down'
    BY <1>4, <2>1, RequestKeeps DEF Stage
  <2>3. /\ op[a].at = "stage" /\ staging' = Target(a) /\ root' = root
        /\ last' = last /\ rolledBack' = rolledBack
    BY <1>4 DEF Stage, historyVars
  <2>4. op[a].base \in Tree /\ root.meta \in Nat
    BY <1>1 DEF TypeOK, Request, Tree
  <2>5. ~damaged => Staged(a)'
    <3>1. Target(a).meta = root.meta + 1
      BY <2>4 DEF Target, Tree
    <3>2. CASE a \in Clients
      <4>1. Target(a).nodes = a /\ Target(a).edges = a /\ a \notin Patchers
        BY <2>4, <3>2, GraphStoreAssumption DEF Target, Tree
      <4>. QED BY <1>2, <2>1, <2>3, <3>1, <3>2, <4>1 DEF Staged, Naming, Saving
    <3>3. CASE a \in Patchers
      <4>1. Target(a).nodes = op[a].base.nodes /\ Target(a).edges = op[a].base.edges
        BY <2>4, <3>3, GraphStoreAssumption DEF Target, Tree
      <4>. QED
        BY <1>2, <2>1, <2>3, <3>1, <3>3, <4>1
           DEF Staged, Reading, Patchable, Saving, IInv, SavedGraphsWhole
    <3>. QED BY <3>2, <3>3 DEF Actors
  <2>6. ~damaged => Saving(a)'
    BY <1>2, <2>1, <2>3 DEF Saving
  <2>7. /\ UNCHANGED <<lock, up, last, damaged, rolledBack>> /\ root' = root
    BY <1>4 DEF Stage, historyVars
  <2>. QED BY <1>2, <2>1, <2>2, <2>3, <2>5, <2>6, <2>7, HolderKeeps DEF IInv, NodesInPlace
<1>5. CASE StageFails(a)
  <2>1. TypeOK' /\ Others(a) /\ op'[a].at = "clear" /\ op'[a].base = root
    BY <1>1, <1>5, StageFailsEffect
  <2>2. Waiting' /\ Down'
    BY <1>5, <2>1, RequestKeeps DEF StageFails
  <2>3. /\ op[a].at = "stage" /\ root' = root /\ rolledBack' = TRUE
        /\ UNCHANGED <<lock, up, last, damaged>>
    BY <1>5 DEF StageFails, diskVars
  <2>4. ~damaged => Saving(a)' /\ Staged(a)'
    BY <1>2, <2>1, <2>3 DEF Saving, Staged
  <2>. QED BY <1>2, <2>1, <2>2, <2>3, <2>4, HolderKeeps DEF IInv, NodesInPlace
<1>6. CASE MoveAway(a)
  <2>1. TypeOK' /\ Moves(a, "place") /\ Others(a)
    BY <1>1, <1>6, MoveAwayEffect
  <2>2. Waiting' /\ Down'
    BY <1>6, <2>1, RequestKeeps DEF MoveAway
  <2>3. /\ op[a].at = "swap" /\ root' = NoTree /\ backup' = root /\ staging' = staging
        /\ UNCHANGED <<lock, up, last, rolledBack, damaged>>
    BY <1>6 DEF MoveAway, historyVars
  <2>4. ~damaged => Saving(a)' /\ Staged(a)'
    BY <1>2, <2>1, <2>3 DEF Saving, Staged, Patchable, Moves
  <2>. QED BY <1>2, <1>3, <2>1, <2>2, <2>3, <2>4, HolderKeeps DEF IInv, NodesInPlace, Moves
<1>7. CASE MoveAwayFails(a)
  <2>1. TypeOK' /\ Moves(a, "clear") /\ Others(a)
    BY <1>1, <1>7, MoveAwayFailsEffect
  <2>2. Waiting' /\ Down'
    BY <1>7, <2>1, RequestKeeps DEF MoveAwayFails
  <2>3. /\ op[a].at = "swap" /\ root' = root /\ rolledBack' = TRUE
        /\ UNCHANGED <<lock, up, last, damaged>>
    BY <1>7 DEF MoveAwayFails
  <2>4. ~damaged => Saving(a)' /\ Staged(a)'
    BY <1>2, <2>1, <2>3 DEF Saving, Staged, Moves
  <2>. QED BY <1>2, <2>1, <2>2, <2>3, <2>4, HolderKeeps DEF IInv, NodesInPlace, Moves
<1>8. CASE PutInPlaceFails(a)
  <2>1. TypeOK' /\ Moves(a, "back") /\ Others(a)
    BY <1>1, <1>8, PutInPlaceFailsEffect
  <2>2. Waiting' /\ Down'
    BY <1>8, <2>1, RequestKeeps DEF PutInPlaceFails
  <2>3. /\ op[a].at = "place" /\ root' = root /\ backup' = backup /\ rolledBack' = TRUE
        /\ UNCHANGED <<lock, up, last, damaged>>
    BY <1>8 DEF PutInPlaceFails, diskVars
  <2>4. ~damaged => Saving(a)' /\ Staged(a)'
    BY <1>2, <2>1, <2>3 DEF Saving, Staged, Moves
  <2>. QED BY <1>2, <2>1, <2>2, <2>3, <2>4, HolderKeeps DEF IInv, NodesInPlace, Moves
<1>9. CASE MoveBack(a)
  <2>1. TypeOK' /\ Moves(a, "clear") /\ Others(a)
    BY <1>1, <1>9, MoveBackEffect
  <2>2. Waiting' /\ Down'
    BY <1>9, <2>1, RequestKeeps DEF MoveBack
  <2>3. /\ op[a].at = "back" /\ root' \in {root, backup}
        /\ UNCHANGED <<lock, up, last, rolledBack, damaged>>
    BY <1>9 DEF MoveBack, historyVars
  <2>4. rolledBack
    BY <2>3 DEF IInv, RollsBack
  <2>5. ~damaged => /\ Saving(a)' /\ Staged(a)'
                    /\ root'.meta \in {0, last.meta} /\ NodesInPlace'
    BY <1>2, <1>3, <2>1, <2>3 DEF Saving, Staged, NodesInPlace, Moves
  <2>. QED BY <2>1, <2>2, <2>3, <2>4, <2>5, HolderKeeps DEF IInv, Moves
<1>. QED BY <1>4, <1>5, <1>6, <1>7, <1>8, <1>9

(* The new tree is put in its place: the one save that changes what counts *)
(* as saved.                                                               *)
LEMMA PutInPlaceStep ==
  ASSUME IInv, NEW a \in Actors, PutInPlace(a) PROVE IInv'
<1> USE DEF Holding, Rewriting
<1>1. TypeOK' /\ Moves(a, "finish") /\ Others(a)
  BY PutInPlaceEffect DEF IInv
<1>2. Waiting' /\ Down'
  BY <1>1, RequestKeeps DEF PutInPlace
<1>3. /\ op[a].at = "place" /\ root' = staging /\ last' = staging
      /\ UNCHANGED <<lock, up, rolledBack, damaged>>
  BY DEF PutInPlace
<1>4. TypeOK /\ up /\ last.meta \in Nat /\ staging.meta \in Nat
  BY <1>3 DEF IInv, Down, TypeOK, Tree
<1>5. lock = a /\ a \notin {"free", "left"}
  BY <1>3, <1>4, GraphStoreAssumption DEF TypeOK, Actors
<1>6. ~rolledBack => ~damaged
  BY DEF IInv, RollsBack
<1>7. ~damaged => Staged(a) /\ staging.meta = last.meta + 1
  BY <1>3 DEF IInv, Undamaged, Tidy, Staged
<1>8. RollsBack' /\ SavedGraphsWhole'
  BY <1>1, <1>3, <1>6, <1>7 DEF IInv, RollsBack, SavedGraphsWhole, Others, Moves, Staged
<1>9. ASSUME NEW b \in Actors, b # a
      PROVE  op'[b] = op[b] /\ op[b].at \notin Holding
  BY <1>1, <1>3, <1>4, <1>9, OneHolder DEF Others
<1>10. ASSUME NEW b \in Actors
       PROVE  Saving(b)' /\ Staged(b)'
  <2>1. CASE b = a
    BY <1>1, <1>3, <2>1 DEF Saving, Staged, Moves
  <2>2. CASE b # a
    BY <1>9, <2>2 DEF Saving, Staged
  <2>. QED BY <2>1, <2>2
<1>11. ASSUME ~damaged, NEW p \in Patchers
       PROVE  Reading(p)'
  <2>1. CASE p = a
    BY <1>1, <2>1 DEF Reading, Moves
  <2>2. CASE p # a
    <3>1. p \in Actors /\ op'[p] = op[p] /\ op[p].at # "stage" /\ Reading(p)
      BY <1>9, <1>11, <2>2 DEF Actors, IInv, Undamaged, Tidy
    <3>2. op[p].given \in Nat /\ last'.meta = last.meta + 1
      BY <1>3, <1>4, <1>7, <1>11, <3>1 DEF TypeOK, Request
    <3>. QED BY <1>4, <3>1, <3>2 DEF Reading
  <2>. QED BY <2>1, <2>2
<1>12. ASSUME NEW k \in Clients
       PROVE  Naming(k)'
  BY <1>1, <1>9 DEF Naming, Actors, Moves
<1>13. ~damaged => last'.meta > 0
  BY <1>3, <1>4, <1>7
<1>. QED
  BY <1>1, <1>2, <1>3, <1>4, <1>5, <1>8, <1>10, <1>11, <1>12, <1>13
     DEF IInv, Undamaged, Tidy, NodesInPlace

(* A save is over: its lock is free and its client waits for the runtime.  *)
LEMMA FinishStep ==
  ASSUME IInv, NEW a \in Actors, Finish(a) PROVE IInv'
<1>1. TypeOK' /\ Moves(a, "answer") /\ Others(a)
  BY FinishEffect DEF IInv
<1>2. op[a].at = "finish" /\ UNCHANGED <<root, up, historyVars>>
  BY DEF Finish
<1>3. RollsBack' /\ SavedGraphsWhole' /\ Undamaged'
  BY <1>1, <1>2, HolderLeaves DEF Moves
<1>4. Down'
  BY <1>2 DEF IInv, Down
<1> DEFINE Entry == [client : Clients, state : SUBSET Patchers]
           new == [client |-> a, state |-> last.state]
<1>5. /\ applies \in Seq(Entry)
      /\ applies' = IF a \in Clients THEN Append(applies, new) ELSE applies
      /\ a \in Clients => new \in Entry
  BY DEF Finish, IInv, TypeOK, Tree
<1>6. ASSUME NEW i \in DOMAIN applies
      PROVE  /\ applies[i].client \in Actors /\ applies[i].client # a
             /\ op'[applies[i].client].at = "answer"
  <2>1. applies[i] \in Entry
    <3> HIDE DEF Entry
    <3>. QED BY <1>5
  <2>2. applies[i].client \in Actors /\ op[applies[i].client].at = "answer"
    BY <2>1 DEF Actors, IInv, Waiting
  <2>. QED BY <1>1, <1>2, <2>2 DEF Others
<1>7. CASE a \in Clients
  <2>1. /\ DOMAIN applies' = DOMAIN applies \cup {Len(applies) + 1}
        /\ Len(applies) + 1 \notin DOMAIN applies
        /\ applies'[Len(applies) + 1] = new
        /\ \A i \in DOMAIN applies : applies'[i] = applies[i]
    <3> HIDE DEF Entry, new
    <3>. QED BY <1>5, <1>7
  <2>2. \A i \in DOMAIN applies' : op'[applies'[i].client].at = "answer"
    BY <1>1, <1>6, <2>1 DEF Moves
  <2>3. \A i, j \in DOMAIN applies' : applies'[i].client = applies'[j].client => i = j
    BY <1>6, <2>1 DEF IInv, Waiting
  <2>. QED BY <1>1, <1>3, <1>4, <2>2, <2>3 DEF IInv, Waiting
<1>8. CASE a \notin Clients
  BY <1>1, <1>3, <1>4, <1>5, <1>6, <1>8 DEF IInv, Waiting
<1>. QED BY <1>7, <1>8

(* A rollback rewrites the tree that was saved last.                       *)
LEMMA RestoreStepKeeps ==
  ASSUME IInv, NEW a \in Actors, RestoreStep(a) PROVE IInv'
<1> USE DEF Holding, Rewriting
<1>1. TypeOK /\ up
  BY DEF IInv, Down, RestoreStep, ClearSomeNodes, ClearNodes, ClearEdges, WriteSomeNodes,
         WriteNodes, WriteEdges, WriteMeta, RestoreFails, Release
<1>2. /\ ~damaged => Saving(a) /\ root.meta \in {0, last.meta} /\ NodesInPlace
      /\ op[a].at \in {"clear"} \cup Rewriting => rolledBack
  BY DEF IInv, Undamaged, Tidy, RollsBack
<1>3. CASE ClearSomeNodes(a) \/ WriteSomeNodes(a)
  <2>1. /\ TypeOK' /\ op' = op /\ Others(a)
        /\ root'.meta = root.meta /\ root'.nodes \in {"some", "others"}
    BY <1>1, <1>3, SomeNodesEffect
  <2>2. /\ op[a].at \in {"clear", "write"}
        /\ UNCHANGED <<lock, up, applies, last, rolledBack, damaged>>
    BY <1>3 DEF ClearSomeNodes, WriteSomeNodes, historyVars
  <2>3. Waiting' /\ Down'
    BY <1>1, <2>1, <2>2, RequestKeeps
  <2>4. ~damaged => Saving(a)' /\ Staged(a)' /\ NodesInPlace'
    BY <1>2, <2>1, <2>2 DEF Saving, Staged, NodesInPlace
  <2>. QED BY <1>2, <2>1, <2>2, <2>3, <2>4, HolderKeeps DEF IInv
<1>4. CASE ClearNodes(a)
  <2>1. TypeOK' /\ Moves(a, "clearEdges") /\ Others(a)
    BY <1>1, <1>4, ClearNodesEffect
  <2>2. Waiting' /\ Down'
    BY <1>4, <2>1, RequestKeeps DEF ClearNodes
  <2>3. /\ op[a].at = "clear" /\ root' = [root EXCEPT !.nodes = "none", !.state = {}]
        /\ UNCHANGED <<lock, up, last, rolledBack, damaged>>
    BY <1>4 DEF ClearNodes, historyVars
  <2>4. root'.meta = root.meta /\ root'.nodes = "none"
    BY <1>1, <2>3 DEF TypeOK, Tree
  <2>5. ~damaged => Saving(a)' /\ Staged(a)'
    BY <1>2, <2>1, <2>3, <2>4 DEF Saving, Staged, Moves
  <2>. QED BY <1>2, <2>1, <2>2, <2>3, <2>4, <2>5, HolderKeeps DEF IInv, NodesInPlace, Moves
<1>5. CASE ClearEdges(a)
  <2>1. TypeOK' /\ Moves(a, "write") /\ Others(a)
    BY <1>1, <1>5, ClearEdgesEffect
  <2>2. Waiting' /\ Down'
    BY <1>5, <2>1, RequestKeeps DEF ClearEdges
  <2>3. /\ op[a].at = "clearEdges" /\ root' = [root EXCEPT !.edges = "none"]
        /\ UNCHANGED <<lock, up, last, rolledBack, damaged>>
    BY <1>5 DEF ClearEdges, historyVars
  <2>4. root'.meta = root.meta /\ root'.nodes = root.nodes
    BY <1>1, <2>3 DEF TypeOK, Tree
  <2>5. ~damaged => Saving(a)' /\ Staged(a)'
    BY <1>2, <2>1, <2>3, <2>4 DEF Saving, Staged, Moves
  <2>. QED BY <1>2, <2>1, <2>2, <2>3, <2>4, <2>5, HolderKeeps DEF IInv, NodesInPlace, Moves
<1>6. CASE WriteNodes(a)
  <2>1. TypeOK' /\ Moves(a, "writeEdges") /\ Others(a)
    BY <1>1, <1>6, WriteNodesEffect
  <2>2. Waiting' /\ Down'
    BY <1>6, <2>1, RequestKeeps DEF WriteNodes
  <2>3. /\ op[a].at = "write"
        /\ root' = [root EXCEPT !.nodes = op[a].base.nodes, !.state = op[a].base.state]
        /\ UNCHANGED <<lock, up, last, rolledBack, damaged>>
    BY <1>6 DEF WriteNodes, historyVars
  <2>4. /\ root'.meta = root.meta /\ root'.nodes = op[a].base.nodes
        /\ root'.state = op[a].base.state
    BY <1>1, <2>3 DEF TypeOK, Tree
  <2>5. ~damaged => op[a].base = last
    BY <1>2, <2>3 DEF Saving
  <2>6. ~damaged => Saving(a)' /\ Staged(a)'
    BY <2>1, <2>3, <2>4, <2>5 DEF Saving, Staged, Moves
  <2>. QED
    BY <1>2, <2>1, <2>2, <2>3, <2>4, <2>5, <2>6, HolderKeeps DEF IInv, NodesInPlace, Moves
<1>7. CASE WriteEdges(a)
  <2>1. TypeOK' /\ Moves(a, "writeMeta") /\ Others(a)
    BY <1>1, <1>7, WriteEdgesEffect
  <2>2. Waiting' /\ Down'
    BY <1>7, <2>1, RequestKeeps DEF WriteEdges
  <2>3. /\ op[a].at = "writeEdges" /\ root' = [root EXCEPT !.edges = op[a].base.edges]
        /\ UNCHANGED <<lock, up, last, rolledBack, damaged>>
    BY <1>7 DEF WriteEdges, historyVars
  <2>4. /\ root'.meta = root.meta /\ root'.nodes = root.nodes
        /\ root'.state = root.state /\ root'.edges = op[a].base.edges
    BY <1>1, <2>3 DEF TypeOK, Tree
  <2>5. ~damaged => Saving(a)' /\ Staged(a)'
    BY <1>2, <2>1, <2>3, <2>4 DEF Saving, Staged, Moves
  <2>. QED BY <1>2, <2>1, <2>2, <2>3, <2>4, <2>5, HolderKeeps DEF IInv, NodesInPlace, Moves
<1>8. CASE WriteMeta(a)
  <2>1. TypeOK' /\ Moves(a, "release") /\ Others(a)
    BY <1>1, <1>8, WriteMetaEffect
  <2>2. Waiting' /\ Down'
    BY <1>8, <2>1, RequestKeeps DEF WriteMeta
  <2>3. /\ op[a].at = "writeMeta" /\ root' = [root EXCEPT !.meta = op[a].base.meta]
        /\ UNCHANGED <<lock, up, last, rolledBack, damaged>>
    BY <1>8 DEF WriteMeta, historyVars
  <2>4. /\ root'.meta = op[a].base.meta /\ root'.nodes = root.nodes
        /\ root'.state = root.state /\ root'.edges = root.edges
    BY <1>1, <2>3 DEF TypeOK, Tree
  <2>5. ~damaged => root' = last
    <3>1. root' \in Tree /\ last \in Tree
      BY <1>1, <2>1, <2>3 DEF TypeOK
    <3>2. ~damaged => Saving(a)
      BY <1>2
    <3>3. ~damaged => /\ op[a].base.meta = last.meta /\ root.nodes = last.nodes
                      /\ root.state = last.state /\ root.edges = last.edges
      BY <2>3, <3>2 DEF Saving, Rewriting
    <3> QED
      BY <2>4, <3>1, <3>3, SameTree
  <2>6. ~damaged => Saving(a)' /\ Staged(a)'
    BY <2>1, <2>3, <2>5 DEF Saving, Staged, Moves
  <2>. QED BY <1>2, <2>1, <2>2, <2>3, <2>5, <2>6, HolderKeeps DEF IInv, NodesInPlace, Moves
<1>9. CASE RestoreFails(a)
  <2>1. TypeOK' /\ Moves(a, "release") /\ Others(a)
    BY <1>1, <1>9, RestoreFailsEffect
  <2>2. Waiting' /\ Down'
    BY <1>9, <2>1, RequestKeeps DEF RestoreFails
  <2>3. /\ op[a].at \in Rewriting \cup {"clear"} /\ damaged'
        /\ UNCHANGED <<last, rolledBack>>
    BY <1>9 DEF RestoreFails
  <2>4. RollsBack' /\ SavedGraphsWhole'
    BY <1>2, <2>1, <2>3 DEF IInv, RollsBack, SavedGraphsWhole, Others, Moves
  <2>. QED BY <2>1, <2>2, <2>3, <2>4 DEF IInv, Undamaged
<1>10. CASE Release(a)
  <2>1. TypeOK' /\ Moves(a, "failed") /\ Others(a)
    BY <1>1, <1>10, ReleaseEffect
  <2>2. Waiting' /\ Down'
    BY <1>10, <2>1, RequestKeeps DEF Release
  <2>. QED BY <1>10, <2>1, <2>2, HolderLeaves DEF IInv, Release, Moves
<1>. QED BY <1>3, <1>4, <1>5, <1>6, <1>7, <1>8, <1>9, <1>10 DEF RestoreStep

(* A request that is not under way has nothing at stake.                   *)
LEMMA AtRest ==
  ASSUME \A b \in Actors : op'[b].at \in {"no", "over", "failed"}
  PROVE  /\ \A b \in Actors : Saving(b)' /\ Staged(b)'
         /\ \A p \in Patchers : Reading(p)'
         /\ \A k \in Clients : Naming(k)'
<1>1. \A b \in Actors : Saving(b)' /\ Staged(b)'
  BY DEF Saving, Staged, Rewriting
<1>2. (\A p \in Patchers : Reading(p)') /\ (\A k \in Clients : Naming(k)')
  BY DEF Reading, Naming, Actors
<1>. QED BY <1>1, <1>2

(* A crash leaves the tree, or the backup of it, wherever it strikes.      *)
LEMMA CrashStep ==
  ASSUME IInv, Crash PROVE IInv'
<1>1. TypeOK' /\ \A b \in Actors : op'[b].at \in {"no", "over", "failed"}
  BY CrashEffect DEF IInv
<1>2. Waiting' /\ Down'
  BY <1>1 DEF Crash, Waiting, Down
<1>3. up /\ ~up' /\ UNCHANGED <<root, backup, last, rolledBack>>
  BY DEF Crash
<1>4. RollsBack' /\ SavedGraphsWhole'
  <2>1. damaged' => rolledBack'
    <3>1. damaged \/ (\E b \in Actors : op[b].at \in {"clear"} \cup Rewriting) => rolledBack
      BY DEF IInv, RollsBack
    <3>2. damaged' => damaged \/ \E b \in Actors : op[b].at \in {"clear"} \cup Rewriting
      BY Zenon DEF Crash
    <3>. QED BY <1>3, <3>1, <3>2
  <2>2. \A b \in Actors : op'[b].at \notin {"back", "clear"} \cup Rewriting
    BY <1>1 DEF Rewriting
  <2>. QED BY <1>3, <2>1, <2>2 DEF IInv, RollsBack, SavedGraphsWhole
<1>5. ASSUME ~damaged'
      PROVE  root = last \/ (root = NoTree /\ backup = last)
  <2>1. /\ ~damaged
        /\ \A b \in Actors : op[b].at \notin Rewriting
                            /\ (op[b].at = "clear" => root = op[b].base)
    BY <1>5 DEF Crash
  <2>2. CASE lock \in Actors
    <3>1. op[lock].at \in Holding /\ Saving(lock)
      BY <2>1, <2>2 DEF IInv, TypeOK, Undamaged, Tidy
    <3>. QED BY <2>1, <2>2, <3>1 DEF Saving, Holding
  <2>3. CASE lock \notin Actors
    BY <1>3, <2>1, <2>3 DEF IInv, TypeOK, Undamaged, Tidy
  <2>. QED BY <2>2, <2>3
<1>6. Undamaged'
  <2>1. ~damaged' => Tidy
    BY DEF Crash, IInv, Undamaged
  <2>2. Tidy => NodesInPlace' /\ last'.meta > 0 /\ root'.meta \in {0, last'.meta}
    BY <1>3 DEF Tidy, NodesInPlace
  <2>. QED BY <1>1, <1>3, <1>5, <2>1, <2>2, AtRest DEF Undamaged, Tidy
<1>. QED BY <1>1, <1>2, <1>4, <1>6 DEF IInv

(* A restart moves the backup back if there is no tree.                    *)
LEMMA RestartStep ==
  ASSUME IInv, Restart PROVE IInv'
<1>1. TypeOK'
  BY RestartEffect DEF IInv
<1>2. /\ ~up /\ up' /\ applies' = << >>
      /\ \A b \in Actors : op'[b].at \in {"no", "over", "failed"}
  BY DEF Restart, IInv, Down
<1>3. Waiting' /\ Down'
  BY <1>2 DEF Waiting, Down
<1>4. RollsBack' /\ SavedGraphsWhole' /\ UNCHANGED <<last, damaged>>
  BY DEF Restart, IInv, RollsBack, SavedGraphsWhole, historyVars
<1>5. ~damaged => root' = last /\ last.meta > 0
  BY <1>2 DEF Restart, Recovered, IInv, Undamaged, Tidy, NoTree
<1>6. Undamaged'
  BY <1>2, <1>4, <1>5, AtRest DEF Undamaged, Tidy, NodesInPlace
<1>. QED BY <1>1, <1>3, <1>4, <1>6 DEF IInv

(* The invariant is inductive.                                             *)
LEMMA StepInvariant == IInv /\ [Next]_vars => IInv'
<1> SUFFICES ASSUME IInv, [Next]_vars PROVE IInv'
  OBVIOUS
<1>1. ASSUME NEW a \in Actors, SaveStep(a)
      PROVE  IInv'
  BY <1>1, SaveStepKeeps, PutInPlaceStep, FinishStep DEF SaveStep
<1>2. ASSUME NEW a \in Actors, TakeLock(a) \/ LockTimeout(a) \/ RestoreStep(a)
      PROVE  IInv'
  BY <1>2, TakeLockStep, OutsideStep, RestoreStepKeeps
<1>3. ASSUME NEW k \in Clients, Post(k)
      PROVE  IInv'
  BY <1>3, OutsideStep DEF Actors
<1>4. ASSUME NEW p \in Patchers, Patch(p) \/ ReadStep(p) \/ NotePatch(p)
      PROVE  IInv'
  BY <1>4, OutsideStep DEF Actors
<1>5. CASE Apply \/ Crash \/ Restart
  BY <1>5, ApplyStep, CrashStep, RestartStep
<1>6. CASE UNCHANGED vars
  BY <1>6 DEF vars, diskVars, historyVars, IInv, TypeOK, Waiting, Down, RollsBack,
              SavedGraphsWhole, Undamaged, Tidy, NodesInPlace, Saving, Staged, Patchable,
              Reading, Naming
<1>. QED BY <1>1, <1>2, <1>3, <1>4, <1>5, <1>6 DEF Next

(* The invariant holds in every reachable state.                           *)
LEMMA Invariant == Spec => []IInv
  BY InitInvariant, StepInvariant, PTL DEF Spec

(* The variables keep their types, and the lock has at most one holder,    *)
(* for any clients, patches and faults (FsGraphRepository.acquireLock).    *)
THEOREM GraphTyped == Spec => []TypeOK
<1>1. IInv => TypeOK
  BY DEF IInv
<1>. QED BY <1>1, Invariant, PTL

(* Whatever fails once, and wherever the server dies, the tree between     *)
(* saves is the one saved last (FsGraphRepository.upsert,                  *)
(* cleanupSwapArtifacts).                                                  *)
THEOREM SavedGraphSurvives == Spec => []SavedSurvives
<1>1. IInv => SavedSurvives
  BY DEF IInv, Undamaged, Tidy, SavedSurvives
<1>. QED BY <1>1, Invariant, PTL

(* What a patch reads without the lock, file by file, it saves only if     *)
(* nothing was moved between the reads, as long as no save is rolled back  *)
(* (FsGraphRepository.upsertNodeState).                                    *)
THEOREM PatchedGraphsWhole == Spec => []SavedGraphsWhole
<1>1. IInv => SavedGraphsWhole
  BY DEF IInv
<1>. QED BY <1>1, Invariant, PTL

(* A save follows the one before it, and replaces the version it names; a  *)
(* patch leaves the nodes as they are, or, when it has read them while a   *)
(* rollback was writing them back, a part of them                          *)
(* (FsGraphRepository.upsert, upsertNodeState, restoreWorkingTree).        *)
THEOREM SavesFollow == Spec => SaveFollows
<1> DEFINE Follows ==
      last' # last /\ ~damaged =>
        /\ last'.meta = last.meta + 1
        /\ \E a \in Actors :
             /\ op[a].at = "place" /\ op'[a].at = "finish"
             /\ op[a].given \in {0, last.meta}
             /\ a \in Patchers => \/ last'.nodes = last.nodes
                                  \/ rolledBack /\ last'.nodes = "some"
<1>1. IInv /\ [Next]_vars => [Follows]_vars
  <2> SUFFICES ASSUME IInv, Next, last' # last, ~damaged
               PROVE  Follows
    OBVIOUS
  <2>1. PICK a \in Actors : PutInPlace(a)
    BY DEF Next, Post, Patch, ReadStep, ReadMeta, ReadNodes, ReadEdges, ReadFails, NotePatch,
           TakeLock, LockTimeout, SaveStep, Stage, StageFails, MoveAway, MoveAwayFails,
           PutInPlaceFails, MoveBack, Finish, RestoreStep, ClearSomeNodes, ClearNodes,
           ClearEdges, WriteSomeNodes, WriteNodes, WriteEdges, WriteMeta, RestoreFails, Release, Apply, Crash, Restart,
           historyVars
  <2>2. op[a].at = "place" /\ op'[a].at = "finish" /\ last' = staging
    BY <2>1, PutInPlaceEffect DEF PutInPlace, IInv, Moves
  <2>3. Staged(a)
    BY DEF IInv, Undamaged, Tidy
  <2>. QED BY <2>2, <2>3 DEF Staged, Patchable
<1>. QED BY <1>1, Invariant, PTL DEF Spec, SaveFollows

=============================================================================
