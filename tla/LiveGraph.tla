----------------------------- MODULE LiveGraph -----------------------------
(***************************************************************************)
(* The running graph of nodes (LiveGraphRuntime): graphs are applied one   *)
(* after the other, each as the difference to the one before, while nodes  *)
(* are provisioned and deprovisioned, by an apply or through the API       *)
(* (Node.provision, Node.deprovision, GraphController.postNodeAction).     *)
(*                                                                         *)
(* A graph gives each node a template and a configuration; its edges are   *)
(* pairs of nodes, and executing one connects two instances.               *)
(***************************************************************************)
EXTENDS Naturals, FiniteSets, Sequences

CONSTANTS
  Ids,        \* identifiers of nodes
  Templates,  \* their templates
  Configs,    \* their configurations
  Graphs,     \* the graphs that may be saved
  MaxApplies, \* bound on the number of applies
  Faults,     \* what may fail
  MaxFaults   \* bound on the number of failures, each of another kind

Edges == Ids \X Ids
Graph == [template : [Ids -> Templates \cup {"none"}], config : [Ids -> Configs],
          edges : SUBSET Edges]

(* The nodes of a graph; validation refuses an edge without its nodes.     *)
Present(g) == {n \in Ids : g.template[n] # "none"}

ASSUME LiveGraphAssumption ==
  /\ "none" \notin Templates
  /\ Configs # {}
  /\ Graphs \subseteq Graph
  /\ \A g \in Graphs : g.edges \subseteq Present(g) \X Present(g)
  /\ MaxApplies \in Nat /\ MaxFaults \in Nat
  /\ Faults \subseteq {"instantiate", "config", "reversal", "edge", "provision", "deprovision"}

VARIABLES
  inst,       \* the instances made so far
  live,       \* the instance of each node, 0 if it has none
  wired,      \* connections made and not undone
  executed,   \* the records of executed edges, at most one of an edge
  known,      \* the edges noted as inbound or outbound of each node
  lastGraph,  \* the graph of the runtime
  queue,      \* graphs that wait to be applied
  phase,      \* the phase of the apply under way
  next,       \* its graph
  todo,       \* what the phase has still to go through
  links,      \* edges the apply is to add
  victim,     \* the instance whose deprovisioning it waits for, or 0
  wedged,     \* has an apply been rejected?
  \* --- history
  submitted,  \* the graph handed to apply last
  applies,    \* number of graphs handed to apply
  lost,       \* edges that went with an instance that was recreated
  slipped,    \* instances disposed of while they were being provisioned
  faults      \* the kinds of failures so far

edgeVars == <<wired, executed, known>>
applyVars == <<phase, next, todo, links, victim>>
historyVars == <<submitted, applies, lost, slipped>>
vars == <<inst, live, edgeVars, lastGraph, queue, applyVars, wedged, historyVars, faults>>

Instances == 1..Len(inst)
Numbers == 1..(MaxApplies * Cardinality(Ids))
Status == {"not_ready", "provisioning", "ready", "provisioning_error", "deprovisioning",
           "deprovisioning_error"}
Wire == [edge : Edges, from : Nat \ {0}, to : Nat \ {0}]
Empty == [template |-> [n \in Ids |-> "none"],
          config |-> [n \in Ids |-> CHOOSE c \in Configs : TRUE],
          edges |-> {}]
Phases == {"idle", "add", "recreate", "config", "unlink", "remove", "link", "provision"}

(* What a phase goes through: nodes, edges, or the instances it waits for. *)
Work == CASE phase \in {"unlink", "link"} -> Edges
          [] phase = "provision" -> Instances
          [] OTHER -> Ids

TypeOK ==
  /\ inst \in Seq([id : Ids, template : Templates, config : Configs, status : Status])
  /\ live \in [Ids -> 0..Len(inst)]
  /\ \A n \in Ids : live[n] # 0 => inst[live[n]].id = n
  /\ wired \subseteq Wire /\ executed \subseteq Wire
  /\ known \in [Ids -> SUBSET Edges]
  /\ lastGraph \in Graph /\ next \in Graph /\ submitted \in Graph
  /\ queue \in Seq(Graphs)
  /\ phase \in Phases
  /\ todo \subseteq Work
  /\ links \subseteq Edges
  /\ victim \in 0..Len(inst)
  /\ wedged \in BOOLEAN
  /\ applies \in 0..MaxApplies
  /\ lost \subseteq Edges
  /\ slipped \subseteq Instances
  /\ faults \subseteq Faults

Init ==
  /\ inst = << >> /\ live = [n \in Ids |-> 0]
  /\ wired = {} /\ executed = {} /\ known = [n \in Ids |-> {}]
  /\ lastGraph = Empty /\ queue = << >>
  /\ phase = "idle" /\ next = Empty /\ todo = {} /\ links = {} /\ victim = 0
  /\ wedged = FALSE
  /\ submitted = Empty /\ applies = 0 /\ lost = {} /\ slipped = {}
  /\ faults = {}

Fault(kind) ==
  /\ kind \in Faults \ faults
  /\ Cardinality(faults) < MaxFaults
  /\ faults' = faults \cup {kind}

-----------------------------------------------------------------------------
(* The life of an instance. *)

Pending(i) == inst[i].status \in {"provisioning", "deprovisioning"}
MayProvision(i) == ~Pending(i) /\ inst[i].status # "ready"
MayDeprovision(i) == ~Pending(i) /\ inst[i].status # "not_ready"

(* The actions of the API. *)
ProvisionNode(n) ==
  /\ live[n] # 0 /\ MayProvision(live[n])
  /\ inst' = [inst EXCEPT ![live[n]].status = "provisioning"]
  /\ UNCHANGED <<live, edgeVars, lastGraph, queue, applyVars, wedged, historyVars, faults>>

DeprovisionNode(n) ==
  /\ live[n] # 0 /\ MayDeprovision(live[n])
  /\ inst' = [inst EXCEPT ![live[n]].status = "deprovisioning"]
  /\ UNCHANGED <<live, edgeVars, lastGraph, queue, applyVars, wedged, historyVars, faults>>

ProvisionEnds(i) ==
  /\ i \in Instances /\ inst[i].status = "provisioning"
  /\ \/ inst' = [inst EXCEPT ![i].status = "ready"] /\ UNCHANGED faults
     \/ Fault("provision") /\ inst' = [inst EXCEPT ![i].status = "provisioning_error"]
  /\ todo' = IF phase = "provision" THEN todo \ {i} ELSE todo
  /\ UNCHANGED <<live, edgeVars, lastGraph, queue, phase, next, links, victim, wedged, historyVars>>

(* disposeNode goes on at once when the instance it waits for is through.  *)
DeprovisionEnds(i) ==
  /\ i \in Instances /\ inst[i].status = "deprovisioning"
  /\ \/ inst' = [inst EXCEPT ![i].status = "not_ready"] /\ UNCHANGED faults
     \/ Fault("deprovision") /\ inst' = [inst EXCEPT ![i].status = "deprovisioning_error"]
  /\ IF victim = i
       THEN /\ live' = [live EXCEPT ![inst[i].id] = 0]
            /\ known' = [known EXCEPT ![inst[i].id] = {}]
            /\ victim' = 0
       ELSE UNCHANGED <<live, known, victim>>
  /\ UNCHANGED <<wired, executed, lastGraph, queue, phase, next, todo, links, wedged, historyVars>>

-----------------------------------------------------------------------------
(* Applies are chained: the next one begins when the one before has        *)
(* ended, and is rejected when that was.                                   *)

Apply(g) ==
  /\ applies < MaxApplies
  /\ queue' = Append(queue, g)
  /\ submitted' = g /\ applies' = applies + 1
  /\ UNCHANGED <<inst, live, edgeVars, lastGraph, applyVars, wedged, lost, slipped, faults>>

Rejected ==
  /\ wedged /\ queue # << >>
  /\ queue' = Tail(queue)
  /\ UNCHANGED <<inst, live, edgeVars, lastGraph, applyVars, wedged, historyVars, faults>>

(* computeDiff. *)
Kept(g) == Present(g) \cap Present(lastGraph)
Added(g) == Present(g) \ Present(lastGraph)
Removed(g) == Present(lastGraph) \ Present(g)

(* Mutant: a template counts as changed only with the configuration. *)
Recreated_IfReconfigured(g) ==
  {n \in Kept(g) : /\ g.template[n] # lastGraph.template[n]
                   /\ g.config[n] # lastGraph.config[n]}

Recreated(g) == {n \in Kept(g) : g.template[n] # lastGraph.template[n]}

Reconfigured(g) ==
  {n \in Kept(g) \ Recreated(g) : g.config[n] # lastGraph.config[n]}

StartApply ==
  /\ phase = "idle" /\ ~wedged /\ queue # << >>
  /\ next' = Head(queue) /\ queue' = Tail(queue)
  /\ phase' = "add"
  /\ todo' = Added(next')
  /\ links' = next'.edges \ lastGraph.edges
  /\ UNCHANGED <<inst, live, edgeVars, lastGraph, victim, wedged, historyVars, faults>>

(* An error of a phase ends the apply. *)
GiveUp ==
  /\ phase' = "idle" /\ todo' = {} /\ links' = {}
  /\ wedged' = TRUE
  /\ UNCHANGED <<next, victim>>

(* instantiateNode puts the instance into the map before it is configured. *)
Instantiate(n) ==
  /\ inst' = Append(inst, [id |-> n, template |-> next.template[n], config |-> next.config[n],
                           status |-> "not_ready"])
  /\ live' = [live EXCEPT ![n] = Len(inst')]

Instantiates(n) ==
  \/ /\ Instantiate(n)
     /\ todo' = todo \ {n}
     /\ UNCHANGED <<phase, next, links, victim, wedged, faults>>
  \/ /\ Fault("instantiate")
     /\ Instantiate(n) \/ UNCHANGED <<inst, live>>
     /\ GiveUp

AddNode(n) ==
  /\ phase = "add" /\ n \in todo
  /\ Instantiates(n)
  /\ UNCHANGED <<edgeVars, lastGraph, queue, historyVars>>

(* disposeNode: the edges noted at the node are reversed, a reversal that  *)
(* fails leaves its record; then the instance is deprovisioned, which      *)
(* returns at once when it is being provisioned.                           *)
Dispose(n) ==
  LET i == live[n]
      reversed == {w \in executed : w.edge \in known[n]}
      Undo(S) == /\ wired' = wired \ S
                 /\ executed' = executed \ S
                 /\ known' = [m \in Ids |->
                                IF m = n /\ ~MayDeprovision(i) THEN {}
                                ELSE known[m] \ {w.edge : w \in S}]
  IN /\ i # 0 /\ victim = 0
     /\ \/ Undo(reversed) /\ UNCHANGED faults
        \/ Fault("reversal") /\ \E w \in reversed : Undo(reversed \ {w})
     /\ IF MayDeprovision(i)
          THEN /\ inst' = [inst EXCEPT ![i].status = "deprovisioning"]
               /\ victim' = i
               /\ UNCHANGED <<live, slipped>>
          ELSE /\ live' = [live EXCEPT ![n] = 0]
               /\ slipped' = IF inst[i].status = "provisioning" THEN slipped \cup {i} ELSE slipped
               /\ UNCHANGED <<inst, victim>>

(* A node whose template has changed is disposed of and instantiated       *)
(* again; edges that stay in the graph are not executed again.             *)
DisposeRecreated(n) ==
  /\ phase = "recreate" /\ n \in todo
  /\ Dispose(n)
  /\ lost' = lost \cup {e \in lastGraph.edges \cap next.edges : n \in {e[1], e[2]}}
  /\ UNCHANGED <<lastGraph, queue, phase, next, todo, links, wedged, submitted, applies>>

RecreateNode(n) ==
  /\ phase = "recreate" /\ n \in todo
  /\ live[n] = 0
  /\ Instantiates(n)
  /\ UNCHANGED <<edgeVars, lastGraph, queue, historyVars>>

(* A configuration that is refused is logged. *)
Configure(n) ==
  /\ phase = "config" /\ n \in todo
  /\ todo' = todo \ {n}
  /\ \/ inst' = [inst EXCEPT ![live[n]].config = next.config[n]] /\ UNCHANGED faults
     \/ Fault("config") /\ UNCHANGED inst
  /\ UNCHANGED <<live, edgeVars, lastGraph, queue, phase, next, links, victim, wedged, historyVars>>

Unlink(e) ==
  /\ phase = "unlink" /\ e \in todo
  /\ todo' = todo \ {e}
  /\ LET S == {w \in executed : w.edge = e} IN
       \/ /\ wired' = wired \ S
          /\ executed' = executed \ S
          /\ known' = IF S = {} THEN known ELSE [m \in Ids |-> known[m] \ {e}]
          /\ UNCHANGED faults
       \/ S # {} /\ Fault("reversal") /\ UNCHANGED edgeVars
  /\ lost' = lost \ {e}
  /\ UNCHANGED <<inst, live, lastGraph, queue, phase, next, links, victim, wedged, submitted,
                 applies, slipped>>

(* Mutant: a node is removed without being torn down. *)
RemoveNode_NotDisposed(n) ==
  /\ phase = "remove" /\ n \in todo
  /\ live' = [live EXCEPT ![n] = 0]
  /\ todo' = todo \ {n}
  /\ UNCHANGED <<inst, edgeVars, victim, slipped, faults, lastGraph, queue, phase, next, links,
                 wedged, submitted, applies, lost>>

RemoveNode(n) ==
  /\ phase = "remove" /\ n \in todo
  /\ IF live[n] # 0
       THEN Dispose(n) /\ UNCHANGED todo
       ELSE /\ todo' = todo \ {n}
            /\ UNCHANGED <<inst, live, edgeVars, victim, slipped, faults>>
  /\ UNCHANGED <<lastGraph, queue, phase, next, links, wedged, submitted, applies, lost>>

(* executeEdge: the method of one end is called with the other. *)
Link(e) ==
  /\ phase = "link" /\ e \in todo
  /\ LET w == [edge |-> e, from |-> live[e[1]], to |-> live[e[2]]] IN
       \/ /\ wired' = wired \cup {w}
          /\ executed' = {x \in executed : x.edge # e} \cup {w}
          /\ known' = [m \in Ids |-> IF m \in {e[1], e[2]} THEN known[m] \cup {e} ELSE known[m]]
          /\ lost' = lost \ {e}
          /\ todo' = todo \ {e}
          /\ UNCHANGED <<phase, next, links, victim, wedged, faults>>
       \/ Fault("edge") /\ GiveUp /\ UNCHANGED <<edgeVars, lost>>
  /\ UNCHANGED <<inst, live, lastGraph, queue, submitted, applies, slipped>>

(* The next phase begins when the one before is done; the graph becomes    *)
(* that of the runtime between the removal of nodes and the new edges.     *)
EnterPhase(before, after, work) ==
  /\ phase = before /\ todo = {} /\ victim = 0
  /\ phase' = after /\ todo' = work
  /\ UNCHANGED <<live, edgeVars, queue, next, links, victim, wedged, historyVars, faults>>

ToRecreate == EnterPhase("add", "recreate", Recreated(next)) /\ UNCHANGED <<inst, lastGraph>>
ToConfig == EnterPhase("recreate", "config", Reconfigured(next)) /\ UNCHANGED <<inst, lastGraph>>
ToUnlink ==
  EnterPhase("config", "unlink", lastGraph.edges \ next.edges) /\ UNCHANGED <<inst, lastGraph>>
ToRemove == EnterPhase("unlink", "remove", Removed(next)) /\ UNCHANGED <<inst, lastGraph>>
ToLink == EnterPhase("remove", "link", links) /\ lastGraph' = next /\ UNCHANGED inst

(* Every node is provisioned; those that wait already are not awaited.     *)
ToProvision ==
  LET asked == {i \in Instances : (\E n \in Ids : live[n] = i) /\ MayProvision(i)} IN
    /\ EnterPhase("link", "provision", asked)
    /\ inst' = [i \in Instances |->
                  IF i \in asked THEN [inst[i] EXCEPT !.status = "provisioning"] ELSE inst[i]]
    /\ UNCHANGED lastGraph

EndApply == EnterPhase("provision", "idle", {}) /\ UNCHANGED <<inst, lastGraph>>

-----------------------------------------------------------------------------
ApplyStep ==
  \/ StartApply \/ Rejected
  \/ \E n \in Ids : \/ AddNode(n)
                    \/ DisposeRecreated(n)
                    \/ RecreateNode(n)
                    \/ Configure(n)
                    \/ RemoveNode(n)
  \/ \E e \in Edges : Unlink(e) \/ Link(e)
  \/ ToRecreate \/ ToConfig \/ ToUnlink \/ ToRemove \/ ToLink \/ ToProvision \/ EndApply

Next ==
  \/ \E g \in Graphs : Apply(g)
  \/ ApplyStep
  \/ \E n \in Ids : ProvisionNode(n) \/ DeprovisionNode(n)
  \/ \E i \in Instances : ProvisionEnds(i) \/ DeprovisionEnds(i)

Spec == Init /\ [][Next]_vars

-----------------------------------------------------------------------------
Settled == phase = "idle" /\ ~wedged

(* Between applies the nodes are those of the graph, with its templates    *)
(* and, unless one was refused, its configurations                         *)
(* (LiveGraphRuntime._applyGraphInternal, computeDiff).                    *)
NodesMatchGraph ==
  Settled =>
    /\ \A n \in Ids : live[n] # 0 <=> n \in Present(lastGraph)
    /\ \A n \in Present(lastGraph) :
         /\ inst[live[n]].template = lastGraph.template[n]
         /\ "config" \in faults \/ inst[live[n]].config = lastGraph.config[n]

(* Between applies the instances of the graph, and no others, are          *)
(* connected as its edges say, unless a reversal failed; but the edges of  *)
(* a node that was recreated are missing (executeEdge, disposeNode).       *)
WiresMatchGraph ==
  Settled /\ "reversal" \notin faults =>
    wired = {[edge |-> e, from |-> live[e[1]], to |-> live[e[2]]] : e \in lastGraph.edges \ lost}

(* Once every apply has been taken, the graph of the runtime is the one     *)
(* handed over last (LiveGraphRuntime.apply), and what runs and what is     *)
(* connected is that graph; the work of an apply is done or given up whole. *)
LastGraphApplied == Settled /\ queue = <<>> => lastGraph = submitted
GraphRealised == TypeOK /\ LastGraphApplied /\ NodesMatchGraph /\ WiresMatchGraph

(* No instance but that of its node runs: what was disposed of has been    *)
(* stopped, unless it was just being provisioned (disposeNode,             *)
(* Node.deprovision).                                                      *)
OnlyLiveInstancesRun ==
  \A i \in Instances \ slipped :
    inst[i].status \in {"provisioning", "ready"} => live[inst[i].id] = i

=============================================================================
