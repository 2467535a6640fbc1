-------------------------- MODULE LiveGraphProofs --------------------------
(***************************************************************************)
(* Proofs about the running graph, for any nodes, templates and            *)
(* configurations, any graphs applied and any failures.                    *)
(***************************************************************************)
EXTENDS LiveGraph, SequenceTheorems, TLAPS

Inst == [id : Ids, template : Templates, config : Configs, status : Status]

InstOK ==
  /\ inst \in Seq(Inst)
  /\ live \in [Ids -> 0 .. Len(inst)]
  /\ \A n \in Ids : live[n] # 0 => inst[live[n]].id = n
  /\ victim \in 0 .. Len(inst)
  /\ slipped \subseteq Instances

\* The instance an apply waits for is still that of its node, and goes down.
VictimOK ==
  victim # 0 => /\ live[inst[victim].id] = victim
                /\ inst[victim].status = "deprovisioning"
                /\ wedged \/ (phase \in {"recreate", "remove"} /\ inst[victim].id \in todo)

GraphsOK ==
  /\ lastGraph \in Graphs \cup {Empty} /\ next \in Graphs \cup {Empty}
  /\ submitted \in Graphs \cup {Empty} /\ queue \in Seq(Graphs)
  /\ phase \in Phases /\ wedged \in BOOLEAN /\ (phase # "idle" => next \in Graphs /\ ~wedged)
  /\ applies \in 0 .. MaxApplies
  /\ faults \subseteq Faults

\* What a phase has still to go through is part of the difference.
WorkOK ==
  /\ phase = "idle" => todo = {}
  /\ phase = "add" => todo \subseteq Added(next)
  /\ phase = "recreate" => todo \subseteq Recreated(next)
  /\ phase = "config" => todo \subseteq Reconfigured(next)
  /\ phase = "unlink" => todo \subseteq lastGraph.edges \ next.edges
  /\ phase = "remove" => todo \subseteq Removed(next)
  /\ phase = "link" => todo \subseteq next.edges
  /\ phase = "provision" => todo \subseteq Instances
  /\ phase \in {"add", "recreate", "config", "unlink", "remove"} =>
       links = next.edges \ lastGraph.edges
  /\ phase \in {"link", "provision"} => lastGraph = next
  /\ links \subseteq Edges /\ lost \subseteq Edges

\* The node has an instance, of the template and the configuration of a graph.
Made(n, g) ==
  /\ live[n] # 0
  /\ inst[live[n]].template = g.template[n]
  /\ "config" \in faults \/ inst[live[n]].config = g.config[n]

\* How far the nodes are on the way from one graph to the next.
NodeOK(n) ==
  /\ phase \in {"idle", "link", "provision"} =>
       IF n \in Present(lastGraph) THEN Made(n, lastGraph) ELSE live[n] = 0
  /\ phase = "add" =>
       IF n \in Present(lastGraph) THEN Made(n, lastGraph)
       ELSE IF n \in Present(next) \ todo THEN Made(n, next) ELSE live[n] = 0
  /\ phase = "recreate" =>
       IF n \in Present(next) /\ (n \notin Present(lastGraph) \/ n \in Recreated(next) \ todo)
       THEN Made(n, next)
       ELSE IF n \in Present(lastGraph) THEN Made(n, lastGraph) \/ (n \in todo /\ live[n] = 0)
       ELSE live[n] = 0
  /\ phase = "config" =>
       IF n \in Present(next)
       THEN /\ live[n] # 0 /\ inst[live[n]].template = next.template[n]
            /\ n \in todo \/ Made(n, next)
       ELSE n \in Present(lastGraph) \/ live[n] = 0
  /\ phase = "unlink" =>
       IF n \in Present(next) THEN Made(n, next) ELSE n \in Present(lastGraph) \/ live[n] = 0
  /\ phase = "remove" =>
       IF n \in Present(next) THEN Made(n, next) ELSE n \in todo \/ live[n] = 0

NodesOK == ~wedged => \A n \in Ids : NodeOK(n)

\* The graph handed over last is the last of the queue, or that of the apply.
QueueOK ==
  ~wedged =>
    /\ queue # <<>> => submitted = queue[Len(queue)]
    /\ queue = <<>> => submitted = IF phase \in {"idle", "link", "provision"} THEN lastGraph ELSE next

\* A record of an edge fits the instances, and both ends have noted it.
WireOK(w) ==
  /\ w.from = live[w.edge[1]] /\ w.to = live[w.edge[2]]
  /\ victim \notin {w.from, w.to}
  /\ w.edge \in known[w.edge[1]] /\ w.edge \in known[w.edge[2]]

Linked == {w.edge : w \in executed}

\* The edges that are connected, on the way from one graph to the next.
LinkedOK ==
  /\ phase \in {"idle", "add", "provision"} => Linked = lastGraph.edges \ lost
  /\ phase \in {"recreate", "config", "unlink", "remove"} =>
       /\ Linked \cap next.edges = (lastGraph.edges \cap next.edges) \ lost
       /\ Linked \subseteq lastGraph.edges
  /\ phase = "unlink" => Linked \subseteq next.edges \cup todo
  /\ phase = "remove" => Linked \subseteq next.edges
  /\ phase = "link" => Linked = (lastGraph.edges \ todo) \ lost

WiresOK ==
  /\ wired \subseteq Wire /\ executed \subseteq Wire
  /\ known \in [Ids -> SUBSET Edges]
  /\ ~wedged /\ "reversal" \notin faults =>
       /\ wired = executed
       /\ \A w \in executed : WireOK(w)
       /\ \A n \in Ids : \A e \in known[n] : n \in {e[1], e[2]}
       /\ LinkedOK

LiveInv ==
  /\ InstOK /\ VictimOK /\ OnlyLiveInstancesRun
  /\ GraphsOK /\ WorkOK /\ NodesOK /\ QueueOK /\ WiresOK

-----------------------------------------------------------------------------
(***************************************************************************)
(* What is left as it was.                                                 *)
(***************************************************************************)

\* The graphs, and the queue of those to come.
GraphsSame == UNCHANGED <<lastGraph, next, submitted, queue, phase, wedged, applies>>

\* The instances that were there keep their nodes, templates and configurations.
InstKept ==
  /\ inst' \in Seq(Inst) /\ Len(inst) <= Len(inst')
  /\ \A i \in Instances : /\ inst'[i].id = inst[i].id /\ inst'[i].template = inst[i].template
                          /\ inst'[i].config = inst[i].config

\* The instances made so far, by their numbers.
LEMMA InstLen ==
  ASSUME InstOK
  PROVE  /\ Len(inst) \in Nat /\ DOMAIN inst = Instances /\ Instances = 1 .. Len(inst)
         /\ \A i \in Instances : inst[i] \in Inst
BY LenProperties DEF InstOK, Instances

\* A step that leaves the graphs alone.
LEMMA GraphsFrame ==
  ASSUME GraphsOK, GraphsSame, faults' \subseteq Faults
  PROVE  GraphsOK'
BY DEF GraphsOK, GraphsSame

\* A step that leaves the work of the phase alone.
LEMMA WorkFrame ==
  ASSUME WorkOK, UNCHANGED <<phase, todo, links, lastGraph, next>>, Instances \subseteq Instances',
         lost' \subseteq Edges
  PROVE  WorkOK'
BY DEF WorkOK, Added, Recreated, Reconfigured, Removed, Kept, Present

\* A step that leaves the graphs and the queue alone.
LEMMA QueueFrame ==
  ASSUME QueueOK, GraphsSame
  PROVE  QueueOK'
BY DEF QueueOK, GraphsSame

\* A node whose instance is the same.
LEMMA MadeFrame ==
  ASSUME InstOK, InstKept, NEW n \in Ids, NEW g, Made(n, g), live'[n] = live[n], faults \subseteq faults'
  PROVE  /\ live'[n] # 0 /\ inst'[live'[n]].template = g.template[n]
         /\ "config" \in faults' \/ inst'[live'[n]].config = g.config[n]
<1>1. live[n] \in Instances
  BY InstLen DEF InstOK, Made, Instances
<1> QED
  BY <1>1 DEF Made, InstKept

\* A node that a step of a phase does not treat.
LEMMA NodeFrame ==
  ASSUME InstOK, InstKept, NEW n \in Ids, NodeOK(n), live'[n] = live[n], faults \subseteq faults',
         UNCHANGED <<phase, lastGraph, next>>, n \in todo' <=> n \in todo
  PROVE  NodeOK(n)'
<1>1. /\ Present(lastGraph)' = Present(lastGraph) /\ Present(next)' = Present(next)
      /\ Recreated(next)' = Recreated(next)
  BY DEF Present, Recreated, Kept
<1>2. Made(n, lastGraph) => Made(n, lastGraph)'
  BY MadeFrame DEF Made
<1>3. Made(n, next) => Made(n, next)'
  BY MadeFrame DEF Made
<1>4. live[n] # 0 => inst'[live[n]].template = inst[live[n]].template
  <2>1. live[n] # 0 => live[n] \in Instances
    BY InstLen DEF InstOK, Instances
  <2> QED
    BY <2>1 DEF InstKept
<1>5. phase \in {"idle", "link", "provision", "add", "recreate"} => NodeOK(n)'
  BY <1>1, <1>2, <1>3 DEF NodeOK
<1>6. phase = "config" => NodeOK(n)'
  BY <1>1, <1>3, <1>4 DEF NodeOK
<1>7. phase \in {"unlink", "remove"} => NodeOK(n)'
  BY <1>1, <1>3 DEF NodeOK
<1>8. phase \notin {"idle", "link", "provision", "add", "recreate", "config", "unlink", "remove"} => NodeOK(n)'
  BY DEF NodeOK
<1> QED
  BY <1>5, <1>6, <1>7, <1>8

\* A step that treats no node.
LEMMA NodesFrame ==
  ASSUME InstOK, InstKept, NodesOK, faults \subseteq faults',
         UNCHANGED <<live, phase, lastGraph, next, wedged, todo>>
  PROVE  NodesOK'
BY NodeFrame DEF NodesOK

\* A step that leaves the connections alone.
LEMMA WiresFrame ==
  ASSUME WiresOK, UNCHANGED <<edgeVars, live, victim, lastGraph, next, phase, todo, lost, wedged>>,
         faults \subseteq faults'
  PROVE  WiresOK'
BY DEF WiresOK, edgeVars, WireOK, LinkedOK, Linked

\* An apply that ends with an error leaves no more to say than the types.
LEMMA GivenUp ==
  ASSUME GraphsOK, WorkOK, WiresOK, GiveUp, UNCHANGED <<lastGraph, submitted, queue, applies, lost, edgeVars>>,
         faults' \subseteq Faults
  PROVE  GraphsOK' /\ WorkOK' /\ NodesOK' /\ QueueOK' /\ WiresOK'
<1>1. GraphsOK'
  BY DEF GraphsOK, GiveUp, Phases
<1>2. WorkOK'
  BY DEF WorkOK, GiveUp
<1>3. NodesOK' /\ QueueOK'
  BY DEF NodesOK, QueueOK, GiveUp
<1>4. WiresOK'
  BY DEF WiresOK, GiveUp, edgeVars
<1> QED
  BY <1>1, <1>2, <1>3, <1>4

-----------------------------------------------------------------------------
(***************************************************************************)
(* The life of an instance.                                                *)
(***************************************************************************)

\* A change of the status of one instance.
LEMMA SetStatus ==
  ASSUME InstOK, NEW i \in Instances, NEW s \in Status, inst' = [inst EXCEPT ![i].status = s]
  PROVE  /\ InstKept /\ Len(inst') = Len(inst) /\ Instances' = Instances
         /\ inst'[i].status = s
         /\ \A j \in Instances \ {i} : inst'[j] = inst[j]
<1>1. /\ Len(inst) \in Nat /\ DOMAIN inst = 1 .. Len(inst) /\ Instances = 1 .. Len(inst)
      /\ \A j \in 1 .. Len(inst) : inst[j] \in Inst
  BY InstLen
<1>2. PICK x \in Inst : x = inst[i]
  BY <1>1
<1>3. PICK y : y = [x EXCEPT !.status = s]
  OBVIOUS
<1>4. /\ y \in Inst /\ y.status = s /\ y.id = x.id /\ y.template = x.template /\ y.config = x.config
  BY <1>3 DEF Inst
<1>5. inst' = [inst EXCEPT ![i] = y]
  BY <1>2, <1>3
<1>6. DOMAIN inst' = 1 .. Len(inst) /\ inst'[i] = y /\ \A j \in (1 .. Len(inst)) \ {i} : inst'[j] = inst[j]
  BY <1>1, <1>5
<1>7. inst' \in Seq(Inst) /\ Len(inst') = Len(inst)
  <2>1. inst \in Seq(Inst) /\ i \in 1 .. Len(inst)
    BY <1>1 DEF InstOK
  <2> QED
    BY <1>4, <1>5, <2>1, ExceptSeq
<1> QED
  BY <1>1, <1>2, <1>4, <1>6, <1>7 DEF InstKept, Instances

\* Instances that are neither made nor disposed of.
LEMMA InstFrame ==
  ASSUME InstOK, InstKept, Len(inst') = Len(inst), UNCHANGED <<live, victim, slipped>>
  PROVE  InstOK'
<1>1. Instances' = Instances /\ Instances = 1 .. Len(inst)
  BY DEF Instances
<1>2. \A n \in Ids : live[n] # 0 => live[n] \in Instances
  BY InstLen DEF InstOK
<1> QED
  BY <1>1, <1>2 DEF InstOK, InstKept

\* A change of the status of an instance nobody waits for.
LEMMA StatusStep ==
  ASSUME LiveInv, NEW i \in Instances, NEW s \in Status, inst' = [inst EXCEPT ![i].status = s],
         i # victim,
         s \in {"provisioning", "ready"} =>
           live[inst[i].id] = i \/ inst[i].status \in {"provisioning", "ready"},
         UNCHANGED <<live, edgeVars, lastGraph, queue, phase, next, links, victim, wedged, historyVars>>,
         todo' = todo \/ (phase = "provision" /\ todo' \subseteq todo),
         faults \subseteq faults', faults' \subseteq Faults
  PROVE  LiveInv'
<1> USE DEF LiveInv
<1>0. UNCHANGED <<wired, executed, known, submitted, applies, lost, slipped>>
  BY DEF edgeVars, historyVars
<1>1. /\ InstKept /\ Len(inst') = Len(inst) /\ Instances' = Instances /\ inst'[i].status = s
      /\ \A j \in Instances \ {i} : inst'[j] = inst[j]
  BY SetStatus
<1>2. InstOK'
  BY <1>0, <1>1, InstFrame
<1>3. VictimOK'
  <2>1. victim # 0 => victim \in Instances \ {i}
    BY InstLen DEF InstOK
  <2> QED
    BY <1>0, <1>1, <2>1 DEF VictimOK
<1>4. OnlyLiveInstancesRun'
  <2> SUFFICES ASSUME NEW j \in Instances \ slipped, inst'[j].status \in {"provisioning", "ready"}
               PROVE  live[inst'[j].id] = j
    BY <1>0, <1>1 DEF OnlyLiveInstancesRun
  <2>1. inst'[j].id = inst[j].id
    BY <1>1 DEF InstKept
  <2>2. CASE j = i
    BY <1>1, <2>1, <2>2 DEF OnlyLiveInstancesRun
  <2>3. CASE j # i
    BY <1>1, <2>1, <2>3 DEF OnlyLiveInstancesRun
  <2> QED
    BY <2>2, <2>3
<1>5. GraphsOK' /\ QueueOK'
  BY <1>0, GraphsFrame, QueueFrame DEF GraphsSame
<1>6. WorkOK'
  <2>1. CASE todo' = todo
    BY <1>0, <1>1, <2>1, WorkFrame DEF WorkOK
  <2>2. CASE phase = "provision" /\ todo' \subseteq todo
    BY <1>0, <1>1, <2>2 DEF WorkOK
  <2> QED
    BY <2>1, <2>2
<1>7. NodesOK'
  <2>1. CASE todo' = todo
    BY <1>0, <1>1, <2>1, NodesFrame
  <2>2. CASE phase = "provision" /\ todo' \subseteq todo
    <3> SUFFICES ASSUME ~wedged, NEW n \in Ids PROVE NodeOK(n)'
      BY <1>0 DEF NodesOK
    <3>1. Present(lastGraph)' = Present(lastGraph)
      BY DEF Present
    <3>2. Made(n, lastGraph) => Made(n, lastGraph)'
      BY <1>1, MadeFrame DEF Made
    <3> QED
      BY <3>1, <3>2, <2>2 DEF NodesOK, NodeOK
  <2> QED
    BY <2>1, <2>2
<1>8. WiresOK'
  <2>1. CASE todo' = todo
    BY <1>0, <2>1, WiresFrame
  <2>2. CASE phase = "provision" /\ todo' \subseteq todo
    BY <1>0, <2>2 DEF WiresOK, WireOK, LinkedOK, Linked
  <2> QED
    BY <2>1, <2>2
<1> QED
  BY <1>2, <1>3, <1>4, <1>5, <1>6, <1>7, <1>8

\* The actions of the API.
LEMMA NodeActions ==
  ASSUME LiveInv, NEW n \in Ids, ProvisionNode(n) \/ DeprovisionNode(n)
  PROVE  LiveInv'
<1> DEFINE i == live[n]
<1>1. i \in Instances /\ inst[i].id = n /\ ~Pending(i)
  BY InstLen DEF LiveInv, InstOK, ProvisionNode, DeprovisionNode, MayProvision, MayDeprovision
<1>2. i # victim
  BY <1>1 DEF LiveInv, VictimOK, Pending, InstOK, Instances
<1>3. UNCHANGED <<live, edgeVars, lastGraph, queue, phase, next, links, victim, wedged, historyVars, todo, faults>>
  BY DEF ProvisionNode, DeprovisionNode, applyVars
<1>4. faults' \subseteq Faults /\ faults \subseteq faults'
  BY <1>3 DEF LiveInv, GraphsOK
<1>5. CASE inst' = [inst EXCEPT ![i].status = "provisioning"]
  BY <1>1, <1>2, <1>3, <1>4, <1>5, StatusStep DEF Status
<1>6. CASE inst' = [inst EXCEPT ![i].status = "deprovisioning"]
  BY <1>1, <1>2, <1>3, <1>4, <1>6, StatusStep DEF Status
<1> QED
  BY <1>5, <1>6 DEF ProvisionNode, DeprovisionNode

\* An instance is provisioned, or fails to be.
LEMMA Provisioned ==
  ASSUME LiveInv, NEW i \in Instances, ProvisionEnds(i)
  PROVE  LiveInv'
<1>2. i # victim
  BY InstLen DEF LiveInv, VictimOK, ProvisionEnds, InstOK, Instances
<1>3. UNCHANGED <<live, edgeVars, lastGraph, queue, phase, next, links, victim, wedged, historyVars>>
  BY DEF ProvisionEnds
<1>4. faults' \subseteq Faults /\ faults \subseteq faults'
  BY DEF LiveInv, GraphsOK, ProvisionEnds, Fault
<1>5. todo' = todo \/ (phase = "provision" /\ todo' \subseteq todo)
  BY DEF ProvisionEnds
<1>6. inst[i].status = "provisioning"
  BY DEF ProvisionEnds
<1>7. CASE inst' = [inst EXCEPT ![i].status = "ready"]
  BY <1>2, <1>3, <1>4, <1>5, <1>6, <1>7, StatusStep DEF Status
<1>8. CASE inst' = [inst EXCEPT ![i].status = "provisioning_error"]
  BY <1>2, <1>3, <1>4, <1>5, <1>6, <1>8, StatusStep DEF Status
<1> QED
  BY <1>7, <1>8 DEF ProvisionEnds

\* disposeNode goes on when the instance it waits for is through.
LEMMA Deprovisioned ==
  ASSUME LiveInv, NEW i \in Instances, DeprovisionEnds(i)
  PROVE  LiveInv'
<1>3. UNCHANGED <<wired, executed, lastGraph, queue, phase, next, todo, links, wedged, historyVars>>
  BY DEF DeprovisionEnds
<1>4. faults' \subseteq Faults /\ faults \subseteq faults'
  BY DEF LiveInv, GraphsOK, DeprovisionEnds, Fault
<1>5. PICK s \in {"not_ready", "deprovisioning_error"} : inst' = [inst EXCEPT ![i].status = s]
  BY DEF DeprovisionEnds
<1>6. CASE victim # i
  <2>1. UNCHANGED <<live, edgeVars, victim>>
    BY <1>3, <1>6 DEF DeprovisionEnds, edgeVars
  <2> QED
    BY <1>3, <1>4, <1>5, <1>6, <2>1, StatusStep DEF Status
<1>7. CASE victim = i
  <2> USE DEF LiveInv
  <2> DEFINE n == inst[i].id
  <2>0. /\ live' = [live EXCEPT ![n] = 0] /\ known' = [known EXCEPT ![n] = {}] /\ victim' = 0
        /\ UNCHANGED <<submitted, applies, lost, slipped>>
    BY <1>3, <1>7 DEF DeprovisionEnds, historyVars
  <2>1. /\ InstKept /\ Len(inst') = Len(inst) /\ Instances' = Instances /\ inst'[i].status = s
        /\ \A j \in Instances \ {i} : inst'[j] = inst[j]
    BY <1>5, SetStatus DEF Status
  <2>2. /\ Len(inst) \in Nat /\ DOMAIN inst = Instances /\ Instances = 1 .. Len(inst)
        /\ \A j \in Instances : inst[j] \in Inst
    BY InstLen
  <2>2a. n \in Ids /\ i # 0
    BY <2>2 DEF Inst
  <2>2b. live[n] = i /\ (wedged \/ (phase \in {"recreate", "remove"} /\ n \in todo))
    BY <1>7, <2>2a DEF VictimOK
  <2>2c. live'[n] = 0 /\ \A m \in Ids \ {n} : live'[m] = live[m]
    BY <2>0, <2>2a DEF InstOK
  <2> HIDE DEF n
  <2>3. InstOK'
    <3>1. live' \in [Ids -> 0 .. Len(inst')] /\ victim' \in 0 .. Len(inst')
      BY <2>0, <2>1, <2>2, <2>2a DEF InstOK
    <3>2. ASSUME NEW m \in Ids, live'[m] # 0 PROVE inst'[live'[m]].id = m
      <4>1. live'[m] = live[m] /\ live[m] \in Instances
        BY <3>2, <2>2, <2>2c DEF InstOK
      <4> QED
        BY <4>1, <2>1, <3>2 DEF InstOK, InstKept
    <3> QED
      BY <3>1, <3>2, <2>0, <2>1 DEF InstOK, InstKept
  <2>4. VictimOK'
    BY <2>0 DEF VictimOK
  <2>5. OnlyLiveInstancesRun'
    <3> SUFFICES ASSUME NEW j \in Instances \ slipped, inst'[j].status \in {"provisioning", "ready"}
                 PROVE  live'[inst'[j].id] = j
      BY <2>0, <2>1 DEF OnlyLiveInstancesRun
    <3>1. j # i
      BY <2>1
    <3>2. inst'[j] = inst[j] /\ live[inst[j].id] = j
      BY <3>1, <2>1 DEF OnlyLiveInstancesRun
    <3>3. inst[j].id \in Ids /\ inst[j].id # n
      BY <3>1, <3>2, <2>2, <2>2b DEF Inst
    <3> QED
      BY <3>2, <3>3, <2>2c
  <2>6. GraphsOK' /\ QueueOK'
    BY <2>0, <1>3, <1>4, GraphsFrame, QueueFrame DEF GraphsSame
  <2>7. WorkOK'
    BY <2>0, <2>1, <1>3, WorkFrame DEF WorkOK
  <2>8. NodesOK'
    <3> SUFFICES ASSUME ~wedged, NEW m \in Ids PROVE NodeOK(m)'
      BY <1>3 DEF NodesOK
    <3>1. CASE m # n
      BY <3>1, <2>1, <2>2c, <1>3, <1>4, NodeFrame DEF NodesOK
    <3>2. CASE m = n
      <4>1. CASE phase = "recreate"
        <5>1. n \in Recreated(next)
          BY <2>2b, <4>1 DEF WorkOK
        <5>2. n \in Present(lastGraph) /\ n \in todo
          BY <5>1, <2>2b DEF Recreated, Kept
        <5>3. Present(lastGraph)' = Present(lastGraph) /\ todo' = todo /\ phase' = phase
          BY <1>3 DEF Present
        <5> QED
          BY <3>2, <4>1, <5>2, <5>3, <2>2c DEF NodeOK
      <4>2. CASE phase = "remove"
        <5>1. n \in Removed(next)
          BY <2>2b, <4>2 DEF WorkOK
        <5>2. n \notin Present(next) /\ Present(next)' = Present(next) /\ phase' = phase
          BY <5>1, <1>3 DEF Removed, Present
        <5> QED
          BY <3>2, <4>2, <5>2, <2>2c DEF NodeOK
      <4> QED
        BY <4>1, <4>2, <2>2b
    <3> QED
      BY <3>1, <3>2
  <2>9. WiresOK'
    <3>1. wired' \subseteq Wire /\ executed' \subseteq Wire /\ known' \in [Ids -> SUBSET Edges]
      BY <1>3, <2>0, <2>2a DEF WiresOK
    <3>2. ASSUME ~wedged, "reversal" \notin faults'
          PROVE  /\ wired = executed /\ LinkedOK /\ \A w \in executed : WireOK(w)
                 /\ \A m \in Ids : \A e \in known[m] : m \in {e[1], e[2]}
      BY <3>2, <1>4 DEF WiresOK
    <3>3. LinkedOK => LinkedOK'
      BY <1>3, <2>0 DEF LinkedOK, Linked
    <3>4. ASSUME NEW w \in executed, WireOK(w) PROVE WireOK(w)'
      <4>0. w \in Wire /\ w.edge[1] \in Ids /\ w.edge[2] \in Ids /\ w.from # 0 /\ w.to # 0
        BY DEF WiresOK, Wire, Edges
      <4>1. w.edge[1] # n /\ w.edge[2] # n
        BY <3>4, <2>2b, <1>7 DEF WireOK
      <4>2. known'[w.edge[1]] = known[w.edge[1]] /\ known'[w.edge[2]] = known[w.edge[2]]
        BY <4>0, <4>1, <2>0 DEF WiresOK
      <4> QED
        BY <3>4, <4>0, <4>1, <4>2, <2>0, <2>2c DEF WireOK
    <3>5. \A m \in Ids : known'[m] \subseteq known[m]
      BY <2>0, <2>2a DEF WiresOK
    <3> QED
      BY <1>3, <3>1, <3>2, <3>3, <3>4, <3>5 DEF WiresOK
  <2> QED
    BY <2>3, <2>4, <2>5, <2>6, <2>7, <2>8, <2>9
<1> QED
  BY <1>6, <1>7

-----------------------------------------------------------------------------
(***************************************************************************)
(* Applies begin and go from phase to phase.                               *)
(***************************************************************************)

\* The instances are the same.
LEMMA InstSame ==
  ASSUME InstOK, UNCHANGED <<inst, live, victim, slipped>>
  PROVE  InstOK' /\ InstKept /\ Instances' = Instances
<1>1. InstKept /\ Instances' = Instances
  BY InstLen DEF InstOK, InstKept, Instances
<1> QED
  BY <1>1, InstFrame

\* And so are those that run.
LEMMA OnlyLiveSame ==
  ASSUME OnlyLiveInstancesRun, UNCHANGED <<inst, live, slipped>>
  PROVE  OnlyLiveInstancesRun'
BY DEF OnlyLiveInstancesRun, Instances

\* A graph is handed over.
LEMMA Applied ==
  ASSUME LiveInv, NEW g \in Graphs, Apply(g)
  PROVE  LiveInv'
<1> USE DEF LiveInv
<1>1. /\ UNCHANGED <<inst, live, edgeVars, lastGraph, wedged, lost, slipped, faults>>
      /\ UNCHANGED <<phase, next, todo, links, victim>>
      /\ applies < MaxApplies /\ applies' = applies + 1
      /\ queue' = Append(queue, g) /\ submitted' = g
  BY DEF Apply, applyVars
<1>2. /\ queue' \in Seq(Graphs) /\ queue' # <<>> /\ queue'[Len(queue')] = g
  BY <1>1, AppendProperties, LenProperties DEF GraphsOK
<1>3. InstOK' /\ InstKept /\ Instances' = Instances
  BY <1>1, InstSame
<1>4. VictimOK'
  BY <1>1 DEF VictimOK
<1>5. OnlyLiveInstancesRun'
  BY <1>1, OnlyLiveSame
<1>6. GraphsOK'
  BY <1>1, <1>2, LiveGraphAssumption DEF GraphsOK
<1>7. WorkOK'
  BY <1>1, <1>3, WorkFrame DEF WorkOK
<1>8. NodesOK'
  BY <1>1, <1>3, NodesFrame
<1>9. QueueOK'
  BY <1>1, <1>2 DEF QueueOK
<1>10. WiresOK'
  BY <1>1, WiresFrame
<1> QED
  BY <1>3, <1>4, <1>5, <1>6, <1>7, <1>8, <1>9, <1>10

\* What remains of a queue.
LEMMA QueueTail ==
  ASSUME NEW q \in Seq(Graphs), q # <<>>
  PROVE  /\ Head(q) \in Graphs /\ Tail(q) \in Seq(Graphs)
         /\ Tail(q) # <<>> => Tail(q)[Len(Tail(q))] = q[Len(q)]
         /\ Tail(q) = <<>> => Head(q) = q[Len(q)]
<1>1. /\ Head(q) = q[1] /\ Tail(q) \in Seq(Graphs) /\ Len(Tail(q)) = Len(q) - 1
      /\ \A i \in 1 .. Len(Tail(q)) : Tail(q)[i] = q[i + 1]
  BY HeadTailProperties
<1>2. Len(q) \in Nat \ {0} /\ \A i \in 1 .. Len(q) : q[i] \in Graphs
  BY EmptySeq, LenProperties, ElementOfSeq
<1>3. ASSUME Tail(q) # <<>> PROVE Tail(q)[Len(Tail(q))] = q[Len(q)]
  <2>1. Len(Tail(q)) \in 1 .. Len(Tail(q))
    BY <1>1, <1>3, EmptySeq, LenProperties
  <2> QED
    BY <1>1, <1>2, <2>1
<1>4. ASSUME Tail(q) = <<>> PROVE Len(q) = 1
  <2>1. Len(Tail(q)) = 0
    BY <1>4, EmptySeq
  <2>2. Len(Tail(q)) = Len(q) - 1 /\ Len(q) \in Nat
    BY <1>1, <1>2
  <2> QED
    BY <2>1, <2>2
<1> QED
  BY <1>1, <1>2, <1>3, <1>4

\* Once one has been rejected, so are those that wait.
LEMMA RejectedOne ==
  ASSUME LiveInv, Rejected
  PROVE  LiveInv'
<1> USE DEF LiveInv
<1>1. /\ UNCHANGED <<inst, live, edgeVars, lastGraph, wedged, submitted, applies, lost, slipped, faults>>
      /\ UNCHANGED <<phase, next, todo, links, victim>>
      /\ wedged /\ queue # <<>> /\ queue' = Tail(queue)
  BY DEF Rejected, applyVars, historyVars
<1>2. InstOK' /\ InstKept /\ Instances' = Instances
  BY <1>1, InstSame
<1>3. VictimOK'
  BY <1>1 DEF VictimOK
<1>4. OnlyLiveInstancesRun'
  BY <1>1, OnlyLiveSame
<1>5. GraphsOK'
  BY <1>1, QueueTail DEF GraphsOK
<1>6. WorkOK'
  BY <1>1, <1>2, WorkFrame DEF WorkOK
<1>7. NodesOK' /\ QueueOK'
  BY <1>1 DEF NodesOK, QueueOK
<1>8. WiresOK'
  BY <1>1, WiresFrame
<1> QED
  BY <1>2, <1>3, <1>4, <1>5, <1>6, <1>7, <1>8

\* The next graph of the queue is taken up.
LEMMA Started ==
  ASSUME LiveInv, StartApply
  PROVE  LiveInv'
<1> USE DEF LiveInv
<1>1. /\ UNCHANGED <<inst, live, edgeVars, wired, executed, known, lastGraph, victim, wedged>>
      /\ UNCHANGED <<submitted, applies, lost, slipped, faults>>
      /\ phase = "idle" /\ ~wedged /\ queue # <<>>
      /\ next' = Head(queue) /\ queue' = Tail(queue) /\ phase' = "add"
      /\ todo' = Added(next') /\ links' = next'.edges \ lastGraph.edges
  BY DEF StartApply, historyVars, edgeVars
<1>2. /\ next' \in Graphs /\ queue' \in Seq(Graphs)
      /\ queue' # <<>> => queue'[Len(queue')] = queue[Len(queue)]
      /\ queue' = <<>> => next' = queue[Len(queue)]
  BY <1>1, QueueTail DEF GraphsOK
<1>3. InstOK' /\ InstKept /\ Instances' = Instances
  BY <1>1, InstSame
<1>4. victim = 0 /\ VictimOK'
  BY <1>1 DEF VictimOK
<1>5. OnlyLiveInstancesRun'
  BY <1>1, OnlyLiveSame
<1>6. GraphsOK'
  BY <1>1, <1>2 DEF GraphsOK, Phases
<1>7. WorkOK'
  <2>1. next'.edges \subseteq Edges
    BY <1>2, LiveGraphAssumption DEF Graph
  <2> QED
    BY <1>1, <2>1 DEF WorkOK, Added, Present
<1>8. NodesOK'
  <2> SUFFICES ASSUME NEW n \in Ids PROVE NodeOK(n)'
    BY DEF NodesOK
  <2>1. /\ IF n \in Present(lastGraph) THEN Made(n, lastGraph) ELSE live[n] = 0
        /\ Present(lastGraph)' = Present(lastGraph)
    BY <1>1 DEF NodesOK, NodeOK, Present
  <2>2. n \notin Present(lastGraph) => n \notin Present(next)' \ todo'
    BY <1>1 DEF Added, Present
  <2> QED
    BY <1>1, <2>1, <2>2 DEF NodeOK, Made
<1>9. QueueOK'
  BY <1>1, <1>2 DEF QueueOK
<1>10. WiresOK'
  BY <1>1 DEF WiresOK, WireOK, LinkedOK, Linked
<1> QED
  BY <1>3, <1>4, <1>5, <1>6, <1>7, <1>8, <1>9, <1>10

\* What the next phase finds as it was.
LEMMA EnterFrame ==
  ASSUME LiveInv, NEW before, NEW after \in Phases, NEW work, EnterPhase(before, after, work),
         before # "idle", UNCHANGED inst, lastGraph' \in {lastGraph, next}
  PROVE  /\ InstOK' /\ VictimOK' /\ OnlyLiveInstancesRun' /\ GraphsOK'
         /\ Instances' = Instances /\ next \in Graphs
         /\ ~wedged /\ phase = before /\ phase' = after /\ todo = {} /\ todo' = work
         /\ UNCHANGED <<inst, live, wired, executed, known, queue, next, links, victim, wedged>>
         /\ UNCHANGED <<submitted, applies, lost, slipped, faults>>
<1> USE DEF LiveInv
<1>1. /\ phase = before /\ phase' = after /\ todo = {} /\ todo' = work /\ victim = 0
      /\ UNCHANGED <<inst, live, wired, executed, known, queue, next, links, victim, wedged>>
      /\ UNCHANGED <<submitted, applies, lost, slipped, faults>>
  BY DEF EnterPhase, edgeVars, historyVars
<1>2. next \in Graphs /\ ~wedged
  BY <1>1 DEF GraphsOK
<1>3. InstOK' /\ Instances' = Instances
  BY <1>1, InstSame
<1>4. VictimOK'
  BY <1>1 DEF VictimOK
<1>5. OnlyLiveInstancesRun'
  BY <1>1, OnlyLiveSame
<1>6. GraphsOK'
  BY <1>1, <1>2 DEF GraphsOK
<1> QED
  BY <1>1, <1>2, <1>3, <1>4, <1>5, <1>6

\* The difference depends on the graphs alone.
LEMMA GraphSame ==
  ASSUME UNCHANGED <<next, lastGraph>>
  PROVE  /\ Present(lastGraph)' = Present(lastGraph) /\ Present(next)' = Present(next)
         /\ Added(next)' = Added(next) /\ Recreated(next)' = Recreated(next)
         /\ Reconfigured(next)' = Reconfigured(next) /\ Removed(next)' = Removed(next)
BY DEF Present, Added, Recreated, Reconfigured, Removed, Kept

\* From the nodes that are new to those that are made again.
LEMMA Recreates ==
  ASSUME LiveInv, ToRecreate
  PROVE  LiveInv'
<1> USE DEF LiveInv
<1>1. EnterPhase("add", "recreate", Recreated(next)) /\ UNCHANGED <<inst, lastGraph>>
  BY DEF ToRecreate
<1>2. /\ InstOK' /\ VictimOK' /\ OnlyLiveInstancesRun' /\ GraphsOK'
      /\ Instances' = Instances /\ next \in Graphs
      /\ ~wedged /\ phase = "add" /\ phase' = "recreate" /\ todo = {} /\ todo' = Recreated(next)
      /\ UNCHANGED <<inst, live, wired, executed, known, queue, next, links, victim, wedged>>
      /\ UNCHANGED <<submitted, applies, lost, slipped, faults>>
  BY <1>1, EnterFrame DEF Phases
<1>3. /\ Present(lastGraph)' = Present(lastGraph) /\ Present(next)' = Present(next)
      /\ Recreated(next)' = Recreated(next)
  BY <1>1, <1>2, GraphSame
<1>4. WorkOK'
  BY <1>1, <1>2, <1>3 DEF WorkOK
<1>5. NodesOK'
  <2> SUFFICES ASSUME NEW n \in Ids PROVE NodeOK(n)'
    BY DEF NodesOK
  <2>1. IF n \in Present(lastGraph) THEN Made(n, lastGraph)
        ELSE IF n \in Present(next) THEN Made(n, next) ELSE live[n] = 0
    BY <1>2 DEF NodesOK, NodeOK
  <2>2. Made(n, lastGraph) => Made(n, lastGraph)'
    BY <1>1, <1>2 DEF Made
  <2>3. Made(n, next) => Made(n, next)'
    BY <1>2 DEF Made
  <2> QED
    BY <1>2, <1>3, <2>1, <2>2, <2>3 DEF NodeOK, Recreated, Kept
<1>6. QueueOK'
  BY <1>1, <1>2 DEF QueueOK
<1>7. WiresOK'
  BY <1>1, <1>2 DEF WiresOK, WireOK, LinkedOK, Linked
<1> QED
  BY <1>2, <1>4, <1>5, <1>6, <1>7

\* To those with another configuration.
LEMMA Reconfigures ==
  ASSUME LiveInv, ToConfig
  PROVE  LiveInv'
<1> USE DEF LiveInv
<1>1. EnterPhase("recreate", "config", Reconfigured(next)) /\ UNCHANGED <<inst, lastGraph>>
  BY DEF ToConfig
<1>2. /\ InstOK' /\ VictimOK' /\ OnlyLiveInstancesRun' /\ GraphsOK'
      /\ Instances' = Instances /\ next \in Graphs
      /\ ~wedged /\ phase = "recreate" /\ phase' = "config" /\ todo = {} /\ todo' = Reconfigured(next)
      /\ UNCHANGED <<inst, live, wired, executed, known, queue, next, links, victim, wedged>>
      /\ UNCHANGED <<submitted, applies, lost, slipped, faults>>
  BY <1>1, EnterFrame DEF Phases
<1>3. /\ Present(lastGraph)' = Present(lastGraph) /\ Present(next)' = Present(next)
      /\ Reconfigured(next)' = Reconfigured(next)
  BY <1>1, <1>2, GraphSame
<1>4. WorkOK'
  BY <1>1, <1>2, <1>3 DEF WorkOK
<1>5. NodesOK'
  <2> SUFFICES ASSUME NEW n \in Ids PROVE NodeOK(n)'
    BY DEF NodesOK
  <2>1. IF n \in Present(next) /\ (n \notin Present(lastGraph) \/ n \in Recreated(next)) THEN Made(n, next)
        ELSE IF n \in Present(lastGraph) THEN Made(n, lastGraph) ELSE live[n] = 0
    BY <1>2 DEF NodesOK, NodeOK
  <2>2. Made(n, next) => Made(n, next)'
    BY <1>2 DEF Made
  <2>3. CASE n \in Present(next) /\ (n \notin Present(lastGraph) \/ n \in Recreated(next))
    BY <1>2, <1>3, <2>1, <2>2, <2>3 DEF NodeOK, Made
  <2>4. CASE n \in Present(next) /\ n \in Present(lastGraph) /\ n \notin Recreated(next)
    <3>1. next.template[n] = lastGraph.template[n]
      BY <2>4 DEF Recreated, Kept
    <3>2. n \in Reconfigured(next) \/ next.config[n] = lastGraph.config[n]
      BY <2>4 DEF Reconfigured, Kept
    <3>3. Made(n, lastGraph)
      BY <2>1, <2>4
    <3> QED
      BY <1>2, <1>3, <2>4, <3>1, <3>2, <3>3 DEF NodeOK, Made
  <2>5. CASE n \notin Present(next)
    BY <1>2, <1>3, <2>1, <2>5 DEF NodeOK
  <2> QED
    BY <2>3, <2>4, <2>5
<1>6. QueueOK'
  BY <1>1, <1>2 DEF QueueOK
<1>7. WiresOK'
  BY <1>1, <1>2 DEF WiresOK, WireOK, LinkedOK, Linked
<1> QED
  BY <1>2, <1>4, <1>5, <1>6, <1>7

\* To the edges that are gone.
LEMMA Unlinks ==
  ASSUME LiveInv, ToUnlink
  PROVE  LiveInv'
<1> USE DEF LiveInv
<1>0. PICK work : work = lastGraph.edges \ next.edges
  OBVIOUS
<1>1. EnterPhase("config", "unlink", work) /\ UNCHANGED <<inst, lastGraph>>
  BY <1>0 DEF ToUnlink
<1>2a. /\ InstOK' /\ VictimOK' /\ OnlyLiveInstancesRun' /\ GraphsOK'
       /\ Instances' = Instances /\ next \in Graphs
       /\ ~wedged /\ phase = "config" /\ phase' = "unlink" /\ todo = {} /\ todo' = work
       /\ UNCHANGED <<inst, live, wired, executed, known, queue, next, links, victim, wedged>>
       /\ UNCHANGED <<submitted, applies, lost, slipped, faults>>
  BY <1>1, EnterFrame DEF Phases
<1>2. /\ InstOK' /\ VictimOK' /\ OnlyLiveInstancesRun' /\ GraphsOK'
      /\ Instances' = Instances /\ next \in Graphs
      /\ ~wedged /\ phase = "config" /\ phase' = "unlink" /\ todo = {}
      /\ todo' = lastGraph.edges \ next.edges
      /\ UNCHANGED <<inst, live, wired, executed, known, queue, next, links, victim, wedged>>
      /\ UNCHANGED <<submitted, applies, lost, slipped, faults>>
  BY <1>0, <1>2a
<1>3. Present(lastGraph)' = Present(lastGraph) /\ Present(next)' = Present(next)
  BY <1>1, <1>2, GraphSame
<1>4. WorkOK'
  BY <1>1, <1>2 DEF WorkOK
<1>5. NodesOK'
  <2> SUFFICES ASSUME NEW n \in Ids PROVE NodeOK(n)'
    BY DEF NodesOK
  <2>1. IF n \in Present(next) THEN Made(n, next) ELSE n \in Present(lastGraph) \/ live[n] = 0
    BY <1>2 DEF NodesOK, NodeOK
  <2>2. Made(n, next) => Made(n, next)'
    BY <1>2 DEF Made
  <2> QED
    BY <1>2, <1>3, <2>1, <2>2 DEF NodeOK
<1>6. QueueOK'
  BY <1>1, <1>2 DEF QueueOK
<1>7. WiresOK'
  BY <1>1, <1>2 DEF WiresOK, WireOK, LinkedOK, Linked
<1> QED
  BY <1>2, <1>4, <1>5, <1>6, <1>7

\* To the nodes that are gone.
LEMMA Removes ==
  ASSUME LiveInv, ToRemove
  PROVE  LiveInv'
<1> USE DEF LiveInv
<1>1. EnterPhase("unlink", "remove", Removed(next)) /\ UNCHANGED <<inst, lastGraph>>
  BY DEF ToRemove
<1>2. /\ InstOK' /\ VictimOK' /\ OnlyLiveInstancesRun' /\ GraphsOK'
      /\ Instances' = Instances /\ next \in Graphs
      /\ ~wedged /\ phase = "unlink" /\ phase' = "remove" /\ todo = {} /\ todo' = Removed(next)
      /\ UNCHANGED <<inst, live, wired, executed, known, queue, next, links, victim, wedged>>
      /\ UNCHANGED <<submitted, applies, lost, slipped, faults>>
  BY <1>1, EnterFrame DEF Phases
<1>3. /\ Present(lastGraph)' = Present(lastGraph) /\ Present(next)' = Present(next)
      /\ Removed(next)' = Removed(next)
  BY <1>1, <1>2, GraphSame
<1>4. WorkOK'
  BY <1>1, <1>2, <1>3 DEF WorkOK
<1>5. NodesOK'
  <2> SUFFICES ASSUME NEW n \in Ids PROVE NodeOK(n)'
    BY DEF NodesOK
  <2>1. IF n \in Present(next) THEN Made(n, next) ELSE n \in Present(lastGraph) \/ live[n] = 0
    BY <1>2 DEF NodesOK, NodeOK
  <2>2. Made(n, next) => Made(n, next)'
    BY <1>2 DEF Made
  <2> QED
    BY <1>2, <1>3, <2>1, <2>2 DEF NodeOK, Removed
<1>6. QueueOK'
  BY <1>1, <1>2 DEF QueueOK
<1>7. WiresOK'
  BY <1>1, <1>2 DEF WiresOK, WireOK, LinkedOK, Linked
<1> QED
  BY <1>2, <1>4, <1>5, <1>6, <1>7

\* To the edges that are new: the graph is that of the runtime now.
LEMMA Links ==
  ASSUME LiveInv, ToLink
  PROVE  LiveInv'
<1> USE DEF LiveInv
<1>1. EnterPhase("remove", "link", links) /\ lastGraph' = next /\ UNCHANGED inst
  BY DEF ToLink
<1>2. /\ InstOK' /\ VictimOK' /\ OnlyLiveInstancesRun' /\ GraphsOK'
      /\ Instances' = Instances /\ next \in Graphs
      /\ ~wedged /\ phase = "remove" /\ phase' = "link" /\ todo = {} /\ todo' = links
      /\ UNCHANGED <<inst, live, wired, executed, known, queue, next, links, victim, wedged>>
      /\ UNCHANGED <<submitted, applies, lost, slipped, faults>>
  BY <1>1, EnterFrame DEF Phases
<1>3. links = next.edges \ lastGraph.edges
  BY <1>2 DEF WorkOK
<1>4. WorkOK'
  BY <1>1, <1>2, <1>3 DEF WorkOK
<1>5. NodesOK'
  <2> SUFFICES ASSUME NEW n \in Ids PROVE NodeOK(n)'
    BY DEF NodesOK
  <2>1. IF n \in Present(next) THEN Made(n, next) ELSE live[n] = 0
    BY <1>2 DEF NodesOK, NodeOK
  <2>2. Made(n, next) => Made(n, lastGraph)'
    BY <1>1, <1>2 DEF Made
  <2>3. Present(lastGraph)' = Present(next)
    BY <1>1 DEF Present
  <2> QED
    BY <1>2, <2>1, <2>2, <2>3 DEF NodeOK
<1>6. QueueOK'
  BY <1>1, <1>2 DEF QueueOK
<1>7. WiresOK'
  <2>1. ASSUME "reversal" \notin faults
        PROVE  Linked = (next.edges \cap lastGraph.edges) \ lost
    BY <1>2, <2>1 DEF WiresOK, LinkedOK
  <2>2. /\ Linked' = Linked /\ lost' = lost /\ lastGraph' = next
        /\ todo' = next.edges \ lastGraph.edges /\ phase' = "link" /\ faults' = faults
    BY <1>1, <1>2, <1>3 DEF Linked
  <2>3. "reversal" \notin faults => LinkedOK'
    BY <2>1, <2>2 DEF LinkedOK
  <2> QED
    BY <1>2, <2>3 DEF WiresOK, WireOK
<1> QED
  BY <1>2, <1>4, <1>5, <1>6, <1>7

\* The apply is done.
LEMMA Ends ==
  ASSUME LiveInv, EndApply
  PROVE  LiveInv'
<1> USE DEF LiveInv
<1>1. EnterPhase("provision", "idle", {}) /\ UNCHANGED <<inst, lastGraph>>
  BY DEF EndApply
<1>2. /\ InstOK' /\ VictimOK' /\ OnlyLiveInstancesRun' /\ GraphsOK'
      /\ Instances' = Instances /\ next \in Graphs
      /\ ~wedged /\ phase = "provision" /\ phase' = "idle" /\ todo = {} /\ todo' = {}
      /\ UNCHANGED <<inst, live, wired, executed, known, queue, next, links, victim, wedged>>
      /\ UNCHANGED <<submitted, applies, lost, slipped, faults>>
  BY <1>1, EnterFrame DEF Phases
<1>4. WorkOK'
  BY <1>1, <1>2 DEF WorkOK
<1>5. NodesOK'
  <2> SUFFICES ASSUME NEW n \in Ids PROVE NodeOK(n)'
    BY DEF NodesOK
  <2>1. IF n \in Present(lastGraph) THEN Made(n, lastGraph) ELSE live[n] = 0
    BY <1>2 DEF NodesOK, NodeOK
  <2>2. Made(n, lastGraph) => Made(n, lastGraph)'
    BY <1>1, <1>2 DEF Made
  <2>3. Present(lastGraph)' = Present(lastGraph)
    BY <1>1 DEF Present
  <2> QED
    BY <1>2, <2>1, <2>2, <2>3 DEF NodeOK
<1>6. QueueOK'
  BY <1>1, <1>2 DEF QueueOK
<1>7. WiresOK'
  BY <1>1, <1>2 DEF WiresOK, WireOK, LinkedOK, Linked
<1> QED
  BY <1>2, <1>4, <1>5, <1>6, <1>7

\* The instances of the nodes are provisioned.
LEMMA Provisions ==
  ASSUME LiveInv, ToProvision
  PROVE  LiveInv'
<1> USE DEF LiveInv
<1> DEFINE asked == {i \in Instances : (\E n \in Ids : live[n] = i) /\ MayProvision(i)}
<1>1. /\ phase = "link" /\ phase' = "provision" /\ todo = {} /\ todo' = asked /\ victim = 0
      /\ UNCHANGED <<live, wired, executed, known, queue, next, links, victim, wedged, lastGraph>>
      /\ UNCHANGED <<submitted, applies, lost, slipped, faults>>
      /\ inst' = [i \in Instances |->
                    IF i \in asked THEN [inst[i] EXCEPT !.status = "provisioning"] ELSE inst[i]]
  BY DEF ToProvision, EnterPhase, edgeVars, historyVars
<1>2. next \in Graphs /\ ~wedged
  BY <1>1 DEF GraphsOK
<1>3. /\ Len(inst) \in Nat /\ Instances = 1 .. Len(inst)
      /\ \A i \in Instances : inst[i] \in Inst
  BY InstLen
<1>4. ASSUME NEW i \in Instances
      PROVE  /\ inst'[i] \in Inst
             /\ inst'[i].id = inst[i].id /\ inst'[i].template = inst[i].template
             /\ inst'[i].config = inst[i].config
             /\ inst'[i].status = IF i \in asked THEN "provisioning" ELSE inst[i].status
  <2>1. PICK x \in Inst : x = inst[i]
    BY <1>3
  <2>2. PICK y : y = [x EXCEPT !.status = "provisioning"]
    OBVIOUS
  <2>3. /\ y \in Inst /\ y.status = "provisioning" /\ y.id = x.id /\ y.template = x.template
        /\ y.config = x.config
    BY <2>2 DEF Inst, Status
  <2>4. inst'[i] = IF i \in asked THEN y ELSE x
    BY <1>1, <2>1, <2>2
  <2> HIDE DEF asked
  <2> QED
    BY <2>1, <2>3, <2>4
<1>5. /\ DOMAIN inst' = 1 .. Len(inst) /\ inst' \in Seq(Inst) /\ Len(inst') = Len(inst)
  <2>1. inst' \in [1 .. Len(inst) -> Inst]
    <3>1. inst' = [i \in 1 .. Len(inst) |-> inst'[i]]
      BY <1>1, <1>3
    <3> QED
      BY <1>3, <1>4, <3>1
  <2> QED
    BY <1>3, <2>1, SeqDef, LenProperties
<1>6. asked \subseteq Instances /\ \A i \in asked : live[inst[i].id] = i
  BY DEF InstOK, Instances
<1> HIDE DEF asked
<1>7. InstKept /\ Instances' = Instances
  BY <1>3, <1>4, <1>5 DEF InstKept, Instances
<1>8. InstOK'
  BY <1>1, <1>5, <1>7, InstFrame
<1>9. VictimOK'
  BY <1>1 DEF VictimOK
<1>10. OnlyLiveInstancesRun'
  <2> SUFFICES ASSUME NEW j \in Instances \ slipped, inst'[j].status \in {"provisioning", "ready"}
               PROVE  live[inst'[j].id] = j
    BY <1>1, <1>7 DEF OnlyLiveInstancesRun
  <2>1. inst'[j].id = inst[j].id
    BY <1>4
  <2>2. CASE j \in asked
    BY <2>1, <2>2, <1>6
  <2>3. CASE j \notin asked
    BY <2>1, <2>3, <1>4 DEF OnlyLiveInstancesRun
  <2> QED
    BY <2>2, <2>3
<1>11. GraphsOK'
  BY <1>1, <1>2 DEF GraphsOK, Phases
<1>12. WorkOK'
  BY <1>1, <1>6, <1>7 DEF WorkOK
<1>13. NodesOK'
  <2> SUFFICES ASSUME NEW n \in Ids PROVE NodeOK(n)'
    BY DEF NodesOK
  <2>1. IF n \in Present(lastGraph) THEN Made(n, lastGraph) ELSE live[n] = 0
    BY <1>1, <1>2 DEF NodesOK, NodeOK
  <2>2. Made(n, lastGraph) => Made(n, lastGraph)'
    BY <1>1, <1>7, MadeFrame DEF Made
  <2>3. Present(lastGraph)' = Present(lastGraph)
    BY <1>1 DEF Present
  <2> QED
    BY <1>1, <2>1, <2>2, <2>3 DEF NodeOK
<1>14. QueueOK'
  BY <1>1, <1>2 DEF QueueOK
<1>15. WiresOK'
  BY <1>1, <1>2 DEF WiresOK, WireOK, LinkedOK, Linked
<1> QED
  BY <1>8, <1>9, <1>10, <1>11, <1>12, <1>13, <1>14, <1>15

-----------------------------------------------------------------------------
(***************************************************************************)
(* The work of an apply on nodes.                                          *)
(***************************************************************************)

\* A node gets an instance as its graph says.
LEMMA NewInstance ==
  ASSUME LiveInv, NEW n \in Ids, next \in Graphs, n \in Present(next), live[n] = 0,
         Instantiate(n), UNCHANGED <<victim, slipped>>
  PROVE  /\ InstOK' /\ InstKept /\ OnlyLiveInstancesRun' /\ Instances \subseteq Instances'
         /\ live'[n] # 0 /\ inst'[live'[n]].template = next.template[n]
         /\ inst'[live'[n]].config = next.config[n]
         /\ \A m \in Ids \ {n} : live'[m] = live[m]
         /\ victim # 0 => /\ live'[inst'[victim].id] = victim
                          /\ inst'[victim].status = "deprovisioning"
                          /\ inst'[victim].id = inst[victim].id
                          /\ inst[victim].id # n
<1> USE DEF LiveInv
<1> DEFINE k == Len(inst) + 1
<1>1. PICK r : r = [id |-> n, template |-> next.template[n], config |-> next.config[n],
                    status |-> "not_ready"]
  OBVIOUS
<1>2. next \in Graph /\ next.template[n] \in Templates /\ next.config[n] \in Configs
  BY LiveGraphAssumption DEF Graph, Present
<1>3. r.id = n /\ r.template = next.template[n] /\ r.config = next.config[n] /\ r.status = "not_ready"
  BY <1>1
<1>4. r \in Inst
  BY <1>1, <1>2 DEF Inst, Status
<1>5. inst' = Append(inst, r)
  BY <1>1 DEF Instantiate
<1>6. /\ Len(inst) \in Nat /\ Instances = 1 .. Len(inst) /\ DOMAIN inst = Instances
      /\ \A i \in Instances : inst[i] \in Inst
  BY InstLen
<1>7. /\ inst' \in Seq(Inst) /\ Len(inst') = k /\ inst'[k] = r
      /\ \A i \in Instances : inst'[i] = inst[i]
  BY <1>4, <1>5, <1>6, AppendProperties DEF InstOK
<1>8. InstKept /\ Instances' = 1 .. k /\ Instances \subseteq Instances' /\ k \in Nat \ {0}
  BY <1>6, <1>7 DEF InstKept, Instances
<1>9. live' = [live EXCEPT ![n] = k]
  BY <1>7 DEF Instantiate
<1>10. live'[n] = k /\ \A m \in Ids \ {n} : live'[m] = live[m]
  BY <1>9 DEF InstOK
<1>11. live' \in [Ids -> 0 .. Len(inst')]
  BY <1>6, <1>7, <1>9 DEF InstOK
<1> HIDE DEF k
<1>12. InstOK'
  <2>1. ASSUME NEW m \in Ids, live'[m] # 0 PROVE inst'[live'[m]].id = m
    <3>1. CASE m = n
      BY <3>1, <1>3, <1>7, <1>10
    <3>2. CASE m # n
      <4>1. live'[m] = live[m] /\ live[m] \in Instances
        BY <2>1, <3>2, <1>6, <1>10 DEF InstOK
      <4> QED
        BY <4>1, <2>1, <1>7 DEF InstOK
    <3> QED
      BY <3>1, <3>2
  <2>2. victim' \in 0 .. Len(inst') /\ slipped' \subseteq Instances'
    BY <1>6, <1>7, <1>8 DEF InstOK, k
  <2> QED
    BY <1>7, <1>11, <2>1, <2>2 DEF InstOK
<1>13. OnlyLiveInstancesRun'
  <2> SUFFICES ASSUME NEW j \in Instances' \ slipped, inst'[j].status \in {"provisioning", "ready"}
               PROVE  live'[inst'[j].id] = j
    BY DEF OnlyLiveInstancesRun
  <2>1. j # k
    BY <1>3, <1>7
  <2>2. j \in Instances
    BY <2>1, <1>6, <1>8 DEF k
  <2>3. inst'[j] = inst[j] /\ live[inst[j].id] = j /\ inst[j].id \in Ids /\ j # 0
    BY <2>2, <1>6, <1>7 DEF OnlyLiveInstancesRun, Inst
  <2>4. inst[j].id # n
    BY <2>3
  <2> QED
    BY <2>3, <2>4, <1>10
<1>14. ASSUME victim # 0
       PROVE  /\ live'[inst'[victim].id] = victim /\ inst'[victim].status = "deprovisioning"
              /\ inst'[victim].id = inst[victim].id /\ inst[victim].id # n
  <2>1. victim \in Instances
    BY <1>14, <1>6 DEF InstOK
  <2>2. inst'[victim] = inst[victim] /\ inst[victim].id \in Ids
    BY <2>1, <1>6, <1>7 DEF Inst
  <2>3. live[inst[victim].id] = victim /\ inst[victim].status = "deprovisioning"
    BY <1>14 DEF VictimOK
  <2>4. inst[victim].id # n
    BY <2>3, <1>14
  <2> QED
    BY <2>2, <2>3, <2>4, <1>10
<1> QED
  BY <1>3, <1>7, <1>8, <1>10, <1>12, <1>13, <1>14

\* A node without an instance is instantiated, or the apply ends.
LEMMA Instantiated ==
  ASSUME LiveInv, NEW n \in Ids, n \in todo, live[n] = 0, n \in Present(next),
         \/ phase = "add" /\ n \notin Present(lastGraph)
         \/ phase = "recreate" /\ n \in Recreated(next),
         Instantiates(n), UNCHANGED <<edgeVars, lastGraph, queue, historyVars>>
  PROVE  LiveInv'
<1> USE DEF LiveInv
<1>1. next \in Graphs /\ ~wedged
  BY DEF GraphsOK
<1>2. UNCHANGED <<wired, executed, known, lastGraph, queue, submitted, applies, lost, slipped>>
  BY DEF edgeVars, historyVars
<1>3. CASE /\ Instantiate(n) /\ todo' = todo \ {n}
           /\ UNCHANGED <<phase, next, links, victim, wedged, faults>>
  <2>1. /\ InstOK' /\ InstKept /\ OnlyLiveInstancesRun' /\ Instances \subseteq Instances'
        /\ live'[n] # 0 /\ inst'[live'[n]].template = next.template[n]
        /\ inst'[live'[n]].config = next.config[n]
        /\ \A m \in Ids \ {n} : live'[m] = live[m]
        /\ victim # 0 => /\ live'[inst'[victim].id] = victim
                         /\ inst'[victim].status = "deprovisioning"
                         /\ inst'[victim].id = inst[victim].id
                         /\ inst[victim].id # n
    BY <1>1, <1>2, <1>3, NewInstance
  <2>2. VictimOK'
    BY <1>1, <1>3, <2>1 DEF VictimOK
  <2>3. GraphsOK' /\ QueueOK'
    BY <1>2, <1>3, GraphsFrame, QueueFrame DEF GraphsSame, GraphsOK
  <2>4. /\ Present(lastGraph)' = Present(lastGraph) /\ Present(next)' = Present(next)
        /\ Added(next)' = Added(next) /\ Recreated(next)' = Recreated(next)
    BY <1>2, <1>3, GraphSame
  <2>5. WorkOK'
    BY <1>2, <1>3, <2>4 DEF WorkOK
  <2>6. NodesOK'
    <3> SUFFICES ASSUME NEW m \in Ids PROVE NodeOK(m)'
      BY DEF NodesOK
    <3>1. CASE m # n
      BY <3>1, <2>1, <1>1, <1>2, <1>3, NodeFrame DEF NodesOK
    <3>2. CASE m = n
      <4>1. Made(n, next)'
        BY <2>1, <1>3 DEF Made
      <4>2. n \notin todo' /\ phase' = phase
        BY <1>3
      <4> QED
        BY <3>2, <4>1, <4>2, <2>4 DEF NodeOK
    <3> QED
      BY <3>1, <3>2
  <2>7. WiresOK'
    <3>1. LinkedOK => LinkedOK'
      BY <1>2, <1>3 DEF LinkedOK, Linked
    <3>2. ASSUME NEW w \in executed, WireOK(w) PROVE WireOK(w)'
      <4>1. w.from \in Nat \ {0} /\ w.to \in Nat \ {0} /\ w.edge[1] \in Ids /\ w.edge[2] \in Ids
        BY DEF WiresOK, Wire, Edges
      <4>2. w.edge[1] # n /\ w.edge[2] # n
        BY <3>2, <4>1 DEF WireOK
      <4> QED
        BY <3>2, <4>1, <4>2, <1>2, <1>3, <2>1 DEF WireOK
    <3> QED
      BY <1>2, <1>3, <3>1, <3>2 DEF WiresOK
  <2> QED
    BY <2>1, <2>2, <2>3, <2>5, <2>6, <2>7
<1>4. CASE Fault("instantiate") /\ (Instantiate(n) \/ UNCHANGED <<inst, live>>) /\ GiveUp
  <2>1. faults' \subseteq Faults
    BY <1>4 DEF Fault, GraphsOK
  <2>2. GraphsOK' /\ WorkOK' /\ NodesOK' /\ QueueOK' /\ WiresOK'
    BY <2>1, <1>2, <1>4, GivenUp DEF edgeVars
  <2>3. wedged' /\ victim' = victim
    BY <1>4 DEF GiveUp
  <2>4. CASE Instantiate(n)
    <3>1. /\ InstOK' /\ OnlyLiveInstancesRun'
          /\ victim # 0 => /\ live'[inst'[victim].id] = victim
                           /\ inst'[victim].status = "deprovisioning"
      BY <1>1, <1>2, <2>3, <2>4, NewInstance
    <3> QED
      BY <2>2, <2>3, <3>1 DEF VictimOK
  <2>5. CASE UNCHANGED <<inst, live>>
    BY <1>2, <2>2, <2>3, <2>5, InstSame, OnlyLiveSame DEF VictimOK
  <2> QED
    BY <1>4, <2>4, <2>5
<1> QED
  BY <1>3, <1>4 DEF Instantiates

\* A new node, or one that has been disposed of to be made again.
LEMMA AddsNode ==
  ASSUME LiveInv, NEW n \in Ids, AddNode(n) \/ RecreateNode(n)
  PROVE  LiveInv'
<1> USE DEF LiveInv
<1>1. CASE AddNode(n)
  <2>1. n \in Present(next) /\ n \notin Present(lastGraph) /\ n \in todo /\ phase = "add"
    BY <1>1 DEF AddNode, WorkOK, Added
  <2>2. live[n] = 0
    BY <2>1 DEF NodesOK, NodeOK, GraphsOK
  <2> QED
    BY <1>1, <2>1, <2>2, Instantiated DEF AddNode
<1>2. CASE RecreateNode(n)
  <2>1. n \in Recreated(next) /\ n \in Present(next) /\ n \in todo /\ phase = "recreate"
    BY <1>2 DEF RecreateNode, WorkOK, Recreated, Kept
  <2> QED
    BY <1>2, <2>1, Instantiated DEF RecreateNode
<1> QED
  BY <1>1, <1>2

\* A node that stays gets the configuration of the new graph.
LEMMA Configured ==
  ASSUME LiveInv, NEW n \in Ids, Configure(n)
  PROVE  LiveInv'
<1> USE DEF LiveInv
<1>1. /\ phase = "config" /\ n \in todo /\ todo' = todo \ {n}
      /\ UNCHANGED <<live, edgeVars, lastGraph, queue, phase, next, links, victim, wedged>>
      /\ UNCHANGED <<wired, executed, known, submitted, applies, lost, slipped>>
      /\ faults \subseteq faults' /\ faults' \subseteq Faults
  BY DEF Configure, Fault, GraphsOK, historyVars, edgeVars
<1>2. next \in Graphs /\ ~wedged
  BY <1>1 DEF GraphsOK
<1>3. n \in Present(next)
  BY <1>1 DEF WorkOK, Reconfigured, Kept
<1> DEFINE i == live[n]
<1>4. i \in Instances /\ inst[i].template = next.template[n] /\ inst[i].id = n
  BY <1>1, <1>2, <1>3, InstLen DEF NodesOK, NodeOK, InstOK
<1>5. /\ Len(inst) \in Nat /\ DOMAIN inst = 1 .. Len(inst) /\ Instances = 1 .. Len(inst)
      /\ \A j \in 1 .. Len(inst) : inst[j] \in Inst
  BY InstLen
<1> HIDE DEF i
<1>6. /\ inst' \in Seq(Inst) /\ Len(inst') = Len(inst) /\ Instances' = Instances
      /\ \A j \in Instances \ {i} : inst'[j] = inst[j]
      /\ inst'[i].id = n /\ inst'[i].template = next.template[n] /\ inst'[i].status = inst[i].status
      /\ "config" \in faults' \/ inst'[i].config = next.config[n]
  <2>1. CASE inst' = [inst EXCEPT ![live[n]].config = next.config[n]]
    <3>1. PICK x \in Inst : x = inst[i]
      BY <1>4, <1>5
    <3>2. PICK y : y = [x EXCEPT !.config = next.config[n]]
      OBVIOUS
    <3>3. next.config[n] \in Configs
      BY <1>2, LiveGraphAssumption DEF Graph
    <3>4. /\ y \in Inst /\ y.status = x.status /\ y.id = x.id /\ y.template = x.template
          /\ y.config = next.config[n]
      BY <3>2, <3>3 DEF Inst
    <3>5. inst' = [inst EXCEPT ![i] = y]
      BY <2>1, <3>1, <3>2 DEF i
    <3>6. inst'[i] = y /\ \A j \in (1 .. Len(inst)) \ {i} : inst'[j] = inst[j]
      BY <1>4, <1>5, <3>5
    <3>7. inst' \in Seq(Inst) /\ Len(inst') = Len(inst)
      BY <1>4, <1>5, <3>4, <3>5, ExceptSeq DEF InstOK
    <3> QED
      BY <1>4, <1>5, <3>1, <3>4, <3>6, <3>7 DEF Instances
  <2>2. CASE Fault("config") /\ UNCHANGED inst
    BY <2>2, <1>4, <1>5 DEF Fault, InstOK, Instances
  <2> QED
    BY <2>1, <2>2 DEF Configure
<1>7. \A m \in Ids : m # n => live[m] # i
  BY <1>4, <1>5 DEF InstOK
<1>8. InstOK'
  <2>1. ASSUME NEW m \in Ids, live[m] # 0 PROVE inst'[live[m]].id = m
    <3>1. live[m] \in Instances
      BY <2>1, <1>5 DEF InstOK
    <3>2. CASE m = n
      BY <3>2, <1>6 DEF i
    <3>3. CASE m # n
      BY <3>1, <3>3, <2>1, <1>6, <1>7 DEF InstOK
    <3> QED
      BY <3>2, <3>3
  <2> QED
    BY <1>1, <1>6, <2>1 DEF InstOK
<1>9. VictimOK'
  BY <1>1, <1>2 DEF VictimOK
<1>10. OnlyLiveInstancesRun'
  <2> SUFFICES ASSUME NEW j \in Instances \ slipped, inst'[j].status \in {"provisioning", "ready"}
               PROVE  live[inst'[j].id] = j
    BY <1>1, <1>6 DEF OnlyLiveInstancesRun
  <2>1. CASE j = i
    BY <2>1, <1>6 DEF i
  <2>2. CASE j # i
    BY <2>2, <1>6 DEF OnlyLiveInstancesRun
  <2> QED
    BY <2>1, <2>2
<1>11. GraphsOK' /\ QueueOK'
  BY <1>1, <1>2, GraphsFrame, QueueFrame DEF GraphsSame
<1>12. /\ Present(lastGraph)' = Present(lastGraph) /\ Present(next)' = Present(next)
       /\ Reconfigured(next)' = Reconfigured(next)
  BY <1>1, GraphSame
<1>13. WorkOK'
  BY <1>1, <1>12 DEF WorkOK
<1>14. NodesOK'
  <2> SUFFICES ASSUME NEW m \in Ids PROVE NodeOK(m)'
    BY DEF NodesOK
  <2>1. CASE m = n
    BY <2>1, <1>1, <1>3, <1>4, <1>5, <1>6, <1>12 DEF NodeOK, Made, i
  <2>2. CASE m # n
    <3>1. live[m] # 0 => inst'[live[m]] = inst[live[m]]
      BY <2>2, <1>5, <1>6, <1>7 DEF InstOK
    <3>2. Made(m, next) => Made(m, next)'
      BY <3>1, <1>1 DEF Made
    <3>3. NodeOK(m)
      BY <1>2 DEF NodesOK
    <3> QED
      BY <3>1, <3>2, <3>3, <2>2, <1>1, <1>12 DEF NodeOK
  <2> QED
    BY <2>1, <2>2
<1>15. WiresOK'
  BY <1>1 DEF WiresOK, WireOK, LinkedOK, Linked
<1> QED
  BY <1>8, <1>9, <1>10, <1>11, <1>13, <1>14, <1>15

-----------------------------------------------------------------------------
(***************************************************************************)
(* The work of an apply on edges.                                          *)
(***************************************************************************)

\* An edge that is gone is disconnected, unless the reversal fails.
LEMMA Unlinked ==
  ASSUME LiveInv, NEW e \in Edges, Unlink(e)
  PROVE  LiveInv'
<1> USE DEF LiveInv
<1> DEFINE S == {w \in executed : w.edge = e}
<1>1. /\ phase = "unlink" /\ e \in todo /\ todo' = todo \ {e} /\ lost' = lost \ {e}
      /\ UNCHANGED <<inst, live, lastGraph, queue, phase, next, links, victim, wedged, submitted,
                     applies, slipped>>
      /\ faults \subseteq faults' /\ faults' \subseteq Faults
  BY DEF Unlink, Fault, GraphsOK
<1>2. next \in Graphs /\ ~wedged
  BY <1>1 DEF GraphsOK
<1>3. InstOK' /\ InstKept /\ Instances' = Instances
  BY <1>1, InstSame
<1>4. VictimOK'
  BY <1>1, <1>2 DEF VictimOK
<1>5. OnlyLiveInstancesRun'
  BY <1>1, OnlyLiveSame
<1>6. GraphsOK' /\ QueueOK'
  BY <1>1, <1>2, GraphsFrame, QueueFrame DEF GraphsSame
<1>7. WorkOK'
  BY <1>1 DEF WorkOK
<1>8. NodesOK'
  <2> SUFFICES ASSUME NEW m \in Ids PROVE NodeOK(m)'
    BY DEF NodesOK
  <2>1. Present(lastGraph)' = Present(lastGraph) /\ Present(next)' = Present(next)
    BY <1>1, GraphSame
  <2>2. Made(m, next) => Made(m, next)'
    BY <1>1 DEF Made
  <2>3. NodeOK(m)
    BY <1>2 DEF NodesOK
  <2> QED
    BY <1>1, <2>1, <2>2, <2>3 DEF NodeOK
<1>9. e \in lastGraph.edges \ next.edges
  BY <1>1 DEF WorkOK
<1>10. WiresOK'
  <2>1. CASE /\ wired' = wired \ S /\ executed' = executed \ S
             /\ known' = (IF S = {} THEN known ELSE [m \in Ids |-> known[m] \ {e}])
             /\ UNCHANGED faults
    <3>1. /\ \A m \in Ids : known'[m] \subseteq known[m] /\ \A x \in known[m] : x # e => x \in known'[m]
          /\ known' \in [Ids -> SUBSET Edges]
      BY <2>1 DEF WiresOK
    <3>2. wired' \subseteq Wire /\ executed' \subseteq Wire
      BY <2>1 DEF WiresOK
    <3>3. \A w \in executed' : w \in executed /\ w.edge # e
      BY <2>1
    <3>4. Linked' = Linked \ {e}
      BY <2>1 DEF Linked
    <3>5. LinkedOK => LinkedOK'
      BY <3>4, <1>1, <1>9 DEF LinkedOK
    <3>6. ASSUME NEW w \in executed', WireOK(w) PROVE WireOK(w)'
      <4>1. w \in Wire /\ w.edge[1] \in Ids /\ w.edge[2] \in Ids /\ w.edge # e
        BY <3>2, <3>3 DEF Wire, Edges
      <4> QED
        BY <4>1, <3>1, <3>6, <1>1 DEF WireOK
    <3>7. wired = executed => wired' = executed'
      BY <2>1
    <3> QED
      BY <2>1, <3>1, <3>2, <3>3, <3>5, <3>6, <3>7, <1>1 DEF WiresOK
  <2>2. CASE Fault("reversal") /\ UNCHANGED edgeVars
    BY <2>2 DEF WiresOK, Fault, edgeVars
  <2> QED
    BY <2>1, <2>2 DEF Unlink
<1> QED
  BY <1>3, <1>4, <1>5, <1>6, <1>7, <1>8, <1>10

\* A new edge is connected, or the apply ends.
LEMMA LinkedOne ==
  ASSUME LiveInv, NEW e \in Edges, Link(e)
  PROVE  LiveInv'
<1> USE DEF LiveInv
<1>1. /\ phase = "link" /\ e \in todo
      /\ UNCHANGED <<inst, live, lastGraph, queue, victim, submitted, applies, slipped>>
  BY DEF Link, GiveUp
<1>2. next \in Graphs /\ ~wedged /\ lastGraph = next
  BY <1>1 DEF GraphsOK, WorkOK
<1>3. InstOK' /\ InstKept /\ Instances' = Instances
  BY <1>1, InstSame
<1>4. victim = 0 /\ VictimOK'
  BY <1>1, <1>2 DEF VictimOK
<1>5. OnlyLiveInstancesRun'
  BY <1>1, OnlyLiveSame
<1>6. e \in lastGraph.edges /\ e[1] \in Ids /\ e[2] \in Ids
  BY <1>1, <1>2 DEF WorkOK, Edges
<1>7. live[e[1]] # 0 /\ live[e[2]] # 0
  <2>1. e[1] \in Present(lastGraph) /\ e[2] \in Present(lastGraph)
    BY <1>2, <1>6, LiveGraphAssumption
  <2> QED
    BY <2>1, <1>1, <1>2, <1>6 DEF NodesOK, NodeOK, Made
<1>8. PICK w : w = [edge |-> e, from |-> live[e[1]], to |-> live[e[2]]]
  OBVIOUS
<1>9. /\ w \in Wire /\ w.edge = e /\ w.from = live[e[1]] /\ w.to = live[e[2]]
      /\ w.from # 0 /\ w.to # 0
  <2>1. live[e[1]] \in Nat \ {0} /\ live[e[2]] \in Nat \ {0}
    BY <1>6, <1>7, InstLen DEF InstOK
  <2> QED
    BY <2>1, <1>8 DEF Wire
<1>10. CASE /\ wired' = wired \cup {w}
            /\ executed' = {x \in executed : x.edge # e} \cup {w}
            /\ known' = [m \in Ids |-> IF m \in {e[1], e[2]} THEN known[m] \cup {e} ELSE known[m]]
            /\ lost' = lost \ {e}
            /\ todo' = todo \ {e}
            /\ UNCHANGED <<phase, next, links, victim, wedged, faults>>
  <2>1. GraphsOK' /\ QueueOK'
    BY <1>1, <1>10, GraphsFrame, QueueFrame DEF GraphsSame, GraphsOK
  <2>2. WorkOK'
    BY <1>1, <1>2, <1>10 DEF WorkOK
  <2>3. NodesOK'
    <3> SUFFICES ASSUME NEW m \in Ids PROVE NodeOK(m)'
      BY DEF NodesOK
    <3>1. Present(lastGraph)' = Present(lastGraph)
      BY <1>1, <1>10, GraphSame
    <3>2. Made(m, lastGraph) => Made(m, lastGraph)'
      BY <1>1, <1>10 DEF Made
    <3>3. NodeOK(m)
      BY <1>2 DEF NodesOK
    <3> QED
      BY <1>1, <1>10, <3>1, <3>2, <3>3 DEF NodeOK
  <2>4. /\ known' \in [Ids -> SUBSET Edges] /\ \A m \in Ids : known[m] \subseteq known'[m]
        /\ e \in known'[e[1]] /\ e \in known'[e[2]]
        /\ \A m \in Ids : \A x \in known'[m] : x \in known[m] \/ (x = e /\ m \in {e[1], e[2]})
    BY <1>6, <1>10 DEF WiresOK
  <2>5. wired' \subseteq Wire /\ executed' \subseteq Wire
    BY <1>9, <1>10 DEF WiresOK
  <2>6. ASSUME "reversal" \notin faults
        PROVE  /\ wired' = executed' /\ \A x \in executed' : WireOK(x)'
               /\ \A m \in Ids : \A x \in known'[m] : m \in {x[1], x[2]}
               /\ LinkedOK'
    <3>1. /\ wired = executed /\ LinkedOK /\ \A x \in executed : WireOK(x)
          /\ \A m \in Ids : \A x \in known[m] : m \in {x[1], x[2]}
      BY <1>2, <2>6 DEF WiresOK
    <3>2. e \notin Linked
      BY <3>1, <1>1 DEF LinkedOK
    <3>3. executed' = executed \cup {w}
      BY <3>2, <1>10 DEF Linked
    <3>4. wired' = executed'
      BY <3>1, <3>3, <1>10
    <3>5. Linked' = Linked \cup {e}
      BY <3>3, <1>9 DEF Linked
    <3>6. LinkedOK'
      <4>1. Linked = (lastGraph.edges \ todo) \ lost
        BY <3>1, <1>1 DEF LinkedOK
      <4>2. Linked \cup {e} = (lastGraph.edges \ (todo \ {e})) \ (lost \ {e})
        BY <4>1, <1>6
      <4> QED
        BY <4>2, <3>5, <1>1, <1>10 DEF LinkedOK
    <3>7. WireOK(w)'
      BY <1>1, <1>4, <1>9, <2>4 DEF WireOK
    <3>8. ASSUME NEW x \in executed PROVE WireOK(x)'
      <4>1. x \in Wire /\ x.edge[1] \in Ids /\ x.edge[2] \in Ids /\ WireOK(x)
        BY <3>1 DEF WiresOK, Wire, Edges
      <4> QED
        BY <4>1, <2>4, <1>1 DEF WireOK
    <3>9. \A m \in Ids : \A x \in known'[m] : m \in {x[1], x[2]}
      BY <2>4, <3>1
    <3> QED
      BY <3>3, <3>4, <3>6, <3>7, <3>8, <3>9
  <2>7. WiresOK'
    BY <1>10, <2>4, <2>5, <2>6 DEF WiresOK
  <2> QED
    BY <1>3, <1>4, <1>5, <2>1, <2>2, <2>3, <2>7
<1>11. CASE Fault("edge") /\ GiveUp /\ UNCHANGED <<edgeVars, lost>>
  <2>1. faults' \subseteq Faults
    BY <1>11 DEF Fault, GraphsOK
  <2> QED
    BY <2>1, <1>1, <1>3, <1>4, <1>5, <1>11, GivenUp
<1> QED
  BY <1>8, <1>10, <1>11 DEF Link


-----------------------------------------------------------------------------
(***************************************************************************)
(* A node is disposed of.                                                  *)
(***************************************************************************)

\* The instance goes down and is waited for, or is let go at once.
LEMMA DisposedInstance ==
  ASSUME LiveInv, NEW n \in Ids, Dispose(n), n \in todo, phase \in {"recreate", "remove"},
         UNCHANGED <<todo, phase, wedged>>
  PROVE  /\ InstOK' /\ InstKept /\ VictimOK' /\ OnlyLiveInstancesRun' /\ Instances' = Instances
         /\ faults \subseteq faults' /\ faults' \subseteq Faults /\ victim = 0 /\ live[n] # 0
         /\ \A m \in Ids \ {n} : live'[m] = live[m]
         /\ live'[n] = 0 \/ live'[n] = live[n]
         /\ victim' = 0 \/ victim' = live[n]
<1> USE DEF LiveInv
<1> DEFINE i == live[n]
<1>1. i # 0 /\ victim = 0 /\ faults \subseteq faults' /\ faults' \subseteq Faults
  BY DEF Dispose, Fault, GraphsOK
<1>2. /\ Len(inst) \in Nat /\ Instances = 1 .. Len(inst)
      /\ \A j \in Instances : inst[j] \in Inst
  BY InstLen
<1>3. i \in Instances /\ inst[i].id = n
  BY <1>1, <1>2 DEF InstOK
<1>4. CASE MayDeprovision(i)
  <2>1. /\ inst' = [inst EXCEPT ![i].status = "deprovisioning"] /\ victim' = i
        /\ UNCHANGED <<live, slipped>>
    BY <1>4 DEF Dispose
  <2>2. /\ InstKept /\ Len(inst') = Len(inst) /\ Instances' = Instances
        /\ inst'[i].status = "deprovisioning"
        /\ \A j \in Instances \ {i} : inst'[j] = inst[j]
    BY <1>3, <2>1, SetStatus DEF Status
  <2>3. InstOK'
    <3>1. \A m \in Ids : live[m] # 0 => live[m] \in Instances
      BY <1>2 DEF InstOK
    <3>2. inst' \in Seq(Inst) /\ \A m \in Ids : live[m] # 0 => inst'[live[m]].id = m
      BY <2>2, <3>1 DEF InstOK, InstKept
    <3> QED
      BY <1>2, <1>3, <2>1, <2>2, <3>2 DEF InstOK
  <2>4. VictimOK'
    BY <1>1, <1>3, <2>1, <2>2 DEF VictimOK, InstKept
  <2>5. OnlyLiveInstancesRun'
    <3> SUFFICES ASSUME NEW j \in Instances \ slipped, inst'[j].status \in {"provisioning", "ready"}
                 PROVE  live[inst'[j].id] = j
      BY <2>1, <2>2 DEF OnlyLiveInstancesRun
    <3>1. j # i
      BY <2>2
    <3> QED
      BY <3>1, <2>2 DEF OnlyLiveInstancesRun
  <2> QED
    BY <1>1, <2>1, <2>2, <2>3, <2>4, <2>5
<1>5. CASE ~MayDeprovision(i)
  <2>1. /\ live' = [live EXCEPT ![n] = 0] /\ UNCHANGED <<inst, victim>>
        /\ slipped' = (IF inst[i].status = "provisioning" THEN slipped \cup {i} ELSE slipped)
    BY <1>5 DEF Dispose
  <2>2. live'[n] = 0 /\ \A m \in Ids \ {n} : live'[m] = live[m]
    BY <2>1 DEF InstOK
  <2>3. Instances' = Instances /\ InstKept
    BY <1>2, <2>1 DEF Instances, InstKept, InstOK
  <2>4. InstOK'
    <3>0. live' \in [Ids -> 0 .. Len(inst)]
      BY <1>2, <2>1 DEF InstOK
    <3>1. slipped' \subseteq Instances
      BY <1>3, <2>1 DEF InstOK
    <3>2. ASSUME NEW m \in Ids, live'[m] # 0 PROVE inst[live'[m]].id = m
      BY <3>2, <2>2 DEF InstOK
    <3> QED
      BY <2>1, <2>3, <3>0, <3>1, <3>2 DEF InstOK
  <2>5. VictimOK'
    BY <1>1, <2>1 DEF VictimOK
  <2>6. OnlyLiveInstancesRun'
    <3> SUFFICES ASSUME NEW j \in Instances \ slipped', inst[j].status \in {"provisioning", "ready"}
                 PROVE  live'[inst[j].id] = j
      BY <2>1, <2>3 DEF OnlyLiveInstancesRun
    <3>1. j # i
      BY <1>5, <2>1 DEF MayDeprovision, Pending
    <3>2. j \notin slipped
      BY <2>1
    <3>3. live[inst[j].id] = j /\ inst[j].id \in Ids
      BY <3>2, <1>2 DEF OnlyLiveInstancesRun, Inst
    <3>4. inst[j].id # n
      BY <3>1, <3>3
    <3> QED
      BY <3>3, <3>4, <2>2
  <2> QED
    BY <1>1, <2>1, <2>2, <2>3, <2>4, <2>5, <2>6
<1> QED
  BY <1>4, <1>5

\* Its edges are disconnected, unless a reversal fails.
LEMMA DisposedEdges ==
  ASSUME LiveInv, NEW n \in Ids, Dispose(n), ~wedged
  PROVE  /\ wired' \subseteq Wire /\ executed' \subseteq Wire /\ known' \in [Ids -> SUBSET Edges]
         /\ "reversal" \notin faults' =>
              /\ wired' = executed' /\ "reversal" \notin faults
              /\ executed' = {w \in executed : n \notin {w.edge[1], w.edge[2]}}
              /\ \A w \in executed' : WireOK(w)'
              /\ \A m \in Ids : \A e \in known'[m] : m \in {e[1], e[2]}
<1> USE DEF LiveInv
<1> DEFINE i == live[n]
           reversed == {w \in executed : w.edge \in known[n]}
<1>1. PICK S \in SUBSET reversed :
        /\ wired' = wired \ S /\ executed' = executed \ S
        /\ known' = [m \in Ids |-> IF m = n /\ ~MayDeprovision(i) THEN {}
                                   ELSE known[m] \ {w.edge : w \in S}]
        /\ (S = reversed /\ UNCHANGED faults) \/ "reversal" \in faults'
  BY DEF Dispose, Fault
<1>2. /\ wired \subseteq Wire /\ executed \subseteq Wire /\ known \in [Ids -> SUBSET Edges]
      /\ \A w \in executed : w.edge[1] \in Ids /\ w.edge[2] \in Ids /\ w.edge \in Edges
  BY DEF WiresOK, Wire, Edges
<1>3. wired' \subseteq Wire /\ executed' \subseteq Wire /\ known' \in [Ids -> SUBSET Edges]
  BY <1>1, <1>2
<1>4. ASSUME "reversal" \notin faults'
      PROVE  /\ wired' = executed' /\ "reversal" \notin faults
             /\ executed' = {w \in executed : n \notin {w.edge[1], w.edge[2]}}
             /\ \A w \in executed' : WireOK(w)'
             /\ \A m \in Ids : \A e \in known'[m] : m \in {e[1], e[2]}
  <2>1. S = reversed /\ UNCHANGED faults
    BY <1>1, <1>4
  <2>2. /\ wired = executed /\ \A w \in executed : WireOK(w)
        /\ \A m \in Ids : \A e \in known[m] : m \in {e[1], e[2]}
    BY <1>4, <2>1 DEF WiresOK
  <2>3. \A w \in executed : w \in reversed <=> n \in {w.edge[1], w.edge[2]}
    BY <1>2, <2>2 DEF WireOK
  <2>4. executed' = {w \in executed : n \notin {w.edge[1], w.edge[2]}}
    BY <1>1, <2>1, <2>3
  <2>5. ASSUME NEW w \in executed' PROVE WireOK(w)'
    <3>1. w \in executed /\ w.edge[1] \in Ids \ {n} /\ w.edge[2] \in Ids \ {n} /\ WireOK(w)
      BY <2>2, <2>4, <1>2
    <3>2. w.edge \notin {x.edge : x \in reversed}
      <4>1. w.edge \notin known[n]
        BY <3>1, <2>3
      <4> QED
        BY <4>1
    <3>3. w.edge \in known'[w.edge[1]] /\ w.edge \in known'[w.edge[2]]
      BY <3>1, <3>2, <1>1, <2>1 DEF WireOK
    <3>4. w.from = live'[w.edge[1]] /\ w.to = live'[w.edge[2]]
      BY <3>1 DEF Dispose, WireOK, InstOK
    <3>5. w.from \in Nat \ {0} /\ w.to \in Nat \ {0}
      BY <3>1, <1>2 DEF Wire
    <3>6. live[n] # 0 /\ inst[live[n]].id = n /\ (victim' = 0 \/ victim' = live[n])
      BY DEF Dispose, InstOK
    <3>7. w.from # live[n] /\ w.to # live[n]
      BY <3>1, <3>5, <3>6 DEF WireOK, InstOK
    <3> QED
      BY <3>3, <3>4, <3>5, <3>6, <3>7 DEF WireOK
  <2>6. \A m \in Ids : known'[m] \subseteq known[m]
    BY <1>1, <1>2
  <2>7. \A m \in Ids : \A e \in known'[m] : m \in {e[1], e[2]}
    BY <2>2, <2>6
  <2>8. wired' = executed'
    BY <1>1, <2>2
  <2> QED
    BY <1>4, <2>1, <2>4, <2>5, <2>7, <2>8
<1> QED
  BY <1>3, <1>4

\* A node with another template loses its instance, and the edges that went with it.
LEMMA RecreateDisposes ==
  ASSUME LiveInv, NEW n \in Ids, DisposeRecreated(n)
  PROVE  LiveInv'
<1> USE DEF LiveInv
<1>1. /\ phase = "recreate" /\ n \in todo /\ Dispose(n)
      /\ lost' = lost \cup {e \in lastGraph.edges \cap next.edges : n \in {e[1], e[2]}}
      /\ UNCHANGED <<lastGraph, queue, phase, next, todo, links, wedged, submitted, applies>>
  BY DEF DisposeRecreated
<1>2. next \in Graphs /\ ~wedged
  BY <1>1 DEF GraphsOK
<1>3. n \in Recreated(next) /\ n \in Present(lastGraph)
  BY <1>1 DEF WorkOK, Recreated, Kept
<1>4. /\ InstOK' /\ InstKept /\ VictimOK' /\ OnlyLiveInstancesRun' /\ Instances' = Instances
      /\ faults \subseteq faults' /\ faults' \subseteq Faults
      /\ \A m \in Ids \ {n} : live'[m] = live[m]
      /\ live'[n] = 0 \/ live'[n] = live[n]
  BY <1>1, DisposedInstance
<1>5. /\ wired' \subseteq Wire /\ executed' \subseteq Wire /\ known' \in [Ids -> SUBSET Edges]
      /\ "reversal" \notin faults' =>
           /\ wired' = executed' /\ "reversal" \notin faults
           /\ executed' = {w \in executed : n \notin {w.edge[1], w.edge[2]}}
           /\ \A w \in executed' : WireOK(w)'
           /\ \A m \in Ids : \A e \in known'[m] : m \in {e[1], e[2]}
  BY <1>1, <1>2, DisposedEdges
<1>6. GraphsOK' /\ QueueOK'
  BY <1>1, <1>4, GraphsFrame, QueueFrame DEF GraphsSame
<1>7. WorkOK'
  <2>1. lost' \subseteq Edges
    <3>1. next.edges \subseteq Edges
      BY <1>2, LiveGraphAssumption DEF Graph
    <3> QED
      BY <3>1, <1>1 DEF WorkOK
  <2> QED
    BY <2>1, <1>1, <1>4, WorkFrame
<1>8. NodesOK'
  <2> SUFFICES ASSUME NEW m \in Ids PROVE NodeOK(m)'
    BY DEF NodesOK
  <2>1. NodeOK(m)
    BY <1>2 DEF NodesOK
  <2>2. CASE live'[m] = live[m]
    BY <2>1, <2>2, <1>1, <1>4, NodeFrame
  <2>3. CASE m = n /\ live'[n] = 0
    <3>1. /\ Present(lastGraph)' = Present(lastGraph) /\ phase' = phase /\ todo' = todo
      BY <1>1, GraphSame
    <3> QED
      BY <2>3, <3>1, <1>1, <1>3 DEF NodeOK
  <2> QED
    BY <2>2, <2>3, <1>4
<1>9. ASSUME "reversal" \notin faults' PROVE LinkedOK'
  <2>1. LinkedOK
    BY <1>2, <1>5, <1>9 DEF WiresOK
  <2>2. /\ Linked \cap next.edges = (lastGraph.edges \cap next.edges) \ lost
        /\ Linked \subseteq lastGraph.edges
    BY <2>1, <1>1 DEF LinkedOK
  <2>3. Linked' = {e \in Linked : n \notin {e[1], e[2]}}
    BY <1>5, <1>9 DEF Linked
  <2>4. /\ Linked' \cap next.edges = (lastGraph.edges \cap next.edges) \ lost'
        /\ Linked' \subseteq lastGraph.edges
    BY <2>2, <2>3, <1>1
  <2> QED
    BY <2>4, <1>1 DEF LinkedOK
<1>10. WiresOK'
  BY <1>5, <1>9 DEF WiresOK
<1> QED
  BY <1>4, <1>6, <1>7, <1>8, <1>10

\* A node that is gone has no edges any more, and loses its instance.
LEMMA RemovesNode ==
  ASSUME LiveInv, NEW n \in Ids, RemoveNode(n)
  PROVE  LiveInv'
<1> USE DEF LiveInv
<1>1. /\ phase = "remove" /\ n \in todo
      /\ UNCHANGED <<lastGraph, queue, phase, next, links, wedged, submitted, applies, lost>>
  BY DEF RemoveNode
<1>2. next \in Graphs /\ ~wedged
  BY <1>1 DEF GraphsOK
<1>3. n \in Removed(next) /\ n \notin Present(next)
  BY <1>1 DEF WorkOK, Removed
<1>3a. /\ Present(next)' = Present(next) /\ Present(lastGraph)' = Present(lastGraph)
       /\ Removed(next)' = Removed(next)
  BY <1>1, GraphSame
<1>4. CASE live[n] # 0
  <2>1. Dispose(n) /\ UNCHANGED todo
    BY <1>4 DEF RemoveNode
  <2>2. /\ InstOK' /\ InstKept /\ VictimOK' /\ OnlyLiveInstancesRun' /\ Instances' = Instances
        /\ faults \subseteq faults' /\ faults' \subseteq Faults
        /\ \A m \in Ids \ {n} : live'[m] = live[m]
        /\ live'[n] = 0 \/ live'[n] = live[n]
    BY <1>1, <2>1, DisposedInstance
  <2>3. /\ wired' \subseteq Wire /\ executed' \subseteq Wire /\ known' \in [Ids -> SUBSET Edges]
        /\ "reversal" \notin faults' =>
             /\ wired' = executed' /\ "reversal" \notin faults
             /\ executed' = {w \in executed : n \notin {w.edge[1], w.edge[2]}}
             /\ \A w \in executed' : WireOK(w)'
             /\ \A m \in Ids : \A e \in known'[m] : m \in {e[1], e[2]}
    BY <1>2, <2>1, DisposedEdges
  <2>4. GraphsOK' /\ QueueOK'
    BY <1>1, <2>2, GraphsFrame, QueueFrame DEF GraphsSame
  <2>5. WorkOK'
    BY <1>1, <2>1, <2>2, WorkFrame DEF WorkOK
  <2>6. NodesOK'
    <3> SUFFICES ASSUME NEW m \in Ids PROVE NodeOK(m)'
      BY DEF NodesOK
    <3>1. NodeOK(m)
      BY <1>2 DEF NodesOK
    <3>2. CASE live'[m] = live[m]
      BY <3>1, <3>2, <1>1, <2>1, <2>2, NodeFrame
    <3>3. CASE m = n /\ live'[n] = 0
      BY <3>3, <1>1, <1>3, <1>3a DEF NodeOK
    <3> QED
      BY <3>2, <3>3, <2>2
  <2>7. ASSUME "reversal" \notin faults' PROVE LinkedOK'
    <3>1. LinkedOK
      BY <1>2, <2>3, <2>7 DEF WiresOK
    <3>2. /\ Linked \cap next.edges = (lastGraph.edges \cap next.edges) \ lost
          /\ Linked \subseteq lastGraph.edges /\ Linked \subseteq next.edges
      BY <3>1, <1>1 DEF LinkedOK
    <3>3. \A e \in Linked : n \notin {e[1], e[2]}
      <4>1. next.edges \subseteq Present(next) \X Present(next)
        BY <1>2, LiveGraphAssumption
      <4> QED
        BY <4>1, <3>2, <1>3
    <3>4. Linked' = Linked
      BY <3>3, <2>3, <2>7 DEF Linked
    <3> QED
      BY <3>2, <3>4, <1>1 DEF LinkedOK
  <2>8. WiresOK'
    BY <2>3, <2>7 DEF WiresOK
  <2> QED
    BY <2>2, <2>4, <2>5, <2>6, <2>8
<1>5. CASE live[n] = 0
  <2>1. todo' = todo \ {n} /\ UNCHANGED <<inst, live, edgeVars, victim, slipped, faults>>
    BY <1>5 DEF RemoveNode
  <2>2. InstOK' /\ InstKept /\ Instances' = Instances
    BY <2>1, InstSame
  <2>3. VictimOK'
    <3>1. victim # 0 => live[inst[victim].id] = victim /\ inst[victim].id # n
      BY <1>5 DEF VictimOK
    <3> QED
      BY <3>1, <2>1, <1>1 DEF VictimOK
  <2>4. OnlyLiveInstancesRun'
    BY <2>1, OnlyLiveSame
  <2>5. GraphsOK' /\ QueueOK'
    BY <1>1, <2>1, GraphsFrame, QueueFrame DEF GraphsSame, GraphsOK
  <2>6. WorkOK'
    BY <1>1, <1>3a, <2>1 DEF WorkOK
  <2>7. NodesOK'
    <3> SUFFICES ASSUME NEW m \in Ids PROVE NodeOK(m)'
      BY DEF NodesOK
    <3>1. NodeOK(m)
      BY <1>2 DEF NodesOK
    <3>2. Made(m, next) => Made(m, next)'
      BY <1>1, <2>1 DEF Made
    <3> QED
      BY <3>1, <3>2, <1>1, <1>3a, <1>5, <2>1 DEF NodeOK
  <2>8. WiresOK'
    BY <1>1, <2>1 DEF WiresOK, WireOK, LinkedOK, Linked, edgeVars
  <2> QED
    BY <2>2, <2>3, <2>4, <2>5, <2>6, <2>7, <2>8
<1> QED
  BY <1>4, <1>5

-----------------------------------------------------------------------------
(***************************************************************************)
(* The specification.                                                      *)
(***************************************************************************)

\* At first no graph is applied.
LEMMA InitLiveInv == Init => LiveInv
<1> SUFFICES ASSUME Init PROVE LiveInv
  OBVIOUS
<1> USE DEF Init
<1>1. Instances = {} /\ Len(inst) = 0 /\ inst \in Seq(Inst)
  BY EmptySeq DEF Instances
<1>2. InstOK /\ VictimOK /\ OnlyLiveInstancesRun
  BY <1>1 DEF InstOK, VictimOK, OnlyLiveInstancesRun
<1>3. Present(Empty) = {} /\ Empty.edges = {}
  BY DEF Present, Empty
<1>4. GraphsOK
  <2>1. queue \in Seq(Graphs)
    BY EmptySeq
  <2>2. applies \in 0 .. MaxApplies
    BY LiveGraphAssumption
  <2> QED
    BY <2>1, <2>2 DEF GraphsOK, Phases
<1>5. WorkOK /\ NodesOK /\ QueueOK
  BY <1>3 DEF WorkOK, NodesOK, NodeOK, QueueOK
<1>6. WiresOK
  <2>1. Linked = {}
    BY DEF Linked
  <2>2. LinkedOK
    BY <1>3, <2>1 DEF LinkedOK
  <2>3. known \in [Ids -> SUBSET Edges] /\ \A n \in Ids : known[n] = {}
    OBVIOUS
  <2>4. wired = executed /\ executed = {} /\ wired \subseteq Wire /\ executed \subseteq Wire
    OBVIOUS
  <2> HIDE DEF Init
  <2> QED
    BY <2>2, <2>3, <2>4 DEF WiresOK
<1> QED
  BY <1>2, <1>4, <1>5, <1>6 DEF LiveInv

\* Nothing happens.
LEMMA Stutters ==
  ASSUME LiveInv, UNCHANGED vars
  PROVE  LiveInv'
<1> USE DEF LiveInv
<1>1. /\ UNCHANGED <<inst, live, edgeVars, lastGraph, queue, victim, wedged, faults>>
      /\ UNCHANGED <<phase, next, todo, links, submitted, applies, lost, slipped>>
  BY DEF vars, applyVars, historyVars
<1>2. InstOK' /\ InstKept /\ Instances' = Instances /\ OnlyLiveInstancesRun'
  BY <1>1, InstSame, OnlyLiveSame
<1>3. VictimOK'
  BY <1>1 DEF VictimOK
<1>4. GraphsOK' /\ QueueOK'
  BY <1>1, GraphsFrame, QueueFrame DEF GraphsSame, GraphsOK
<1>5. WorkOK'
  BY <1>1, <1>2, WorkFrame DEF WorkOK
<1>6. NodesOK'
  BY <1>1, <1>2, NodesFrame
<1>7. WiresOK'
  BY <1>1, WiresFrame
<1> QED
  BY <1>2, <1>3, <1>4, <1>5, <1>6, <1>7

\* Every step keeps the invariant.
LEMMA NextLiveInv == LiveInv /\ [Next]_vars => LiveInv'
<1> SUFFICES ASSUME LiveInv, [Next]_vars PROVE LiveInv'
  OBVIOUS
<1>1. ASSUME NEW g \in Graphs, Apply(g) PROVE LiveInv'
  BY <1>1, Applied
<1>2. CASE StartApply
  BY <1>2, Started
<1>3. CASE Rejected
  BY <1>3, RejectedOne
<1>4. ASSUME NEW n \in Ids, AddNode(n) \/ RecreateNode(n) PROVE LiveInv'
  BY <1>4, AddsNode
<1>5. ASSUME NEW n \in Ids, DisposeRecreated(n) PROVE LiveInv'
  BY <1>5, RecreateDisposes
<1>6. ASSUME NEW n \in Ids, Configure(n) PROVE LiveInv'
  BY <1>6, Configured
<1>7. ASSUME NEW n \in Ids, RemoveNode(n) PROVE LiveInv'
  BY <1>7, RemovesNode
<1>8. ASSUME NEW e \in Edges, Unlink(e) PROVE LiveInv'
  BY <1>8, Unlinked
<1>9. ASSUME NEW e \in Edges, Link(e) PROVE LiveInv'
  BY <1>9, LinkedOne
<1>10. CASE ToRecreate \/ ToConfig
  BY <1>10, Recreates, Reconfigures
<1>11. CASE ToUnlink \/ ToRemove
  BY <1>11, Unlinks, Removes
<1>12. CASE ToLink \/ ToProvision \/ EndApply
  BY <1>12, Links, Provisions, Ends
<1>13. ASSUME NEW n \in Ids, ProvisionNode(n) \/ DeprovisionNode(n) PROVE LiveInv'
  BY <1>13, NodeActions
<1>14. ASSUME NEW i \in Instances, ProvisionEnds(i) PROVE LiveInv'
  BY <1>14, Provisioned
<1>15. ASSUME NEW i \in Instances, DeprovisionEnds(i) PROVE LiveInv'
  BY <1>15, Deprovisioned
<1>16. CASE UNCHANGED vars
  BY <1>16, Stutters
<1>17. ApplyStep => LiveInv'
  BY <1>2, <1>3, <1>4, <1>5, <1>6, <1>7, <1>8, <1>9, <1>10, <1>11, <1>12 DEF ApplyStep
<1> QED
  BY <1>1, <1>13, <1>14, <1>15, <1>16, <1>17 DEF Next

\* Every reachable state satisfies the invariant.
LEMMA LiveInvariant == Spec => []LiveInv
BY InitLiveInv, NextLiveInv, PTL DEF Spec

\* The empty graph is one.
LEMMA EmptyGraph == Empty \in Graph /\ Graphs \cup {Empty} \subseteq Graph
<1>1. (CHOOSE c \in Configs : TRUE) \in Configs
  BY LiveGraphAssumption
<1>2. [n \in Ids |-> "none"] \in [Ids -> Templates \cup {"none"}]
  OBVIOUS
<1>3. [n \in Ids |-> CHOOSE c \in Configs : TRUE] \in [Ids -> Configs]
  BY <1>1
<1>4. Empty \in Graph
  BY <1>2, <1>3 DEF Empty, Graph
<1> QED
  BY <1>4, LiveGraphAssumption

\* The invariant gives the types.
LEMMA LiveTypes == LiveInv => TypeOK
<1> SUFFICES ASSUME LiveInv PROVE TypeOK
  OBVIOUS
<1> USE DEF LiveInv
<1>1. /\ lastGraph \in Graph /\ next \in Graph /\ submitted \in Graph
      /\ lastGraph.edges \subseteq Edges /\ next.edges \subseteq Edges
  BY EmptyGraph DEF GraphsOK, Graph
<1>2. todo \subseteq Work
  BY <1>1 DEF WorkOK, Work, GraphsOK, Phases, Added, Recreated, Reconfigured, Removed, Kept, Present
<1>3. /\ inst \in Seq([id : Ids, template : Templates, config : Configs, status : Status])
      /\ live \in [Ids -> 0 .. Len(inst)]
      /\ \A n \in Ids : live[n] # 0 => inst[live[n]].id = n
      /\ victim \in 0 .. Len(inst)
      /\ slipped \subseteq Instances
  BY DEF InstOK, Inst
<1>4. /\ queue \in Seq(Graphs) /\ phase \in Phases /\ wedged \in BOOLEAN
      /\ applies \in 0 .. MaxApplies /\ faults \subseteq Faults
      /\ links \subseteq Edges /\ lost \subseteq Edges
  BY DEF GraphsOK, WorkOK
<1>5. wired \subseteq Wire /\ executed \subseteq Wire /\ known \in [Ids -> SUBSET Edges]
  BY DEF WiresOK
<1> QED
  BY <1>1, <1>2, <1>3, <1>4, <1>5 DEF TypeOK

(***************************************************************************)
(* What is applied is what runs: once every apply has been taken, the      *)
(* graph of the runtime is the one handed over last, and, whatever was     *)
(* provisioned, deprovisioned or failed meanwhile, the nodes and the       *)
(* connections between applies are those of that graph; the connections    *)
(* of nodes that were recreated are missing, and no others                 *)
(* (LiveGraphRuntime.apply, _applyGraphInternal, disposeNode).             *)
(***************************************************************************)
THEOREM AppliedIsRealised == Spec => []GraphRealised
<1>1. LiveInv => GraphRealised
  <2> SUFFICES ASSUME LiveInv PROVE GraphRealised
    OBVIOUS
  <2> USE DEF LiveInv
  <2>1. TypeOK
    BY LiveTypes
  <2>2. LastGraphApplied
    BY DEF LastGraphApplied, Settled, QueueOK
  <2>3. NodesMatchGraph
    <3> SUFFICES ASSUME Settled PROVE /\ \A n \in Ids : live[n] # 0 <=> n \in Present(lastGraph)
                                      /\ \A n \in Present(lastGraph) : Made(n, lastGraph)
      BY DEF NodesMatchGraph, Made
    <3>1. \A n \in Ids : IF n \in Present(lastGraph) THEN Made(n, lastGraph) ELSE live[n] = 0
      BY DEF NodesOK, NodeOK, Settled
    <3> QED
      BY <3>1 DEF Made, Present
  <2>4. WiresMatchGraph
    <3> SUFFICES ASSUME Settled, "reversal" \notin faults
                 PROVE  wired = {[edge |-> e, from |-> live[e[1]], to |-> live[e[2]]] :
                                   e \in lastGraph.edges \ lost}
      BY DEF WiresMatchGraph
    <3>1. /\ wired = executed /\ executed \subseteq Wire /\ \A w \in executed : WireOK(w)
          /\ Linked = lastGraph.edges \ lost
      BY DEF WiresOK, LinkedOK, Settled
    <3>2. ASSUME NEW w \in executed
          PROVE  w = [edge |-> w.edge, from |-> live[w.edge[1]], to |-> live[w.edge[2]]]
      BY <3>1 DEF WireOK, Wire
    <3>3. ASSUME NEW e \in lastGraph.edges \ lost
          PROVE  [edge |-> e, from |-> live[e[1]], to |-> live[e[2]]] \in executed
      <4>1. PICK w \in executed : w.edge = e
        BY <3>1 DEF Linked
      <4> QED
        BY <4>1, <3>2
    <3>4. \A w \in executed : w.edge \in lastGraph.edges \ lost
      BY <3>1 DEF Linked
    <3> QED
      BY <3>1, <3>2, <3>3, <3>4
  <2> QED
    BY <2>1, <2>2, <2>3, <2>4 DEF GraphRealised
<1> QED
  BY <1>1, LiveInvariant, PTL

(***************************************************************************)
(* Nothing runs that no node stands for: an instance that is provisioning  *)
(* or ready is that of its node, but for those that were disposed of while *)
(* they were being provisioned (disposeNode, Node.deprovision).            *)
(***************************************************************************)
THEOREM DisposedIsStopped == Spec => []OnlyLiveInstancesRun
<1>1. LiveInv => OnlyLiveInstancesRun
  BY DEF LiveInv
<1> QED
  BY <1>1, LiveInvariant, PTL

=============================================================================
