-------------------------- MODULE ContainersProofs --------------------------
(***************************************************************************)
(* Proofs about the workspace containers of a thread, for any containers,  *)
(* callers, scenarios and number of faults, and about the terminals opened *)
(* in a workspace, for any sessions and connections and whatever fails.    *)
(***************************************************************************)
EXTENDS Containers, Terminals, SequenceTheorems, TLAPS

DockerOK ==
  /\ docker \in [Ids -> {"none", "running", "exited", "gone"}]
  /\ built \in [Ids -> Platforms \cup {"none"}]
  /\ log \in [Ids -> Seq(Events)]
  /\ volume \in BOOLEAN

RowOK == row \in [Ids -> Row]

EventsOK ==
  /\ delivered \in [Ids -> Nat]
  /\ \A c \in Ids : delivered[c] <= Len(log[c])
  /\ handling # NoEvent => /\ handling \in [id : Ids, event : Nat \ {0}, read : Row]
                           /\ handling.event <= Len(log[handling.id])

WorkOK ==
  /\ sweeping \in BOOLEAN
  /\ job \in [Workers -> [Ids -> {"no", "claim", "stop", "remove", "mark"}]]
  /\ ensure \in [Callers -> [at : {"no", "stop", "remove", "create", "inspect", "write", "over"},
                             id : Ids \cup {"none"}]]
  /\ closing \in {"no", "terminate", "mark", "sweep", "volume", "reconcile", "over"}
  /\ todo \subseteq Ids /\ marked \subseteq Ids /\ late \subseteq Ids

CountsOK == faults \in 0 .. MaxFaults /\ scenario \in Scenarios /\ refused \subseteq Ids

\* Nothing works on a container that Docker has not created.
Known ==
  /\ \A c \in Ids : docker[c] = "none" =>
       /\ log[c] = <<>> /\ row[c].status = "none" /\ c \notin todo
       /\ \A w \in Workers : job[w][c] = "no"
  /\ \A k \in Callers : ensure[k].at \in {"stop", "remove", "inspect", "write"} =>
       ensure[k].id \in Ids /\ docker[ensure[k].id] # "none"
  /\ \A c \in Ids : row[c].status = "none" => ~row[c].mounts

Base == DockerOK /\ RowOK /\ EventsOK /\ WorkOK /\ CountsOK /\ Known

\* The container was removed, or Docker refused that with a 409.
Done(c) == docker[c] = "gone" \/ c \in refused

\* A container that was removed stays so, and a service marks a row stopped
\* only when its container was removed or the removal refused with a 409.
Gone ==
  \A c \in Ids :
    /\ \A w \in Workers : job[w][c] = "mark" => Done(c)
    /\ row[c].status = "stopped" /\ row[c].reason \in Workers => Done(c)

\* What the events of a container say of it, and that no row is ahead of them.
Logs ==
  \A c \in Ids :
    /\ \A i \in DOMAIN log[c] : log[c][i] = "start" => i = 1
    /\ docker[c] \in {"exited", "gone"} => \E i \in DOMAIN log[c] : log[c][i] \in {"die", "fail"}
    /\ row[c].lastEvent <= Now(c)

\* The event in hand is the last one taken.
InHand == faults = 0 /\ handling # NoEvent => handling.event = delivered[handling.id]

\* The end of a container whose row shows it running is still to be taken, and
\* the row has not seen anything later, or it is the event in hand.
Dying(c) ==
  \E i \in DOMAIN log[c] :
    /\ log[c][i] \in {"die", "fail"}
    /\ \/ delivered[c] < i /\ row[c].lastEvent <= TimeOf(i)
       \/ handling # NoEvent /\ handling.id = c /\ handling.event = i

EndsNoticed ==
  faults = 0 => \A c \in Ids \ late : row[c].status = "running" /\ docker[c] # "running" => Dying(c)

ContainersInv == Base /\ Gone /\ Logs /\ InHand /\ EndsNoticed
-----------------------------------------------------------------------------
(***************************************************************************)
(* What a step may do to a container, to its row and to its events.        *)
(***************************************************************************)

\* The events of a container that ends while it runs.
Endings == {<<"die">>, <<"fail">>, <<"oom", "fail">>, <<"kill", "die", "stop">>,
            <<"kill", "fail", "stop">>, <<"kill", "fail", "destroy">>}

Moves(c) ==
  \/ docker'[c] = docker[c] /\ log'[c] = log[c]
  \/ docker[c] = "none" /\ docker'[c] = "running" /\ log'[c] = <<"start">>
  \/ /\ docker[c] = "running" /\ docker'[c] \in {"exited", "gone"}
     /\ \E s \in Endings : log'[c] = log[c] \o s
  \/ docker[c] = "exited" /\ docker'[c] = "gone" /\ log'[c] = Append(log[c], "destroy")

DockerMoves == DockerOK' /\ \A c \in Ids : Moves(c)

\* Every such ending ends the container, and starts nothing.
LEMMA EndingsEnd ==
  ASSUME NEW s \in Endings
  PROVE  /\ s \in Seq(Events) /\ Len(s) \in Nat /\ DOMAIN s = 1 .. Len(s)
         /\ \A i \in 1 .. Len(s) : s[i] # "start"
         /\ \E i \in 1 .. Len(s) : s[i] \in {"die", "fail"}
<1>1. CASE s = <<"die">>
  BY <1>1 DEF Events
<1>2. CASE s = <<"fail">>
  BY <1>2 DEF Events
<1>3. CASE s = <<"oom", "fail">>
  BY <1>3 DEF Events
<1>4. CASE s = <<"kill", "die", "stop">>
  BY <1>4 DEF Events
<1>5. CASE s = <<"kill", "fail", "stop">>
  BY <1>5 DEF Events
<1>6. CASE s = <<"kill", "fail", "destroy">>
  BY <1>6 DEF Events
<1> QED
  BY <1>1, <1>2, <1>3, <1>4, <1>5, <1>6 DEF Endings

\* One container changes.
LEMMA OneMoves ==
  ASSUME DockerOK, NEW c \in Ids, NEW to \in {"running", "exited", "gone"}, NEW events \in Seq(Events),
         docker' = [docker EXCEPT ![c] = to], log' = [log EXCEPT ![c] = events],
         built' \in [Ids -> Platforms \cup {"none"}], volume' \in BOOLEAN, Moves(c)
  PROVE  DockerMoves
<1>1. docker' \in [Ids -> {"none", "running", "exited", "gone"}] /\ log' \in [Ids -> Seq(Events)]
  BY DEF DockerOK
<1>2. \A d \in Ids \ {c} : docker'[d] = docker[d] /\ log'[d] = log[d]
  BY DEF DockerOK
<1>3. \A d \in Ids : Moves(d)
  BY <1>2 DEF Moves
<1> QED
  BY <1>1, <1>3 DEF DockerMoves, DockerOK

\* A container that runs ends.
LEMMA EndMoves ==
  ASSUME DockerOK, NEW c \in Ids, docker[c] = "running", NEW to \in {"exited", "gone"},
         NEW s \in Endings, docker' = [docker EXCEPT ![c] = to],
         log' = [log EXCEPT ![c] = log[c] \o s], UNCHANGED <<built, volume>>
  PROVE  DockerMoves
<1>1. log[c] \o s \in Seq(Events)
  BY EndingsEnd, ConcatProperties DEF DockerOK
<1>2. Moves(c)
  BY DEF Moves, DockerOK
<1> QED
  BY <1>1, <1>2, OneMoves DEF DockerOK

\* Docker stops a container that runs.
LEMMA StopMoves ==
  ASSUME DockerOK, NEW c \in Ids, DockerStop(c), UNCHANGED <<built, volume>>
  PROVE  DockerMoves
<1>1. CASE docker[c] = "running"
  <2>1. PICK how \in {"die", "fail"} : log' = [log EXCEPT ![c] = @ \o <<"kill", how, "stop">>]
    BY <1>1 DEF DockerStop
  <2>2. <<"kill", how, "stop">> \in Endings /\ docker' = [docker EXCEPT ![c] = "exited"]
    BY <1>1 DEF DockerStop, Endings
  <2>3. log' = [log EXCEPT ![c] = log[c] \o <<"kill", how, "stop">>]
    BY <2>1 DEF DockerOK
  <2> QED
    BY <1>1, <2>2, <2>3, EndMoves
<1>2. CASE docker[c] # "running"
  BY <1>2 DEF DockerStop, DockerMoves, DockerOK, Moves
<1> QED
  BY <1>1, <1>2

\* Docker removes a container, which ends it first if it runs.
LEMMA RemoveMoves ==
  ASSUME DockerOK, NEW c \in Ids, docker[c] # "none", DockerRemove(c), UNCHANGED <<built, volume>>
  PROVE  DockerMoves /\ docker'[c] = "gone"
<1>1. docker' = [docker EXCEPT ![c] = "gone"] /\ docker'[c] = "gone"
  BY DEF DockerRemove, DockerOK
<1>2. CASE docker[c] = "running"
  <2>1. log' = [log EXCEPT ![c] = log[c] \o <<"kill", "fail", "destroy">>]
    BY <1>2 DEF DockerRemove, DockerOK
  <2> QED
    BY <1>1, <1>2, <2>1, EndMoves DEF Endings
<1>3. CASE docker[c] = "exited"
  <2>1. log' = [log EXCEPT ![c] = Append(log[c], "destroy")] /\ Append(log[c], "destroy") \in Seq(Events)
    BY <1>3, AppendProperties DEF DockerRemove, DockerOK, Events
  <2>2. Moves(c)
    BY <1>1, <1>3, <2>1 DEF Moves, DockerOK
  <2> QED
    BY <1>1, <2>1, <2>2, OneMoves DEF DockerOK
<1>4. CASE docker[c] = "gone"
  <2>1. log' = log /\ docker' = docker
    BY <1>1, <1>4 DEF DockerRemove, DockerOK
  <2> QED
    BY <1>1, <2>1 DEF DockerMoves, DockerOK, Moves
<1> QED
  BY <1>1, <1>2, <1>3, <1>4 DEF DockerOK

\* Containers are left alone.
LEMMA DockerSame ==
  ASSUME DockerOK, UNCHANGED <<docker, built, log>>, volume' \in BOOLEAN
  PROVE  DockerMoves
BY DEF DockerMoves, DockerOK, Moves

\* A caller of ensure has a container created and started.
LEMMA CreateMoves ==
  ASSUME Base, NEW k \in Callers, EnsureCreate(k)
  PROVE  DockerMoves
<1>1. CASE UNCHANGED dockerVars
  BY <1>1, DockerSame DEF dockerVars, Base, DockerOK
<1>2. CASE ~ UNCHANGED dockerVars
  <2>1. PICK c \in Ids :
          /\ docker[c] = "none"
          /\ docker' = [docker EXCEPT ![c] = "running"] /\ log' = [log EXCEPT ![c] = <<"start">>]
          /\ built' = [built EXCEPT ![c] = Platform[k]] /\ volume' = TRUE
    BY <1>2 DEF EnsureCreate, Unused
  <2>2. <<"start">> \in Seq(Events) /\ Platform[k] \in Platforms
    BY ContainersAssumption DEF Events, ContainersAssumption
  <2>3. Moves(c)
    BY <2>1 DEF Moves, Base, DockerOK
  <2> QED
    BY <2>1, <2>2, <2>3, OneMoves DEF Base, DockerOK
<1> QED
  BY <1>1, <1>2

\* No step does more to the containers of Docker than DockerMoves says.
LEMMA NextDocker == Base /\ Next => DockerMoves
<1> SUFFICES ASSUME Base, Next PROVE DockerMoves
  OBVIOUS
<1>0. DockerOK
  BY DEF Base
<1>1. ASSUME NEW c \in Ids, Exit(c) PROVE DockerMoves
  <2>1. PICK how \in {"die", "fail"} : log' = [log EXCEPT ![c] = Append(@, how)]
    BY <1>1 DEF Exit
  <2>2. Append(log[c], how) = log[c] \o <<how>> /\ <<how>> \in Endings
    BY <1>0, AppendIsConcat DEF DockerOK, Endings, Events
  <2>3. log' = [log EXCEPT ![c] = log[c] \o <<how>>]
    BY <2>1, <2>2, <1>0 DEF DockerOK
  <2> QED
    BY <1>0, <1>1, <2>2, <2>3, EndMoves DEF Exit
<1>2. ASSUME NEW c \in Ids, OutOfMemory(c) PROVE DockerMoves
  <2>1. log' = [log EXCEPT ![c] = log[c] \o <<"oom", "fail">>] /\ <<"oom", "fail">> \in Endings
    BY <1>0, <1>2 DEF OutOfMemory, DockerOK, Endings
  <2> QED
    BY <1>0, <1>2, <2>1, EndMoves DEF OutOfMemory
<1>3. ASSUME NEW k \in Callers, EnsureStop(k) PROVE DockerMoves
  <2>1. ensure[k].id \in Ids
    BY <1>3 DEF EnsureStop, Base, Known
  <2> QED
    BY <1>0, <1>3, <2>1, StopMoves, DockerSame DEF EnsureStop, Conflict, DockerOK
<1>4. ASSUME NEW k \in Callers, EnsureRemove(k) PROVE DockerMoves
  <2>1. ensure[k].id \in Ids /\ docker[ensure[k].id] # "none"
    BY <1>4 DEF EnsureRemove, Base, Known
  <2> QED
    BY <1>0, <1>4, <2>1, RemoveMoves, DockerSame DEF EnsureRemove, Conflict, DockerOK
<1>5. ASSUME NEW k \in Callers, EnsureCreate(k) PROVE DockerMoves
  BY <1>5, CreateMoves
<1>6. ASSUME NEW w \in Workers, NEW c \in Ids, StopContainer(w, c) PROVE DockerMoves
  BY <1>0, <1>6, StopMoves, DockerSame DEF StopContainer, Conflict, DockerOK
<1>7. ASSUME NEW w \in Workers, NEW c \in Ids, RemoveContainer(w, c) PROVE DockerMoves
  <2>1. docker[c] # "none"
    BY <1>7 DEF RemoveContainer, Base, Known
  <2> QED
    BY <1>0, <1>7, <2>1, RemoveMoves, DockerSame DEF RemoveContainer, Conflict, DockerOK
<1>8. CASE CloseReconcile \/ CollectVolume
  BY <1>0, <1>8, DockerSame DEF CloseReconcile, CollectVolume, DockerOK
<1>9. CASE UNCHANGED dockerVars
  BY <1>0, <1>9, DockerSame DEF dockerVars, DockerOK
<1>10. \/ \E c \in Ids : Exit(c) \/ OutOfMemory(c)
       \/ \E k \in Callers : EnsureStop(k) \/ EnsureRemove(k) \/ EnsureCreate(k)
       \/ \E w \in Workers, c \in Ids : StopContainer(w, c) \/ RemoveContainer(w, c)
       \/ CloseReconcile \/ CollectVolume
       \/ UNCHANGED dockerVars
  BY DEF Next, EnsureStep, EventStep, JobStep, SweepStep, CloseStep, Expire, RetryDue, DeleteRequest,
         EnsureFind, EnsureInspect, EnsureWrite, EventRead, EventWrite, Reconnect, MarkRemoved,
         SweepStart, SweepClaim, SweepEnd, CloseThread, CloseDiscover, CloseMark, CloseSweep,
         CloseSweepNext, CloseVolume, Crash
<1> QED
  BY <1>1, <1>2, <1>3, <1>4, <1>5, <1>6, <1>7, <1>8, <1>9, <1>10
-----------------------------------------------------------------------------
\* A row that does not come to show its container running, nor to have seen
\* anything but what happens now, and that is marked stopped by a service only
\* after its removal.
Keeps(c) ==
  /\ row'[c].status # "none" => row[c].status # "none"
  /\ row'[c].status = "none" /\ row'[c].mounts => row[c].status = "none" /\ row[c].mounts
  /\ row'[c].status = "running" => row[c].status = "running" /\ row'[c].lastEvent <= row[c].lastEvent
  /\ row'[c].lastEvent \in {0, row[c].lastEvent, Now(c)}
  /\ row'[c].status = "stopped" /\ row'[c].reason \in Workers =>
       \/ row[c].status = "stopped" /\ row[c].reason = row'[c].reason
       \/ \E w \in Workers : job[w][c] = "mark"

\* A row that a tool registers.
Starts(c) ==
  /\ row'[c].status = "running" /\ row'[c].lastEvent = Now(c)
  /\ docker[c] # "none"
  /\ docker[c] = "running" \/ c \in late'
  /\ UNCHANGED dockerVars

\* A row to which the event in hand is written.
Takes(c) ==
  /\ handling # NoEvent /\ handling.id = c /\ handling' = NoEvent
  /\ Registered(c)
  /\ row'[c] = AfterEvent(log[c][handling.event], handling.event, handling.read, row[c])
  /\ UNCHANGED <<dockerVars, delivered>>

RowMoves == RowOK' /\ \A c \in Ids : Keeps(c) \/ Starts(c) \/ Takes(c)

\* A row that is left alone.
LEMMA RowSame ==
  ASSUME RowOK, NEW c \in Ids, row'[c] = row[c]
  PROVE  Keeps(c)
<1>1. row[c].lastEvent \in Nat
  BY DEF RowOK, Row
<1> QED
  BY <1>1 DEF Keeps

\* One row changes.
LEMMA OneRow ==
  ASSUME RowOK, NEW c \in Ids, NEW r \in Row, row' = [row EXCEPT ![c] = r],
         Keeps(c) \/ Starts(c) \/ Takes(c)
  PROVE  RowMoves
<1>1. RowOK' /\ \A d \in Ids \ {c} : row'[d] = row[d]
  BY DEF RowOK
<1>2. \A d \in Ids : Keeps(d) \/ Starts(d) \/ Takes(d)
  BY <1>1, RowSame
<1> QED
  BY <1>1, <1>2 DEF RowMoves

\* A step that leaves all rows alone.
LEMMA RowsSame ==
  ASSUME RowOK, UNCHANGED row
  PROVE  RowMoves
<1>1. \A c \in Ids : Keeps(c)
  BY RowSame
<1> QED
  BY <1>1 DEF RowMoves, RowOK

\* A failed termination is noted in the row.
LEMMA FailureKeeps ==
  ASSUME RowOK, NEW c \in Ids, RecordTerminationFailure(c)
  PROVE  RowMoves
<1> DEFINE r == [row[c] EXCEPT !.waiting = TRUE]
<1>1. row[c] \in Row /\ r \in Row /\ r.status = row[c].status /\ r.lastEvent = row[c].lastEvent
      /\ r.reason = row[c].reason /\ row[c].lastEvent \in Nat
  BY DEF RowOK, Row
<1>2. CASE Registered(c)
  <2>1. row' = [row EXCEPT ![c] = r] /\ row'[c] = r
    BY <1>2 DEF RecordTerminationFailure, RowOK
  <2>2. Keeps(c)
    BY <1>1, <2>1 DEF Keeps
  <2> QED
    BY <1>1, <2>1, <2>2, OneRow
<1>3. CASE ~Registered(c)
  BY <1>3, RowsSame DEF RecordTerminationFailure
<1> QED
  BY <1>2, <1>3

\* Rows are marked stopped, by the reason of a service after the removal only.
LEMMA MarkKeeps ==
  ASSUME DockerOK, RowOK, NEW S, NEW reason \in Workers \cup {"workspace_volume_removed"},
         MarkStopped(S, reason),
         reason \in Workers => \A c \in S : c \in Ids => \E w \in Workers : job[w][c] = "mark"
  PROVE  RowMoves
<1>1. ASSUME NEW c \in Ids PROVE row'[c] \in Row /\ Keeps(c)
  <2>1. row[c] \in Row /\ row[c].lastEvent \in Nat /\ Now(c) \in Nat
    BY LenProperties DEF RowOK, Row, DockerOK, Now
  <2>2. CASE c \in S /\ Registered(c)
    <3>1. row'[c] = [row[c] EXCEPT !.status = "stopped", !.reason = reason, !.lastEvent = Now(c)]
      BY <2>2 DEF MarkStopped
    <3>2. row[c].status # "none"
      BY <2>2 DEF Registered
    <3>3. /\ row'[c].status = "stopped" /\ row'[c].reason = reason /\ row'[c].lastEvent = Now(c)
          /\ row'[c] \in Row
      <4>1. PICK r \in Row, n \in Nat : r = row[c] /\ n = Now(c)
        BY <2>1
      <4>2. row'[c] = [r EXCEPT !.status = "stopped", !.reason = reason, !.lastEvent = n]
        BY <3>1, <4>1
      <4>3. row'[c].status = "stopped"
        BY <4>2 DEF Row
      <4>4. row'[c].reason = reason
        BY <4>2 DEF Row
      <4>5. row'[c].lastEvent = n
        BY <4>2 DEF Row
      <4>6. row'[c] \in Row
        BY <4>2 DEF Row
      <4> QED
        BY <4>1, <4>3, <4>4, <4>5, <4>6
    <3> QED
      BY <2>2, <3>2, <3>3 DEF Keeps, Workers
  <2>3. CASE ~(c \in S /\ Registered(c))
    BY <2>1, <2>3, RowSame DEF MarkStopped
  <2> QED
    BY <2>2, <2>3
<1>2. row' \in [Ids -> Row]
  BY <1>1 DEF MarkStopped
<1> QED
  BY <1>1, <1>2 DEF RowMoves, RowOK

\* What an event makes of a row is a row.
LEMMA AfterEventIsRow ==
  ASSUME NEW e, NEW i \in Nat, NEW read \in Row, NEW now \in Row
  PROVE  /\ AfterEvent(e, i, read, now) \in Row
         /\ AfterEvent(e, i, read, now).lastEvent = TimeOf(i)
<1>1. StatusFor(e) \in {"none", "running", "stopped", "failed", "terminating"}
  BY DEF StatusFor
<1>2. TimeOf(i) \in Nat
  BY DEF TimeOf
<1>3. CASE CanTransition(e, read.status)
  BY <1>1, <1>2, <1>3 DEF AfterEvent, Row, CanTransition
<1>4. CASE ~CanTransition(e, read.status)
  BY <1>2, <1>4 DEF AfterEvent, Row
<1> QED
  BY <1>3, <1>4

\* No step does more to the rows than RowMoves says.
LEMMA NextRow == Base /\ Next => RowMoves
<1> SUFFICES ASSUME Base, Next PROVE RowMoves
  OBVIOUS
<1>0. /\ DockerOK /\ RowOK
      /\ \A c \in Ids : row[c] \in Row /\ row[c].lastEvent \in Nat /\ Now(c) \in Nat
  BY LenProperties DEF Base, RowOK, Row, DockerOK, Now
<1>1. ASSUME NEW c \in Ids, Expire(c) \/ RetryDue(c) PROVE RowMoves
  <2>1. PICK r \in {[row[c] EXCEPT !.expired = TRUE], [row[c] EXCEPT !.waiting = FALSE]} :
          row' = [row EXCEPT ![c] = r]
    BY <1>0, <1>1 DEF Expire, RetryDue, RowOK
  <2>2. r \in Row /\ r.status = row[c].status /\ r.lastEvent = row[c].lastEvent /\ r.reason = row[c].reason
        /\ r.mounts = row[c].mounts
    BY <1>0, <2>1 DEF Row
  <2>3. Keeps(c)
    BY <1>0, <2>1, <2>2 DEF Keeps, RowOK
  <2> QED
    BY <1>0, <2>1, <2>2, <2>3, OneRow
<1>2. ASSUME NEW k \in Callers, EnsureWrite(k) PROVE RowMoves
  <2>1. CASE UNCHANGED row
    BY <1>0, <2>1, RowsSame
  <2>2. CASE ~ UNCHANGED row
    <3> DEFINE c == ensure[k].id
               r == [NoRow EXCEPT !.status = "running", !.lastEvent = Now(c), !.mounts = TRUE]
    <3>1. c \in Ids /\ docker[c] # "none"
      BY <1>2 DEF EnsureWrite, Base, Known
    <3>2. /\ row' = [row EXCEPT ![c] = r] /\ UNCHANGED dockerVars
          /\ docker[c] = "running" \/ c \in late'
      BY <1>2, <2>2 DEF EnsureWrite, RegisterStart
    <3>3. r \in Row /\ r.status = "running" /\ r.lastEvent = Now(c)
      BY <1>0, <3>1 DEF Row, NoRow
    <3>4. row'[c] = r
      BY <1>0, <3>1, <3>2 DEF RowOK
    <3>5. Starts(c)
      BY <3>1, <3>2, <3>3, <3>4 DEF Starts
    <3> QED
      BY <1>0, <3>1, <3>2, <3>3, <3>5, OneRow
  <2> QED
    BY <2>1, <2>2
<1>3. CASE EventWrite
  <2>1. CASE UNCHANGED row
    BY <1>0, <2>1, RowsSame
  <2>2. CASE ~ UNCHANGED row
    <3> DEFINE c == handling.id
               r == AfterEvent(log[c][handling.event], handling.event, handling.read, row[c])
    <3>1. /\ handling # NoEvent /\ c \in Ids /\ handling.event \in Nat /\ handling.read \in Row
          /\ handling' = NoEvent /\ UNCHANGED <<dockerVars, delivered>>
      BY <1>3 DEF EventWrite, Base, EventsOK
    <3>2. Registered(c) /\ row' = [row EXCEPT ![c] = r]
      BY <1>0, <1>3, <2>2, <3>1 DEF EventWrite, RowOK
    <3>3. r \in Row
      BY <1>0, <3>1, AfterEventIsRow
    <3>4. row'[c] = r
      BY <1>0, <3>1, <3>2 DEF RowOK
    <3>5. Takes(c)
      BY <3>1, <3>2, <3>4 DEF Takes
    <3> QED
      BY <1>0, <3>1, <3>2, <3>3, <3>5, OneRow
  <2> QED
    BY <2>1, <2>2
<1>4. ASSUME NEW w \in Workers, NEW c \in Ids, StopContainer(w, c) \/ RemoveContainer(w, c)
      PROVE  RowMoves
  BY <1>0, <1>4, RowsSame, FailureKeeps DEF StopContainer, RemoveContainer
<1>5. ASSUME NEW w \in Workers, NEW c \in Ids, MarkRemoved(w, c) PROVE RowMoves
  <2>1. MarkStopped({c}, w) /\ job[w][c] = "mark"
    BY <1>5 DEF MarkRemoved
  <2> QED
    BY <1>0, <2>1, MarkKeeps
<1>6. ASSUME NEW c \in Ids, SweepClaim(c) PROVE RowMoves
  <2>1. CASE row[c].status = "running"
    <3> DEFINE r == [row[c] EXCEPT !.status = "terminating"]
    <3>1. /\ row' = [row EXCEPT ![c] = r] /\ row'[c] = r /\ r \in Row /\ r.status = "terminating"
          /\ r.lastEvent = row[c].lastEvent
      BY <1>0, <1>6, <2>1 DEF SweepClaim, RowOK, Row
    <3>2. Keeps(c)
      BY <2>1, <3>1 DEF Keeps
    <3> QED
      BY <1>0, <3>1, <3>2, OneRow
  <2> QED
    BY <1>0, <1>6, <2>1, RowsSame DEF SweepClaim
<1>7. CASE SweepEnd
  <2>1. PICK S \in SUBSET Purgeable : row' = [c \in Ids |-> IF c \in S THEN NoRow ELSE row[c]]
    BY <1>7 DEF SweepEnd
  <2>2. NoRow \in Row /\ NoRow.status = "none" /\ NoRow.lastEvent = 0 /\ ~NoRow.mounts
    BY DEF NoRow, Row
  <2>3. row' \in [Ids -> Row]
    BY <1>0, <2>1, <2>2
  <2>4. ASSUME NEW c \in Ids PROVE Keeps(c)
    BY <1>0, <2>1, <2>2, RowSame DEF Keeps
  <2> QED
    BY <2>3, <2>4 DEF RowMoves, RowOK
<1>8. ASSUME NEW c \in Ids, CloseMark(c) PROVE RowMoves
  <2>1. CASE Registered(c)
    <3> DEFINE r == [row[c] EXCEPT !.status = "terminating", !.reason = "thread_closed",
                                   !.waiting = FALSE, !.lastEvent = 0, !.mounts = FALSE]
    <3>1. row' = [row EXCEPT ![c] = r] /\ row'[c] = r
      BY <1>0, <1>8, <2>1 DEF CloseMark, RowOK
    <3>2. r \in Row /\ r.status = "terminating" /\ r.lastEvent = 0
      BY <1>0 DEF Row, Workers
    <3>3. Keeps(c)
      BY <2>1, <3>1, <3>2 DEF Keeps, Registered
    <3> QED
      BY <1>0, <3>1, <3>2, <3>3, OneRow
  <2> QED
    BY <1>0, <1>8, <2>1, RowsSame DEF CloseMark
<1>9. CASE CloseReconcile
  <2>1. MarkStopped(todo, "workspace_volume_removed") \/ UNCHANGED row
    BY <1>9 DEF CloseReconcile
  <2>2. "workspace_volume_removed" \notin Workers
    BY DEF Workers
  <2> QED
    BY <1>0, <2>1, <2>2, MarkKeeps, RowsSame
<1>10. CASE UNCHANGED row
  BY <1>0, <1>10, RowsSame
<1>11. \/ \E c \in Ids : Expire(c) \/ RetryDue(c) \/ SweepClaim(c) \/ CloseMark(c)
       \/ \E k \in Callers : EnsureWrite(k)
       \/ EventWrite
       \/ \E w \in Workers, c \in Ids :
            StopContainer(w, c) \/ RemoveContainer(w, c) \/ MarkRemoved(w, c)
       \/ SweepEnd \/ CloseReconcile
       \/ UNCHANGED row
  BY DEF Next, EnsureStep, EventStep, JobStep, SweepStep, CloseStep, Exit, OutOfMemory, DeleteRequest,
         EnsureFind, EnsureStop, EnsureRemove, EnsureCreate, EnsureInspect, EventRead, Reconnect,
         SweepStart, CloseThread, CloseDiscover, CloseSweep, CloseSweepNext, CloseVolume,
         CollectVolume, Crash
<1> QED
  BY <1>1, <1>2, <1>3, <1>4, <1>5, <1>6, <1>7, <1>8, <1>9, <1>10, <1>11
-----------------------------------------------------------------------------
\* The events of a container are added to, and never taken back.
LEMMA LogGrows ==
  ASSUME Base, DockerMoves, NEW c \in Ids
  PROVE  /\ Len(log[c]) \in Nat /\ DOMAIN log[c] = 1 .. Len(log[c])
         /\ Len(log'[c]) \in Nat /\ DOMAIN log'[c] = 1 .. Len(log'[c])
         /\ Len(log[c]) <= Len(log'[c])
         /\ \A i \in DOMAIN log[c] : log'[c][i] = log[c][i]
<1>1. log[c] \in Seq(Events) /\ log'[c] \in Seq(Events)
  BY DEF Base, DockerMoves, DockerOK
<1>2. /\ Len(log[c]) \in Nat /\ DOMAIN log[c] = 1 .. Len(log[c])
      /\ Len(log'[c]) \in Nat /\ DOMAIN log'[c] = 1 .. Len(log'[c])
  BY <1>1, LenProperties
<1>3. Moves(c)
  BY DEF DockerMoves
<1>4. CASE log'[c] = log[c]
  BY <1>2, <1>4
<1>5. CASE docker[c] = "none" /\ log'[c] = <<"start">>
  <2>1. log[c] = <<>>
    BY <1>5 DEF Base, Known
  <2> QED
    BY <1>2, <2>1
<1>6. ASSUME NEW s \in Endings, log'[c] = log[c] \o s
      PROVE  Len(log[c]) <= Len(log'[c]) /\ \A i \in DOMAIN log[c] : log'[c][i] = log[c][i]
  <2>1. s \in Seq(Events) /\ Len(s) \in Nat
    BY EndingsEnd
  <2>2. /\ Len(log[c] \o s) = Len(log[c]) + Len(s)
        /\ \A i \in 1 .. Len(log[c]) + Len(s) :
             (log[c] \o s)[i] = IF i <= Len(log[c]) THEN log[c][i] ELSE s[i - Len(log[c])]
    BY <1>1, <2>1, ConcatProperties
  <2> QED
    BY <1>2, <1>6, <2>1, <2>2
<1>7. CASE log'[c] = Append(log[c], "destroy")
  <2>1. "destroy" \in Events
    BY DEF Events
  <2> QED
    BY <1>1, <1>2, <1>7, <2>1, AppendProperties
<1> QED
  BY <1>2, <1>3, <1>4, <1>5, <1>6, <1>7 DEF Moves

\* The counters and the history only grow.
LEMMA NextCounts ==
  Base /\ Next => CountsOK' /\ faults <= faults' /\ late \subseteq late' /\ refused \subseteq refused'
<1> SUFFICES ASSUME Base, Next
             PROVE  CountsOK' /\ faults <= faults' /\ late \subseteq late' /\ refused \subseteq refused'
  OBVIOUS
<1>1. /\ faults \in 0 .. MaxFaults /\ scenario \in Scenarios /\ refused \subseteq Ids
      /\ MaxFaults \in Nat
  BY ContainersAssumption DEF Base, CountsOK, ContainersAssumption
<1>2. UNCHANGED faults \/ \E kind \in FaultKinds : Fault(kind)
  BY DEF Next, EnsureStep, EventStep, JobStep, SweepStep, CloseStep, Exit, OutOfMemory, Expire,
         RetryDue, DeleteRequest, EnsureFind, EnsureStop, EnsureRemove, EnsureCreate,
         EnsureInspect, EnsureWrite, EventRead, EventWrite, Reconnect, StopContainer,
         RemoveContainer, MarkRemoved, SweepStart, SweepClaim, SweepEnd, CloseThread,
         CloseDiscover, CloseMark, CloseSweep, CloseSweepNext, CloseVolume, CloseReconcile,
         CollectVolume, Crash, Conflict, FaultKinds
<1>3. UNCHANGED scenario
  BY DEF Next, EnsureStep, EventStep, JobStep, SweepStep, CloseStep, Exit, OutOfMemory, Expire,
         RetryDue, DeleteRequest, EnsureFind, EnsureStop, EnsureRemove, EnsureCreate,
         EnsureInspect, EnsureWrite, EventRead, EventWrite, Reconnect, StopContainer,
         RemoveContainer, MarkRemoved, SweepStart, SweepClaim, SweepEnd, CloseThread,
         CloseDiscover, CloseMark, CloseSweep, CloseSweepNext, CloseVolume, CloseReconcile,
         CollectVolume, Crash
<1>4. late \subseteq late'
  BY DEF Next, EnsureStep, EventStep, JobStep, SweepStep, CloseStep, Exit, OutOfMemory, Expire,
         RetryDue, DeleteRequest, EnsureFind, EnsureStop, EnsureRemove, EnsureCreate,
         EnsureInspect, EnsureWrite, EventRead, EventWrite, Reconnect, StopContainer,
         RemoveContainer, MarkRemoved, SweepStart, SweepClaim, SweepEnd, CloseThread,
         CloseDiscover, CloseMark, CloseSweep, CloseSweepNext, CloseVolume, CloseReconcile,
         CollectVolume, Crash
<1>5. UNCHANGED refused \/ \E c \in Ids : refused' = refused \cup {c}
  BY DEF Next, EnsureStep, EventStep, JobStep, SweepStep, CloseStep, Exit, OutOfMemory, Expire,
         RetryDue, DeleteRequest, EnsureFind, EnsureStop, EnsureRemove, EnsureCreate,
         EnsureInspect, EnsureWrite, EventRead, EventWrite, Reconnect, StopContainer,
         RemoveContainer, MarkRemoved, SweepStart, SweepClaim, SweepEnd, CloseThread,
         CloseDiscover, CloseMark, CloseSweep, CloseSweepNext, CloseVolume, CloseReconcile,
         CollectVolume, Crash
<1>6. refused \subseteq refused' /\ refused' \subseteq Ids
  BY <1>1, <1>5
<1>7. CASE UNCHANGED faults
  BY <1>1, <1>3, <1>4, <1>6, <1>7 DEF CountsOK
<1>8. ASSUME NEW kind \in FaultKinds, Fault(kind)
      PROVE  CountsOK' /\ faults <= faults'
  BY <1>1, <1>3, <1>6, <1>8 DEF CountsOK, Fault
<1> QED
  BY <1>2, <1>4, <1>6, <1>7, <1>8

\* What a step does to the events still to be taken; without a fault none is
\* lost or comes again.
EventMoves ==
  /\ EventsOK'
  /\ \A c \in Ids : delivered'[c] <= Len(log[c])
  /\ faults' = 0 => UNCHANGED eventVars \/ EventWrite \/ \E c \in Ids : EventRead(c)

\* No step does more to the events than EventMoves says.
LEMMA NextEvents == Base /\ Next => EventMoves
<1> SUFFICES ASSUME Base, Next PROVE EventMoves
  OBVIOUS
<1>1. DockerMoves
  BY NextDocker
<1>2. /\ delivered \in [Ids -> Nat]
      /\ \A c \in Ids : Len(log[c]) \in Nat /\ Len(log'[c]) \in Nat /\ Len(log[c]) <= Len(log'[c])
      /\ \A c \in Ids : delivered[c] <= Len(log[c])
  BY <1>1, LogGrows DEF Base, EventsOK
<1>3. handling # NoEvent =>
        /\ handling \in [id : Ids, event : Nat \ {0}, read : Row]
        /\ handling.event <= Len(log'[handling.id])
  BY <1>2 DEF Base, EventsOK
<1>4. ASSUME handling' \in {handling, NoEvent}, delivered' \in [Ids -> Nat],
             \A c \in Ids : delivered'[c] <= Len(log[c])
      PROVE  EventsOK'
  <2>1. \A c \in Ids : delivered'[c] <= Len(log'[c])
    BY <1>2, <1>4
  <2> QED
    BY <1>3, <1>4, <2>1 DEF EventsOK
<1>5. ASSUME NEW c \in Ids, EventRead(c) PROVE EventMoves
  <2> DEFINE i == delivered[c] + 1
  <2>1. /\ i \in Nat \ {0} /\ i <= Len(log[c]) /\ i <= Len(log'[c])
        /\ delivered' = [delivered EXCEPT ![c] = i] /\ row[c] \in Row
        /\ handling' \in {NoEvent, [id |-> c, event |-> i, read |-> row[c]]}
    BY <1>2, <1>5 DEF EventRead, Base, RowOK
  <2>2. /\ delivered' \in [Ids -> Nat] /\ \A d \in Ids : delivered'[d] <= Len(log[d])
        /\ \A d \in Ids : delivered'[d] <= Len(log'[d])
    BY <1>2, <2>1
  <2>3. handling' # NoEvent =>
          /\ handling' \in [id : Ids, event : Nat \ {0}, read : Row]
          /\ handling'.event <= Len(log'[handling'.id])
    BY <2>1
  <2> QED
    BY <1>5, <2>2, <2>3 DEF EventMoves, EventsOK
<1>6. CASE EventWrite
  <2>1. handling' = NoEvent /\ UNCHANGED delivered
    BY <1>6 DEF EventWrite
  <2> QED
    BY <1>2, <1>4, <1>6, <2>1 DEF EventMoves
<1>7. ASSUME Reconnect \/ Crash PROVE EventMoves
  <2>1. faults' # 0
    BY <1>7 DEF Reconnect, Crash, Fault, Base, CountsOK
  <2>2. handling' \in {handling, NoEvent}
    BY <1>7 DEF Reconnect, Crash
  <2>3. delivered' \in [Ids -> Nat] /\ \A c \in Ids : delivered'[c] <= Len(log[c])
    <3>1. CASE Reconnect
      <4>1. PICK c \in Ids : \E i \in 0 .. (delivered[c] - 1) : delivered' = [delivered EXCEPT ![c] = i]
        BY <3>1 DEF Reconnect
      <4>2. PICK i \in 0 .. (delivered[c] - 1) : delivered' = [delivered EXCEPT ![c] = i]
        BY <4>1
      <4>3. i \in Nat /\ i <= Len(log[c])
        BY <1>2, <4>2
      <4> QED
        BY <1>2, <4>2, <4>3
    <3>2. CASE Crash
      BY <1>2, <3>2 DEF Crash
    <3> QED
      BY <1>7, <3>1, <3>2
  <2> QED
    BY <1>4, <2>1, <2>2, <2>3 DEF EventMoves
<1>8. CASE UNCHANGED eventVars
  BY <1>2, <1>4, <1>8 DEF EventMoves, eventVars
<1>9. \/ \E c \in Ids : EventRead(c)
      \/ EventWrite \/ Reconnect \/ Crash
      \/ UNCHANGED eventVars
  BY DEF Next, EnsureStep, EventStep, JobStep, SweepStep, CloseStep, Exit, OutOfMemory, Expire,
         RetryDue, DeleteRequest, EnsureFind, EnsureStop, EnsureRemove, EnsureCreate,
         EnsureInspect, EnsureWrite, StopContainer, RemoveContainer, MarkRemoved, SweepStart,
         SweepClaim, SweepEnd, CloseThread, CloseDiscover, CloseMark, CloseSweep,
         CloseSweepNext, CloseVolume, CloseReconcile, CollectVolume
<1> QED
  BY <1>5, <1>6, <1>7, <1>8, <1>9
-----------------------------------------------------------------------------
\* What a step does to those who work on the containers.
WorkMoves ==
  /\ WorkOK'
  /\ \A c \in Ids : docker[c] = "none" => c \notin todo' /\ \A w \in Workers : job'[w][c] = "no"
  /\ \A k \in Callers : ensure'[k].at \in {"stop", "remove", "inspect", "write"} =>
       ensure'[k].id \in Ids /\ docker'[ensure'[k].id] # "none"
  /\ \A w \in Workers, c \in Ids : job'[w][c] = "mark" => job[w][c] = "mark" \/ Done(c)'

\* A container that exists goes on to.
LEMMA StillCreated ==
  ASSUME DockerMoves
  PROVE  \A c \in Ids : docker[c] # "none" => docker'[c] # "none"
BY DEF DockerMoves, Moves

\* A call of ensureWorkspace goes on.
LEMMA CallMoves ==
  ASSUME Base, DockerMoves, NEW k \in Callers,
         NEW to \in {"stop", "remove", "create", "inspect", "write", "over"}, NEW c \in Ids \cup {"none"},
         EnsureAt(k, to, c), to \in {"stop", "remove", "inspect", "write"} => c \in Ids /\ docker'[c] # "none",
         UNCHANGED <<sweeping, job, closeVars>>, late' \subseteq Ids
  PROVE  WorkMoves
<1>1. ensure' = [ensure EXCEPT ![k] = [at |-> to, id |-> c]]
  BY DEF EnsureAt
<1>2. WorkOK'
  BY <1>1 DEF Base, WorkOK, closeVars
<1>3. \A j \in Callers : ensure'[j].at \in {"stop", "remove", "inspect", "write"} =>
        ensure'[j].id \in Ids /\ docker'[ensure'[j].id] # "none"
  <2>1. ensure'[k].at = to /\ ensure'[k].id = c /\ \A j \in Callers \ {k} : ensure'[j] = ensure[j]
    BY <1>1 DEF Base, WorkOK
  <2> QED
    BY <2>1, StillCreated DEF Base, Known
<1>4. \A d \in Ids : docker[d] = "none" => d \notin todo' /\ \A w \in Workers : job'[w][d] = "no"
  BY DEF Base, Known, closeVars
<1>5. \A w \in Workers, d \in Ids : job'[w][d] = "mark" => job[w][d] = "mark"
  OBVIOUS
<1> QED
  BY <1>2, <1>3, <1>4, <1>5 DEF WorkMoves

\* A container is worked on.
LEMMA JobMoves ==
  ASSUME Base, DockerMoves, NEW w \in Workers, NEW c \in Ids,
         NEW to \in {"no", "stop", "remove", "mark"}, JobAt(w, c, to),
         docker[c] # "none", to = "mark" => Done(c)',
         UNCHANGED <<sweeping, ensure, marked, late>>, todo' \subseteq todo,
         closing' = closing
  PROVE  WorkMoves
<1>1. /\ job' = [job EXCEPT ![w][c] = to]
      /\ job \in [Workers -> [Ids -> {"no", "claim", "stop", "remove", "mark"}]]
  BY DEF JobAt, Base, WorkOK
<1>2. /\ job' \in [Workers -> [Ids -> {"no", "claim", "stop", "remove", "mark"}]]
      /\ job'[w][c] = to
      /\ \A v \in Workers, d \in Ids : v # w \/ d # c => job'[v][d] = job[v][d]
  BY <1>1
<1>3. WorkOK'
  BY <1>2 DEF Base, WorkOK
<1>4. \A d \in Ids : docker[d] = "none" => d \notin todo' /\ \A v \in Workers : job'[v][d] = "no"
  BY <1>2 DEF Base, Known
<1>5. \A v \in Workers, d \in Ids : job'[v][d] = "mark" => job[v][d] = "mark" \/ Done(d)'
  BY <1>2
<1>6. \A k \in Callers : ensure'[k].at \in {"stop", "remove", "inspect", "write"} =>
        ensure'[k].id \in Ids /\ docker'[ensure'[k].id] # "none"
  BY StillCreated DEF Base, Known
<1> QED
  BY <1>3, <1>4, <1>5, <1>6 DEF WorkMoves

\* The cascade goes on.
LEMMA ClosingMoves ==
  ASSUME Base, DockerMoves, UNCHANGED <<sweeping, job, ensure, late>>,
         closing' \in {"no", "terminate", "mark", "sweep", "volume", "reconcile", "over"},
         todo' \subseteq Ids, marked' \subseteq Ids,
         \A c \in todo' : docker[c] # "none"
  PROVE  WorkMoves
<1>1. WorkOK'
  BY DEF Base, WorkOK
<1>2. \A k \in Callers : ensure'[k].at \in {"stop", "remove", "inspect", "write"} =>
        ensure'[k].id \in Ids /\ docker'[ensure'[k].id] # "none"
  BY StillCreated DEF Base, Known
<1> QED
  BY <1>1, <1>2 DEF WorkMoves, Base, Known

\* No step does more to the work in progress than WorkMoves says.
LEMMA NextWork == Base /\ Next => WorkMoves
<1> SUFFICES ASSUME Base, Next PROVE WorkMoves
  OBVIOUS
<1>1. /\ DockerMoves
      /\ docker \in [Ids -> {"none", "running", "exited", "gone"}]
      /\ ensure \in [Callers -> [at : {"no", "stop", "remove", "create", "inspect", "write", "over"},
                                 id : Ids \cup {"none"}]]
      /\ job \in [Workers -> [Ids -> {"no", "claim", "stop", "remove", "mark"}]]
      /\ todo \subseteq Ids /\ marked \subseteq Ids /\ late \subseteq Ids
      /\ \A c \in todo : docker[c] # "none"
      /\ \A c \in Ids : row[c].status # "none" => docker[c] # "none"
  BY NextDocker DEF Base, DockerOK, WorkOK, Known
<1>2. ASSUME NEW k \in Callers, EnsureFind(k) PROVE WorkMoves
  <2>1. \/ EnsureAt(k, "create", "none")
        \/ \E c \in Ids : docker[c] = "running" /\ (EnsureAt(k, "inspect", c) \/ EnsureAt(k, "stop", c))
    BY <1>2 DEF EnsureFind
  <2>2. UNCHANGED <<sweeping, job, closeVars, late, docker>>
    BY <1>2 DEF EnsureFind, dockerVars
  <2>3. CASE EnsureAt(k, "create", "none")
    BY <1>1, <2>2, <2>3, CallMoves
  <2>4. ASSUME NEW c \in Ids, docker[c] = "running", EnsureAt(k, "inspect", c) \/ EnsureAt(k, "stop", c)
        PROVE  WorkMoves
    BY <1>1, <2>2, <2>4, CallMoves
  <2> QED
    BY <2>1, <2>3, <2>4
<1>3. ASSUME NEW k \in Callers, EnsureStop(k) \/ EnsureRemove(k) PROVE WorkMoves
  <2>1. ensure[k].id \in Ids /\ docker'[ensure[k].id] # "none"
    BY <1>1, <1>3, StillCreated DEF EnsureStop, EnsureRemove, Base, Known
  <2>2. \/ EnsureAt(k, "remove", ensure[k].id) \/ EnsureAt(k, "over", "none") \/ EnsureAt(k, "create", "none")
    BY <1>3 DEF EnsureStop, EnsureRemove
  <2>3. UNCHANGED <<sweeping, job, closeVars, late>>
    BY <1>3 DEF EnsureStop, EnsureRemove
  <2> QED
    BY <1>1, <2>1, <2>2, <2>3, CallMoves
<1>4. ASSUME NEW k \in Callers, EnsureCreate(k) PROVE WorkMoves
  <2>1. \/ EnsureAt(k, "over", "none")
        \/ \E c \in Ids : docker' = [docker EXCEPT ![c] = "running"] /\ EnsureAt(k, "inspect", c)
    BY <1>4 DEF EnsureCreate, Unused
  <2>2. UNCHANGED <<sweeping, job, closeVars, late>>
    BY <1>4 DEF EnsureCreate
  <2>3. ASSUME NEW c \in Ids, docker' = [docker EXCEPT ![c] = "running"], EnsureAt(k, "inspect", c)
        PROVE  WorkMoves
    BY <1>1, <2>2, <2>3, CallMoves
  <2> QED
    BY <1>1, <2>1, <2>2, <2>3, CallMoves
<1>5. ASSUME NEW k \in Callers, EnsureInspect(k) \/ EnsureWrite(k) PROVE WorkMoves
  <2>1. ensure[k].id \in Ids /\ docker'[ensure[k].id] # "none"
    BY <1>1, <1>5, StillCreated DEF EnsureInspect, EnsureWrite, Base, Known
  <2>2. EnsureAt(k, "write", ensure[k].id) \/ EnsureAt(k, "over", ensure[k].id)
    BY <1>5 DEF EnsureInspect, EnsureWrite
  <2>3. UNCHANGED <<sweeping, job, closeVars>> /\ late' \subseteq Ids
    BY <1>1, <1>5, <2>1 DEF EnsureInspect, EnsureWrite
  <2> QED
    BY <1>1, <2>1, <2>2, <2>3, CallMoves
<1>6. ASSUME NEW w \in Workers, NEW c \in Ids,
             StopContainer(w, c) \/ RemoveContainer(w, c) \/ MarkRemoved(w, c)
      PROVE  WorkMoves
  <2>1. docker[c] # "none"
    BY <1>6 DEF StopContainer, RemoveContainer, MarkRemoved, Base, Known
  <2>2. \/ JobAt(w, c, "remove") \/ JobAt(w, c, "no")
        \/ DockerRemove(c) /\ JobAt(w, c, "mark")
        \/ c \in refused' /\ JobAt(w, c, "mark")
    BY <1>6 DEF StopContainer, RemoveContainer, MarkRemoved
  <2>3. UNCHANGED <<sweeping, ensure, closeVars, late>>
    BY <1>6 DEF StopContainer, RemoveContainer, MarkRemoved
  <2>4. DockerRemove(c) \/ c \in refused' => Done(c)'
    BY <1>1 DEF DockerRemove, Done
  <2> QED
    BY <1>1, <2>1, <2>2, <2>3, <2>4, JobMoves DEF closeVars
<1>7. ASSUME NEW c \in Ids, DeleteRequest(c) PROVE WorkMoves
  <2>1. docker[c] # "none" /\ JobAt("manual_delete", c, "stop") /\ UNCHANGED <<sweeping, ensure, closeVars, late>>
    BY <1>1, <1>7 DEF DeleteRequest, Exists
  <2> QED
    BY <1>1, <2>1, JobMoves DEF Workers, closeVars
<1>8. CASE SweepStart
  <2>1. /\ sweeping' = TRUE /\ UNCHANGED <<ensure, closeVars, late>>
        /\ job' = [job EXCEPT !["ttl_expired"] =
                     [c \in Ids |-> IF c \in Overdue THEN "claim"
                                    ELSE IF c \in Retryable THEN "stop" ELSE "no"]]
    BY <1>8 DEF SweepStart
  <2>2. \A c \in Overdue \cup Retryable : row[c].status # "none"
    BY DEF Overdue, Retryable
  <2>3. /\ job' \in [Workers -> [Ids -> {"no", "claim", "stop", "remove", "mark"}]]
        /\ \A w \in Workers, c \in Ids :
             \/ job'[w][c] = job[w][c] \/ job'[w][c] = "no"
             \/ row[c].status # "none" /\ job'[w][c] # "mark"
    BY <1>1, <2>1, <2>2
  <2>4. WorkOK'
    BY <2>1, <2>3 DEF Base, WorkOK, closeVars
  <2>5. \A k \in Callers : ensure'[k].at \in {"stop", "remove", "inspect", "write"} =>
          ensure'[k].id \in Ids /\ docker'[ensure'[k].id] # "none"
    BY <1>1, <2>1, StillCreated DEF Base, Known
  <2>6. \A c \in Ids : docker[c] = "none" => c \notin todo' /\ \A w \in Workers : job'[w][c] = "no"
    BY <1>1, <2>1, <2>3 DEF Base, Known, closeVars
  <2>7. \A w \in Workers, c \in Ids : job'[w][c] = "mark" => job[w][c] = "mark" \/ Done(c)'
    BY <2>3
  <2> QED
    BY <2>4, <2>5, <2>6, <2>7 DEF WorkMoves
<1>9. ASSUME NEW c \in Ids, SweepClaim(c) PROVE WorkMoves
  <2>1. docker[c] # "none" /\ UNCHANGED <<sweeping, ensure, closeVars, late>>
    BY <1>9 DEF SweepClaim, Base, Known, Workers
  <2>2. JobAt("ttl_expired", c, "stop") \/ JobAt("ttl_expired", c, "no")
    BY <1>9 DEF SweepClaim
  <2> QED
    BY <1>1, <2>1, <2>2, JobMoves DEF Workers, closeVars
<1>10. CASE SweepEnd
  <2>1. sweeping' = FALSE /\ UNCHANGED <<job, ensure, closeVars, late>>
    BY <1>10 DEF SweepEnd
  <2>2. WorkOK'
    BY <2>1 DEF Base, WorkOK, closeVars
  <2> QED
    BY <1>1, <2>1, <2>2, StillCreated DEF WorkMoves, Base, Known, closeVars
<1>11. ASSUME \/ CloseThread \/ CloseDiscover \/ CloseSweep \/ CloseVolume \/ CloseReconcile
              \/ \E c \in Ids : CloseMark(c)
       PROVE  WorkMoves
  <2>1. UNCHANGED <<sweeping, job, ensure, late>>
    BY <1>11 DEF CloseThread, CloseDiscover, CloseSweep, CloseVolume, CloseReconcile, CloseMark
  <2>2. closing' \in {"no", "terminate", "mark", "sweep", "volume", "reconcile", "over"}
    BY <1>11 DEF CloseThread, CloseDiscover, CloseSweep, CloseVolume, CloseReconcile, CloseMark, Base, WorkOK
  <2>3. marked' \subseteq Ids
    BY <1>1, <1>11 DEF CloseThread, CloseDiscover, CloseSweep, CloseVolume, CloseReconcile, CloseMark
  <2>4. todo' \subseteq todo \cup {c \in Ids : row[c].status # "none"} \cup {c \in Ids : docker[c] # "none"}
    <3>1. CASE CloseThread \/ CloseDiscover
      BY <3>1 DEF CloseThread, CloseDiscover, Exists
    <3>2. CASE CloseSweep \/ CloseReconcile
      BY <3>2 DEF CloseSweep, CloseReconcile, Registered
    <3>3. CASE CloseVolume
      <4>1. \A c \in Ids : row[c].mounts /\ row[c].status # "stopped" => row[c].status # "none"
        BY DEF Base, Known
      <4> QED
        BY <3>3, <4>1 DEF CloseVolume
    <3>4. CASE \E c \in Ids : CloseMark(c)
      BY <3>4 DEF CloseMark
    <3> QED
      BY <1>11, <3>1, <3>2, <3>3, <3>4
  <2> QED
    BY <1>1, <2>1, <2>2, <2>3, <2>4, ClosingMoves
<1>12. CASE CloseSweepNext
  <2>1. CASE todo = {}
    <3>1. closing' = "volume" /\ UNCHANGED <<sweeping, job, ensure, todo, marked, late>>
      BY <1>12, <2>1 DEF CloseSweepNext
    <3> QED
      BY <1>1, <3>1, ClosingMoves
  <2>2. CASE todo # {}
    <3>1. PICK c \in todo : JobAt("thread_closed", c, "stop") /\ todo' = todo \ {c} /\ UNCHANGED closing
      BY <1>12, <2>2 DEF CloseSweepNext
    <3>2. UNCHANGED <<sweeping, ensure, marked, late>> /\ c \in Ids /\ docker[c] # "none"
      BY <1>1, <1>12 DEF CloseSweepNext
    <3> QED
      BY <3>1, <3>2, <1>1, JobMoves DEF Workers
  <2> QED
    BY <2>1, <2>2
<1>13. CASE Crash
  <2>1. /\ sweeping' = FALSE /\ todo' = {} /\ UNCHANGED <<marked, late>>
        /\ job' = [w \in Workers |-> [c \in Ids |-> "no"]]
        /\ closing' \in {"no", "over"}
        /\ ensure' = [k \in Callers |-> IF ensure[k].at = "no" THEN ensure[k]
                                         ELSE [at |-> "over", id |-> "none"]]
    BY <1>13 DEF Crash
  <2>2. /\ ensure' \in [Callers -> [at : {"no", "stop", "remove", "create", "inspect", "write", "over"},
                                    id : Ids \cup {"none"}]]
        /\ \A k \in Callers : ensure'[k].at \in {"no", "over"}
    BY <1>1, <2>1
  <2>3. WorkOK'
    BY <2>1, <2>2 DEF Base, WorkOK
  <2> QED
    BY <2>1, <2>2, <2>3 DEF WorkMoves
<1>14. CASE UNCHANGED <<sweeping, job, ensure, closeVars, late>>
  BY <1>1, <1>14, ClosingMoves DEF closeVars, Base, WorkOK
<1> QED
  BY <1>2, <1>3, <1>4, <1>5, <1>6, <1>7, <1>8, <1>9, <1>10, <1>11, <1>12, <1>13, <1>14
     DEF Next, EnsureStep, EventStep, JobStep, SweepStep, CloseStep, Exit, OutOfMemory, Expire,
         RetryDue, EventRead, EventWrite, Reconnect, CollectVolume
-----------------------------------------------------------------------------
(***************************************************************************)
(* The invariant is kept.                                                  *)
(***************************************************************************)

\* The types, and what is known of containers not created, are kept.
LEMMA NextBase == Base /\ Next => Base'
<1> SUFFICES ASSUME Base, Next PROVE Base'
  OBVIOUS
<1>1. DockerMoves /\ RowMoves /\ EventMoves /\ WorkMoves /\ CountsOK'
  BY NextDocker, NextRow, NextEvents, NextWork, NextCounts
<1>2. ASSUME NEW c \in Ids, docker'[c] = "none"
      PROVE  /\ log'[c] = <<>> /\ row'[c].status = "none" /\ c \notin todo'
             /\ \A w \in Workers : job'[w][c] = "no"
  <2>1. docker[c] = "none" /\ log'[c] = log[c]
    BY <1>1, <1>2 DEF DockerMoves, Moves
  <2>2. log[c] = <<>> /\ row[c].status = "none"
    BY <2>1 DEF Base, Known
  <2>3. Keeps(c)
    BY <1>1, <2>1, <2>2 DEF RowMoves, Starts, Takes, Registered
  <2> QED
    BY <1>1, <2>1, <2>2, <2>3 DEF Keeps, WorkMoves
<1>3. ASSUME NEW c \in Ids, row'[c].status = "none"
      PROVE  ~row'[c].mounts
  <2>1. CASE Keeps(c)
    <3>1. row'[c] \in Row
      BY <1>1 DEF RowMoves, RowOK
    <3> QED
      BY <1>3, <2>1, <3>1 DEF Keeps, Base, Known
  <2>2. CASE Starts(c)
    BY <1>3, <2>2 DEF Starts
  <2>3. CASE Takes(c)
    <3>1. row[c] \in Row /\ row[c].status # "none"
      BY <2>3 DEF Takes, Registered, Base, RowOK
    <3>2. row'[c].status = IF CanTransition(log[c][handling.event], handling.read.status)
                             THEN StatusFor(log[c][handling.event]) ELSE row[c].status
      BY <2>3, <3>1 DEF Takes, AfterEvent, Row
    <3> QED
      BY <1>3, <3>1, <3>2 DEF CanTransition
  <2> QED
    BY <1>1, <2>1, <2>2, <2>3 DEF RowMoves
<1>4. Known'
  BY <1>1, <1>2, <1>3 DEF Known, WorkMoves
<1> QED
  BY <1>1, <1>4 DEF Base, DockerMoves, RowMoves, EventMoves, WorkMoves

\* What the event in hand makes of the status, the reason and the time of a row.
LEMMA TakesFields ==
  ASSUME Base, NEW c \in Ids, Takes(c), NEW e, e = log[c][handling.event]
  PROVE  /\ row[c] \in Row /\ handling.event \in Nat /\ handling.event <= Len(log[c])
         /\ row'[c].status = IF CanTransition(e, handling.read.status) THEN StatusFor(e)
                             ELSE row[c].status
         /\ row'[c].reason = IF e = "start" THEN "none"
                             ELSE IF e \in {"kill", "die", "fail", "oom"}
                                     \/ (e = "stop" /\ CanTransition(e, handling.read.status))
                                    THEN "event" ELSE row[c].reason
         /\ row'[c].lastEvent = TimeOf(handling.event)
<1>1. row[c] \in Row /\ handling.event \in Nat /\ handling.event <= Len(log[c])
  BY DEF Takes, Base, RowOK, EventsOK
<1>2. row'[c] = AfterEvent(e, handling.event, handling.read, row[c])
  BY DEF Takes
<1>3. row'[c].status = IF CanTransition(e, handling.read.status) THEN StatusFor(e) ELSE row[c].status
  BY <1>1, <1>2 DEF AfterEvent, Row
<1>4. row'[c].reason = IF e = "start" THEN "none"
                       ELSE IF e \in {"kill", "die", "fail", "oom"}
                               \/ (e = "stop" /\ CanTransition(e, handling.read.status))
                              THEN "event" ELSE row[c].reason
  BY <1>1, <1>2 DEF AfterEvent, Row
<1>5. row'[c].lastEvent = TimeOf(handling.event)
  BY <1>1, <1>2 DEF AfterEvent, Row
<1> QED
  BY <1>1, <1>3, <1>4, <1>5

\* A row is marked by a service only after its container was removed, or the
\* removal refused with a 409.
LEMMA NextGone ==
  ASSUME Base, Gone, Next
  PROVE  Gone'
<1>1. DockerMoves /\ RowMoves /\ WorkMoves /\ refused \subseteq refused'
  BY NextDocker, NextRow, NextWork, NextCounts
<1>2. \A c \in Ids : Done(c) => Done(c)'
  BY <1>1 DEF DockerMoves, Moves, Done
<1>3. ASSUME NEW c \in Ids, NEW w \in Workers, job'[w][c] = "mark"
      PROVE  Done(c)'
  BY <1>1, <1>2, <1>3 DEF WorkMoves, Gone
<1>4. ASSUME NEW c \in Ids, row'[c].status = "stopped", row'[c].reason \in Workers
      PROVE  Done(c)'
  <2>1. CASE Keeps(c)
    BY <1>2, <1>4, <2>1 DEF Keeps, Gone
  <2>2. CASE Starts(c)
    BY <1>4, <2>2 DEF Starts
  <2>3. CASE Takes(c)
    <3>1. PICK e : e = log[c][handling.event]
      OBVIOUS
    <3>2. row'[c].status = IF CanTransition(e, handling.read.status) THEN StatusFor(e) ELSE row[c].status
      BY <2>3, <3>1, TakesFields
    <3>3. row'[c].reason = IF e = "start" THEN "none"
                           ELSE IF e \in {"kill", "die", "fail", "oom"}
                                   \/ (e = "stop" /\ CanTransition(e, handling.read.status))
                                  THEN "event" ELSE row[c].reason
      BY <2>3, <3>1, TakesFields
    <3>4. row[c].status = "stopped" /\ row[c].reason \in Workers
      BY <1>4, <3>2, <3>3 DEF StatusFor, Workers
    <3> QED
      BY <1>2, <3>4 DEF Gone
  <2> QED
    BY <1>1, <2>1, <2>2, <2>3 DEF RowMoves
<1> QED
  BY <1>3, <1>4 DEF Gone

\* The log of a container goes on to say how it ended.
LEMMA NextLogs ==
  ASSUME Base, Logs, Next
  PROVE  Logs'
<1>1. DockerMoves /\ RowMoves
  BY NextDocker, NextRow
<1>2. ASSUME NEW c \in Ids
      PROVE  /\ \A i \in DOMAIN log'[c] : log'[c][i] = "start" => i = 1
             /\ docker'[c] \in {"exited", "gone"} =>
                  \E i \in DOMAIN log'[c] : log'[c][i] \in {"die", "fail"}
  <2>1. /\ log[c] \in Seq(Events) /\ Len(log[c]) \in Nat /\ DOMAIN log[c] = 1 .. Len(log[c])
        /\ DOMAIN log'[c] = 1 .. Len(log'[c])
        /\ \A i \in DOMAIN log[c] : i \in DOMAIN log'[c] /\ log'[c][i] = log[c][i]
    BY <1>1, LogGrows DEF Base, DockerOK
  <2>2. Moves(c)
    BY <1>1 DEF DockerMoves
  <2>3. CASE docker'[c] = docker[c] /\ log'[c] = log[c]
    BY <2>3 DEF Logs
  <2>4. CASE docker'[c] = "running" /\ log'[c] = <<"start">>
    BY <2>4
  <2>5. ASSUME NEW s \in Endings, log'[c] = log[c] \o s
        PROVE  /\ \A i \in DOMAIN log'[c] : log'[c][i] = "start" => i = 1
               /\ \E i \in DOMAIN log'[c] : log'[c][i] \in {"die", "fail"}
    <3>1. /\ s \in Seq(Events) /\ Len(s) \in Nat
          /\ \A i \in 1 .. Len(s) : s[i] # "start"
          /\ \E i \in 1 .. Len(s) : s[i] \in {"die", "fail"}
      BY EndingsEnd
    <3>2. /\ Len(log'[c]) = Len(log[c]) + Len(s)
          /\ \A i \in 1 .. Len(log[c]) + Len(s) :
               log'[c][i] = IF i <= Len(log[c]) THEN log[c][i] ELSE s[i - Len(log[c])]
      BY <2>1, <2>5, <3>1, ConcatProperties
    <3>3. \A i \in DOMAIN log'[c] : log'[c][i] = "start" => i = 1
      <4>1. ASSUME NEW i \in 1 .. Len(log'[c]), log'[c][i] = "start" PROVE i = 1
        <5>1. CASE i <= Len(log[c])
          BY <2>1, <3>1, <3>2, <4>1, <5>1 DEF Logs
        <5>2. CASE ~(i <= Len(log[c]))
          <6>1. i - Len(log[c]) \in 1 .. Len(s)
            BY <2>1, <3>1, <3>2, <5>2
          <6> QED
            BY <3>1, <3>2, <4>1, <5>2, <6>1
        <5> QED
          BY <5>1, <5>2
      <4> QED
        BY <2>1, <4>1
    <3>4. PICK i \in 1 .. Len(s) : s[i] \in {"die", "fail"}
      BY <3>1
    <3>5. PICK j \in 1 .. Len(log[c]) + Len(s) : j = i + Len(log[c])
      BY <2>1, <3>1
    <3>6. ~(j <= Len(log[c])) /\ j - Len(log[c]) = i
      BY <2>1, <3>5
    <3>7. log'[c][j] = s[i]
      BY <3>2, <3>5, <3>6
    <3>8. j \in DOMAIN log'[c]
      BY <2>1, <3>2, <3>5
    <3> QED
      BY <3>3, <3>4, <3>7, <3>8
  <2>6. CASE docker[c] = "exited" /\ log'[c] = Append(log[c], "destroy")
    <3>1. /\ Len(log'[c]) = Len(log[c]) + 1 /\ log'[c][Len(log[c]) + 1] = "destroy"
      BY <2>1, <2>6, AppendProperties DEF Events
    <3>2. \A i \in DOMAIN log'[c] : i \in DOMAIN log[c] \/ i = Len(log[c]) + 1
      BY <2>1, <3>1
    <3> QED
      BY <2>1, <2>6, <3>1, <3>2 DEF Logs
  <2> QED
    BY <2>2, <2>3, <2>4, <2>5, <2>6 DEF Moves
<1>3. ASSUME NEW c \in Ids PROVE row'[c].lastEvent <= Now(c)'
  <2>1. Len(log[c]) \in Nat /\ Len(log'[c]) \in Nat /\ Len(log[c]) <= Len(log'[c])
    BY <1>1, LogGrows
  <2>2. row[c] \in Row /\ row[c].lastEvent \in Nat /\ row[c].lastEvent <= Now(c)
    BY DEF Base, RowOK, Row, Logs
  <2>3. CASE Keeps(c)
    BY <2>1, <2>2, <2>3 DEF Keeps, Now
  <2>4. CASE Starts(c)
    BY <2>1, <2>4 DEF Starts, Now
  <2>5. CASE Takes(c)
    <3>1. handling.event \in Nat /\ handling.event <= Len(log[c])
      BY <2>5, TakesFields
    <3>2. row'[c].lastEvent = TimeOf(handling.event)
      BY <2>5, TakesFields
    <3> QED
      BY <2>1, <3>1, <3>2 DEF Now, TimeOf
  <2> QED
    BY <1>1, <2>3, <2>4, <2>5 DEF RowMoves
<1> QED
  BY <1>2, <1>3 DEF Logs

\* Without a fault each event is handled as it is taken.
LEMMA NextInHand ==
  ASSUME Base, InHand, Next
  PROVE  InHand'
<1> SUFFICES ASSUME faults' = 0, handling' # NoEvent PROVE handling'.event = delivered'[handling'.id]
  BY DEF InHand
<1>1. EventMoves /\ faults = 0
  BY NextEvents, NextCounts DEF Base, CountsOK
<1>2. CASE UNCHANGED eventVars
  BY <1>1, <1>2 DEF InHand, eventVars
<1>3. CASE EventWrite
  BY <1>3 DEF EventWrite
<1>4. ASSUME NEW c \in Ids, EventRead(c) PROVE handling'.event = delivered'[handling'.id]
  BY <1>4 DEF EventRead, Base, EventsOK
<1> QED
  BY <1>1, <1>2, <1>3, <1>4 DEF EventMoves

\* A container that ends now: its end is still to be taken, and nothing later
\* is in the row.
LEMMA EndsNow ==
  ASSUME Base, Logs, NEW c \in Ids, NEW s \in Endings, log'[c] = log[c] \o s,
         delivered'[c] <= Len(log[c]), delivered'[c] \in Nat, row'[c].lastEvent <= row[c].lastEvent,
         row'[c] \in Row
  PROVE  Dying(c)'
<1>1. log[c] \in Seq(Events) /\ Len(log[c]) \in Nat /\ delivered'[c] \in Nat
  BY LenProperties DEF Base, DockerOK
<1>2. s \in Seq(Events) /\ Len(s) \in Nat /\ \E i \in 1 .. Len(s) : s[i] \in {"die", "fail"}
  BY EndingsEnd
<1>3. PICK i \in 1 .. Len(s) : s[i] \in {"die", "fail"}
  BY <1>2
<1>4. PICK j \in 1 .. Len(log[c]) + Len(s) : j = i + Len(log[c])
  BY <1>1, <1>2
<1>5. /\ log[c] \o s \in Seq(Events) /\ Len(log[c] \o s) = Len(log[c]) + Len(s)
      /\ \A k \in 1 .. Len(log[c]) + Len(s) :
           (log[c] \o s)[k] = IF k <= Len(log[c]) THEN log[c][k] ELSE s[k - Len(log[c])]
  BY <1>1, <1>2, ConcatProperties
<1>6. ~(j <= Len(log[c])) /\ j - Len(log[c]) = i
  BY <1>1, <1>4
<1>7. log'[c][j] \in {"die", "fail"}
  BY <1>3, <1>5, <1>6
<1>8. j \in DOMAIN log'[c]
  BY <1>4, <1>5, LenProperties
<1>9. delivered'[c] < j
  BY <1>1, <1>4, <1>6
<1>10. row'[c].lastEvent <= TimeOf(j)
  <2>1. row[c].lastEvent \in Nat /\ row'[c].lastEvent \in Nat /\ row[c].lastEvent <= 2 * Len(log[c]) + 1
    BY DEF Base, RowOK, Row, Logs, Now
  <2> QED
    BY <1>1, <1>4, <1>6, <2>1 DEF TimeOf
<1> QED
  BY <1>7, <1>8, <1>9, <1>10 DEF Dying

\* An end that was still to be taken, or in hand, remains so or takes the row
\* out of "running".
LEMMA StillDying ==
  ASSUME Base, EventMoves, DockerMoves, faults' = 0, NEW c \in Ids, Dying(c), Keeps(c),
         row[c].status = "running", row'[c].status = "running", row'[c] \in Row
  PROVE  Dying(c)'
<1>1. PICK i \in DOMAIN log[c] :
        /\ log[c][i] \in {"die", "fail"}
        /\ \/ delivered[c] < i /\ row[c].lastEvent <= TimeOf(i)
           \/ handling # NoEvent /\ handling.id = c /\ handling.event = i
  BY DEF Dying
<1>2. i \in DOMAIN log'[c] /\ log'[c][i] = log[c][i] /\ i \in Nat
  BY LogGrows
<1>3. row[c].lastEvent \in Nat /\ row'[c].lastEvent \in Nat /\ row'[c].lastEvent <= row[c].lastEvent
  BY DEF Keeps, Base, RowOK, Row
<1>4. UNCHANGED eventVars \/ EventWrite \/ \E d \in Ids : EventRead(d)
  BY DEF EventMoves
<1>5. TimeOf(i) \in Nat
  BY <1>2 DEF TimeOf
<1>6. CASE delivered[c] < i /\ row[c].lastEvent <= TimeOf(i)
  <2>1. row'[c].lastEvent <= TimeOf(i)
    BY <1>3, <1>5, <1>6
  <2>2. CASE delivered'[c] = delivered[c]
    BY <1>1, <1>2, <1>6, <2>1, <2>2 DEF Dying
  <2>3. CASE delivered'[c] # delivered[c]
    <3>1. /\ EventRead(c) /\ delivered'[c] = delivered[c] + 1 /\ delivered[c] \in Nat
      <4>1. PICK d \in Ids : EventRead(d)
        BY <1>4, <2>3 DEF eventVars, EventWrite
      <4> QED
        BY <2>3, <4>1 DEF EventRead, Base, EventsOK
    <3>2. CASE delivered'[c] = i
      <4>1. Registered(c) /\ ~Stale(c, i, row[c])
        BY <1>3, <1>5, <1>6 DEF Registered, Stale
      <4>2. handling' = [id |-> c, event |-> i, read |-> row[c]]
        BY <3>1, <3>2, <4>1 DEF EventRead
      <4>3. handling' # NoEvent /\ handling'.id = c /\ handling'.event = i
        BY <4>2 DEF NoEvent
      <4> QED
        BY <1>1, <1>2, <4>3 DEF Dying
    <3>3. CASE delivered'[c] # i
      <4>1. delivered'[c] < i
        BY <1>2, <1>6, <3>1, <3>3
      <4> QED
        BY <1>1, <1>2, <2>1, <4>1 DEF Dying
    <3> QED
      BY <3>2, <3>3
  <2> QED
    BY <2>2, <2>3
<1>7. CASE handling # NoEvent /\ handling.id = c /\ handling.event = i
  <2>1. CASE UNCHANGED eventVars
    BY <1>1, <1>2, <1>7, <2>1 DEF Dying, eventVars
  <2>2. CASE EventWrite
    <3>1. Registered(c) /\ faults + 1 # 0
      BY DEF Registered, Base, CountsOK
    <3>2. row' = [row EXCEPT ![c] = AfterEvent(log[c][i], i, handling.read, @)]
      BY <1>7, <2>2, <3>1 DEF EventWrite, Fault
    <3>3. row'[c] = AfterEvent(log[c][i], i, handling.read, row[c]) /\ row[c] \in Row
      BY <3>2 DEF Base, RowOK
    <3>4. CanTransition(log[c][i], handling.read.status) /\ StatusFor(log[c][i]) # "running"
      BY <1>1 DEF CanTransition, StatusFor
    <3>5. row'[c].status = StatusFor(log[c][i])
      BY <3>3, <3>4 DEF AfterEvent, Row
    <3> QED
      BY <3>4, <3>5
  <2>3. ~ \E d \in Ids : EventRead(d)
    BY <1>7 DEF EventRead
  <2> QED
    BY <1>4, <2>1, <2>2, <2>3
<1> QED
  BY <1>1, <1>6, <1>7

\* A row that an event shows running, or leaves so, has its end to come.
LEMMA TakesDying ==
  ASSUME Base, Logs, InHand, EndsNoticed, faults = 0, NEW c \in Ids, Takes(c), c \notin late,
         row'[c].status = "running", docker[c] # "running"
  PROVE  Dying(c)'
<1>1. PICK e : e = log[c][handling.event]
  OBVIOUS
<1>2. /\ row[c] \in Row /\ handling.event \in Nat /\ handling.event <= Len(log[c])
      /\ row'[c].status = IF CanTransition(e, handling.read.status) THEN StatusFor(e)
                          ELSE row[c].status
      /\ row'[c].lastEvent = TimeOf(handling.event)
  BY <1>1, TakesFields
<1>3. /\ handling.event = delivered[c] /\ handling # NoEvent /\ handling.event # 0
      /\ UNCHANGED delivered /\ handling.id = c
  BY DEF InHand, Takes, Base, EventsOK
<1>4. UNCHANGED <<docker, log>> /\ docker[c] \in {"none", "exited", "gone"} /\ Registered(c)
  BY DEF Takes, dockerVars, Base, DockerOK
<1>5. log[c] \in Seq(Events) /\ DOMAIN log[c] = 1 .. Len(log[c]) /\ Len(log[c]) \in Nat
  BY LenProperties DEF Base, DockerOK
<1>6. handling.event \in DOMAIN log[c]
  BY <1>2, <1>3, <1>5
<1>7. ASSUME NEW i \in DOMAIN log[c], log[c][i] \in {"die", "fail"}, handling.event < i
      PROVE  Dying(c)'
  <2>1. row'[c].lastEvent <= TimeOf(i)
    BY <1>2, <1>5, <1>7 DEF TimeOf
  <2>2. delivered'[c] < i
    BY <1>3, <1>7
  <2> QED
    BY <1>4, <1>7, <2>1, <2>2 DEF Dying
<1>8. CASE e = "start"
  <2>1. handling.event = 1
    BY <1>1, <1>6, <1>8 DEF Logs
  <2>2. docker[c] \in {"exited", "gone"}
    BY <1>4 DEF Base, Known, Registered
  <2>3. PICK i \in DOMAIN log[c] : log[c][i] \in {"die", "fail"}
    BY <2>2 DEF Logs
  <2>4. i # 1
    BY <1>1, <1>8, <2>1, <2>3
  <2>5. handling.event < i
    BY <1>5, <2>1, <2>3, <2>4
  <2> QED
    BY <1>7, <2>3, <2>5
<1>9. CASE e # "start"
  <2>1. ~CanTransition(e, handling.read.status) /\ row[c].status = "running"
    BY <1>2, <1>9 DEF StatusFor
  <2>2. e \notin {"die", "fail"}
    BY <2>1 DEF CanTransition, StatusFor
  <2>3. Dying(c)
    BY <2>1 DEF EndsNoticed
  <2>4. PICK i \in DOMAIN log[c] :
          /\ log[c][i] \in {"die", "fail"}
          /\ \/ delivered[c] < i
             \/ handling.event = i
    BY <2>3 DEF Dying
  <2>5. handling.event # i
    BY <1>1, <2>2, <2>4
  <2> QED
    BY <1>3, <1>7, <2>4, <2>5
<1> QED
  BY <1>8, <1>9

\* The row of a container that ends has the end before it, in the log or in hand.
LEMMA NextEndsNoticed ==
  ASSUME Base, Logs, InHand, EndsNoticed, Next
  PROVE  EndsNoticed'
<1> SUFFICES ASSUME faults' = 0, NEW c \in Ids \ late', row'[c].status = "running",
                    docker'[c] # "running"
             PROVE  Dying(c)'
  BY DEF EndsNoticed
<1>1. DockerMoves /\ RowMoves /\ EventMoves /\ faults = 0 /\ c \notin late
  BY NextDocker, NextRow, NextEvents, NextCounts DEF Base, CountsOK
<1>2. /\ row'[c] \in Row /\ delivered'[c] \in Nat /\ delivered'[c] <= Len(log[c])
  BY <1>1 DEF RowMoves, RowOK, EventMoves, EventsOK
<1>3. CASE Keeps(c)
  <2>1. row[c].status = "running" /\ row'[c].lastEvent <= row[c].lastEvent
    BY <1>3 DEF Keeps
  <2>2. CASE docker[c] = "running"
    <3>1. PICK s \in Endings : log'[c] = log[c] \o s
      BY <1>1, <2>2 DEF DockerMoves, Moves
    <3> QED
      BY <1>2, <2>1, <3>1, EndsNow
  <2>3. CASE docker[c] # "running"
    <3>1. Dying(c)
      BY <1>1, <2>1, <2>3 DEF EndsNoticed
    <3> QED
      BY <1>1, <1>2, <1>3, <2>1, <3>1, StillDying
  <2> QED
    BY <2>2, <2>3
<1>4. CASE Starts(c)
  BY <1>4 DEF Starts, dockerVars
<1>5. CASE Takes(c)
  <2>1. docker[c] # "running"
    BY <1>5 DEF Takes, dockerVars
  <2> QED
    BY <1>1, <1>5, <2>1, TakesDying
<1> QED
  BY <1>1, <1>3, <1>4, <1>5 DEF RowMoves

\* The row of a container an earlier server has left.
LEMMA LeftRow ==
  ASSUME NEW r, r = [NoRow EXCEPT !.status = "running", !.lastEvent = 3, !.mounts = TRUE]
  PROVE  r \in Row /\ r.status = "running" /\ r.lastEvent = 3
BY DEF NoRow, Row

\* The invariant holds at first.
LEMMA InitContainersInv == Init => ContainersInv
<1> SUFFICES ASSUME Init PROVE ContainersInv
  OBVIOUS
<1>1. /\ scenario \in Scenarios
      /\ docker = [c \in Ids |-> IF c \in scenario.existing THEN "running" ELSE "none"]
      /\ built \in [Ids -> Platforms \cup {"none"}]
      /\ log = [c \in Ids |-> IF c \in scenario.existing THEN <<"start">> ELSE <<>>]
      /\ volume = (scenario.existing # {})
      /\ row = [c \in Ids |-> IF c \in scenario.existing
                              THEN [NoRow EXCEPT !.status = "running", !.lastEvent = 3, !.mounts = TRUE]
                              ELSE NoRow]
      /\ delivered = [c \in Ids |-> Len(log[c])]
      /\ handling = NoEvent /\ sweeping = FALSE
      /\ job = [w \in Workers |-> [c \in Ids |-> "no"]]
      /\ ensure = [k \in Callers |-> [at |-> "no", id |-> "none"]]
      /\ closing = "no" /\ todo = {} /\ marked = {} /\ late = {} /\ refused = {} /\ faults = 0
  BY DEF Init
<1>2. ASSUME NEW c \in Ids
      PROVE  /\ log[c] \in Seq(Events) /\ Len(log[c]) \in Nat
             /\ \A i \in DOMAIN log[c] : i = 1
             /\ docker[c] = "none" => log[c] = <<>> /\ row[c].status = "none"
             /\ docker[c] \in {"none", "running"}
             /\ row[c] \in Row /\ row[c].status \in {"none", "running"}
             /\ row[c].lastEvent <= Now(c)
             /\ row[c].status = "none" => ~row[c].mounts
             /\ row[c].status = "running" => docker[c] = "running"
  <2>1. CASE c \in scenario.existing
    <3>1. log[c] = <<"start">> /\ docker[c] = "running"
      BY <1>1, <2>1
    <3>2. row[c] = [NoRow EXCEPT !.status = "running", !.lastEvent = 3, !.mounts = TRUE]
      BY <1>1, <2>1
    <3>3. row[c] \in Row /\ row[c].status = "running" /\ row[c].lastEvent = 3
      BY <3>2, LeftRow
    <3>6. Now(c) = 3
      BY <3>1 DEF Now
    <3> QED
      BY <3>1, <3>3, <3>6 DEF Events
  <2>2. CASE c \notin scenario.existing
    <3>1. log[c] = <<>> /\ docker[c] = "none" /\ row[c] = NoRow
      BY <1>1, <2>2
    <3>2. row[c] \in Row /\ row[c].status = "none" /\ row[c].lastEvent = 0 /\ ~row[c].mounts
      BY <3>1 DEF NoRow, Row
    <3>3. Now(c) = 1
      BY <3>1 DEF Now
    <3> QED
      BY <3>1, <3>2, <3>3
  <2> QED
    BY <2>1, <2>2
<1>3. DockerOK /\ RowOK
  BY <1>1, <1>2 DEF DockerOK, RowOK
<1>4. EventsOK
  BY <1>1, <1>2 DEF EventsOK
<1>5. WorkOK /\ CountsOK
  <2>1. job \in [Workers -> [Ids -> {"no", "claim", "stop", "remove", "mark"}]]
    BY <1>1
  <2>2. ensure \in [Callers -> [at : {"no", "stop", "remove", "create", "inspect", "write", "over"},
                                id : Ids \cup {"none"}]]
    BY <1>1
  <2>3. 0 \in 0 .. MaxFaults
    BY ContainersAssumption DEF ContainersAssumption
  <2> QED
    BY <1>1, <2>1, <2>2, <2>3 DEF WorkOK, CountsOK
<1>6. Known
  BY <1>1, <1>2 DEF Known
<1>7. Gone /\ Logs
  BY <1>1, <1>2 DEF Gone, Logs
<1>8. InHand /\ EndsNoticed
  BY <1>1, <1>2 DEF InHand, EndsNoticed
<1> QED
  BY <1>3, <1>4, <1>5, <1>6, <1>7, <1>8 DEF ContainersInv, Base

\* A step that changes nothing.
LEMMA ContainersSame ==
  ASSUME ContainersInv, UNCHANGED vars
  PROVE  ContainersInv'
BY DEF ContainersInv, Base, DockerOK, RowOK, EventsOK, WorkOK, CountsOK, Known, Gone, Done, Logs, InHand,
       EndsNoticed, Dying, Now, vars, dockerVars, eventVars, closeVars

\* Every step keeps the invariant.
LEMMA NextContainersInv == ContainersInv /\ [Next]_vars => ContainersInv'
<1>1. ContainersInv /\ Next => ContainersInv'
  BY NextBase, NextGone, NextLogs, NextInHand, NextEndsNoticed DEF ContainersInv
<1> QED
  BY <1>1, ContainersSame

\* The invariant has the types of the component.
LEMMA BaseTypes ==
  ASSUME Base
  PROVE  TypeOK
<1>1. \A c \in Ids : delivered[c] \in 0 .. Len(log[c])
  <2>1. \A c \in Ids : Len(log[c]) \in Nat
    BY LenProperties DEF Base, DockerOK
  <2> QED
    BY <2>1 DEF Base, EventsOK
<1>2. handling = NoEvent \/ handling \in [id : Ids, event : Nat \ {0}, read : Row]
  BY DEF Base, EventsOK
<1> QED
  BY <1>1, <1>2 DEF TypeOK, Base, DockerOK, RowOK, WorkOK, CountsOK

(* A row that the sweep, the closing cascade or an administrator has       *)
(* marked stopped has no container left, unless Docker refused the removal *)
(* with a 409, whatever late or repeated events the processor writes       *)
(* meanwhile, and whatever else fails.                                     *)
THEOREM StoppedIsGone == Spec => []StoppedByServiceIsGone
<1>1. ContainersInv => StoppedByServiceIsGone
  BY DEF ContainersInv, Gone, Done, StoppedByServiceIsGone, Exists
<1> QED
  BY <1>1, InitContainersInv, NextContainersInv, PTL DEF Spec

(* Once the processor has taken every event, no row shows as running a     *)
(* container that has ended, unless it was registered after that or events *)
(* were lost.                                                              *)
THEOREM EndsAreNoticed == Spec => []RowsFollowDocker
<1>1. ASSUME ContainersInv, NEW c \in Ids \ late,
             CaughtUp(c), faults = 0, row[c].status = "running"
      PROVE  docker[c] = "running"
  <2>1. SUFFICES ASSUME docker[c] # "running" PROVE FALSE
    OBVIOUS
  <2>2. PICK i \in DOMAIN log[c] : delivered[c] < i
    BY <1>1, <2>1 DEF ContainersInv, EndsNoticed, Dying, CaughtUp
  <2>3. DOMAIN log[c] = 1 .. Len(log[c]) /\ Len(log[c]) \in Nat
    BY <1>1, LenProperties DEF ContainersInv, Base, DockerOK
  <2> QED
    BY <1>1, <2>2, <2>3 DEF CaughtUp
<1>2. ContainersInv => RowsFollowDocker
  BY <1>1, BaseTypes DEF ContainersInv, RowsFollowDocker
<1> QED
  BY <1>2, InitContainersInv, NextContainersInv, PTL DEF Spec

-----------------------------------------------------------------------------
(***************************************************************************)
(* Terminals: their types, and that a session is served by one connection. *)
(***************************************************************************)

(* A session that was marked by a connection is never pending again, which *)
(* is what keeps a second connection out.                                  *)
MarkedIsUsed ==
  \A k \in Connections : connected[k] => record[Session[k]] \in {"connected", "gone"}

TerminalsInv == TerminalsTypeOK /\ MarkedIsUsed /\ SessionsServed

(* The program starts in a typed state, with no session.                   *)
LEMMA TerminalsStart == TerminalsInit => TerminalsInv
  BY TerminalsAssumption
     DEF TerminalsInit, TerminalsInv, TerminalsTypeOK, Stored, MarkedIsUsed, SessionsServed,
         OneTerminal, ConnectedServed

(* The steps a connection takes by itself keep the invariant.              *)
LEMMA ConnectionKeeps ==
  ASSUME TerminalsInv, NEW k \in Connections, ConnectionStep(k) PROVE TerminalsInv'
<1>1. CASE AbortEarly(k)
  <2>1. TerminalsTypeOK'
    <3>1. CASE Cleanup(k)
      BY <1>1, <3>1, TerminalsAssumption DEF AbortEarly, Cleanup, Touch,
           CloseSocket, sessionVars, TerminalsInv, TerminalsTypeOK, Stored
    <3>2. CASE closed[k] /\ UNCHANGED <<sessionVars, socket, closed, shell>>
      BY <1>1, <3>2, TerminalsAssumption DEF AbortEarly, sessionVars, TerminalsInv,
           TerminalsTypeOK, Stored
    <3>. QED BY <1>1, <3>1, <3>2 DEF AbortEarly
  <2>2. MarkedIsUsed'
    BY <1>1, TerminalsAssumption DEF AbortEarly, Cleanup, Touch,
         CloseSocket, sessionVars, TerminalsInv, SessionsServed, TerminalsTypeOK,
         MarkedIsUsed
  <2>3. OneTerminal'
    BY <1>1, TerminalsAssumption DEF AbortEarly, Cleanup, Touch,
         CloseSocket, sessionVars, TerminalsInv, SessionsServed, TerminalsTypeOK,
         MarkedIsUsed, OneTerminal
  <2>4. ConnectedServed'
    BY <1>1, TerminalsAssumption DEF AbortEarly, Cleanup, Touch,
         CloseSocket, sessionVars, TerminalsInv, SessionsServed, TerminalsTypeOK,
         MarkedIsUsed, ConnectedServed
  <2>. QED BY <2>1, <2>2, <2>3, <2>4 DEF TerminalsInv, SessionsServed
<1>2. CASE Refuse(k)
  <2>1. TerminalsTypeOK'
    BY <1>2, TerminalsAssumption DEF Refuse, Delete, Stored, CloseSocket,
         TerminalsInv, TerminalsTypeOK
  <2>2. MarkedIsUsed'
    BY <1>2, TerminalsAssumption DEF Refuse, Delete, Stored, CloseSocket,
         TerminalsInv, SessionsServed, TerminalsTypeOK, MarkedIsUsed
  <2>3. OneTerminal'
    BY <1>2, TerminalsAssumption DEF Refuse, Delete, Stored, CloseSocket,
         TerminalsInv, SessionsServed, TerminalsTypeOK, MarkedIsUsed, OneTerminal
  <2>4. ConnectedServed'
    BY <1>2, TerminalsAssumption DEF Refuse, Delete, Stored, CloseSocket,
         TerminalsInv, SessionsServed, TerminalsTypeOK, MarkedIsUsed, ConnectedServed
  <2>. QED BY <2>1, <2>2, <2>3, <2>4 DEF TerminalsInv, SessionsServed
<1>3. CASE StartShell(k)
  <2>1. TerminalsTypeOK'
    BY <1>3, TerminalsAssumption DEF StartShell, sessionVars, TerminalsInv, TerminalsTypeOK,
         Stored
  <2>2. MarkedIsUsed'
    BY <1>3, TerminalsAssumption DEF StartShell, sessionVars, TerminalsInv,
         SessionsServed, TerminalsTypeOK, MarkedIsUsed
  <2>3. OneTerminal'
    BY <1>3, TerminalsAssumption DEF StartShell, sessionVars, TerminalsInv,
         SessionsServed, TerminalsTypeOK, MarkedIsUsed, OneTerminal
  <2>4. ConnectedServed'
    BY <1>3, TerminalsAssumption DEF StartShell, sessionVars, TerminalsInv,
         SessionsServed, TerminalsTypeOK, MarkedIsUsed, ConnectedServed
  <2>. QED BY <2>1, <2>2, <2>3, <2>4 DEF TerminalsInv, SessionsServed
<1>4. CASE ShellOpens(k)
  <2>1. TerminalsTypeOK'
    BY <1>4, TerminalsAssumption DEF ShellOpens, Connectable, TerminalsInv, TerminalsTypeOK,
         Stored
  <2>2. MarkedIsUsed'
    BY <1>4, TerminalsAssumption DEF ShellOpens, Connectable, TerminalsInv,
         SessionsServed, TerminalsTypeOK, MarkedIsUsed
  <2>3. OneTerminal'
    BY <1>4, TerminalsAssumption DEF ShellOpens, Connectable, TerminalsInv,
         SessionsServed, TerminalsTypeOK, MarkedIsUsed, OneTerminal
  <2>4. ConnectedServed'
    BY <1>4, TerminalsAssumption DEF ShellOpens, Connectable, TerminalsInv,
         SessionsServed, TerminalsTypeOK, MarkedIsUsed, ConnectedServed
  <2>. QED BY <2>1, <2>2, <2>3, <2>4 DEF TerminalsInv, SessionsServed
<1>5. CASE ShellOpensInVain(k)
  <2>1. TerminalsTypeOK'
    BY <1>5, TerminalsAssumption DEF ShellOpensInVain, sessionVars, TerminalsInv,
         TerminalsTypeOK, Stored
  <2>2. MarkedIsUsed'
    BY <1>5, TerminalsAssumption DEF ShellOpensInVain, sessionVars, TerminalsInv,
         SessionsServed, TerminalsTypeOK, MarkedIsUsed
  <2>3. OneTerminal'
    BY <1>5, TerminalsAssumption DEF ShellOpensInVain, sessionVars, TerminalsInv,
         SessionsServed, TerminalsTypeOK, MarkedIsUsed, OneTerminal
  <2>4. ConnectedServed'
    BY <1>5, TerminalsAssumption DEF ShellOpensInVain, sessionVars, TerminalsInv,
         SessionsServed, TerminalsTypeOK, MarkedIsUsed, ConnectedServed
  <2>. QED BY <2>1, <2>2, <2>3, <2>4 DEF TerminalsInv, SessionsServed
<1>6. CASE ShellOpensLate(k)
  <2>1. TerminalsTypeOK'
    BY <1>6, TerminalsAssumption DEF ShellOpensLate, sessionVars, TerminalsInv,
         TerminalsTypeOK, Stored
  <2>2. MarkedIsUsed'
    BY <1>6, TerminalsAssumption DEF ShellOpensLate, sessionVars, TerminalsInv,
         SessionsServed, TerminalsTypeOK, MarkedIsUsed
  <2>3. OneTerminal'
    BY <1>6, TerminalsAssumption DEF ShellOpensLate, sessionVars, TerminalsInv,
         SessionsServed, TerminalsTypeOK, MarkedIsUsed, OneTerminal
  <2>4. ConnectedServed'
    BY <1>6, TerminalsAssumption DEF ShellOpensLate, sessionVars, TerminalsInv,
         SessionsServed, TerminalsTypeOK, MarkedIsUsed, ConnectedServed
  <2>. QED BY <2>1, <2>2, <2>3, <2>4 DEF TerminalsInv, SessionsServed
<1>7. CASE ShellFails(k)
  <2>1. TerminalsTypeOK'
    BY <1>7, TerminalsAssumption DEF ShellFails, Touch, CloseSocket,
         sessionVars, TerminalsInv, TerminalsTypeOK, Stored
  <2>2. MarkedIsUsed'
    BY <1>7, TerminalsAssumption DEF ShellFails, Touch, CloseSocket,
         sessionVars, TerminalsInv, SessionsServed, TerminalsTypeOK, MarkedIsUsed
  <2>3. OneTerminal'
    BY <1>7, TerminalsAssumption DEF ShellFails, Touch, CloseSocket,
         sessionVars, TerminalsInv, SessionsServed, TerminalsTypeOK, MarkedIsUsed,
         OneTerminal
  <2>4. ConnectedServed'
    BY <1>7, TerminalsAssumption DEF ShellFails, Touch, CloseSocket,
         sessionVars, TerminalsInv, SessionsServed, TerminalsTypeOK, MarkedIsUsed,
         ConnectedServed
  <2>. QED BY <2>1, <2>2, <2>3, <2>4 DEF TerminalsInv, SessionsServed
<1>8. CASE Resized(k)
  <2>1. TerminalsTypeOK'
    BY <1>8, TerminalsAssumption DEF Resized, sessionVars, TerminalsInv, TerminalsTypeOK,
         Stored
  <2>2. MarkedIsUsed'
    BY <1>8, TerminalsAssumption DEF Resized, sessionVars, TerminalsInv,
         SessionsServed, TerminalsTypeOK, MarkedIsUsed
  <2>3. OneTerminal'
    BY <1>8, TerminalsAssumption DEF Resized, sessionVars, TerminalsInv,
         SessionsServed, TerminalsTypeOK, MarkedIsUsed, OneTerminal
  <2>4. ConnectedServed'
    BY <1>8, TerminalsAssumption DEF Resized, sessionVars, TerminalsInv,
         SessionsServed, TerminalsTypeOK, MarkedIsUsed, ConnectedServed
  <2>. QED BY <2>1, <2>2, <2>3, <2>4 DEF TerminalsInv, SessionsServed
<1>9. CASE CleanupEnds(k)
  <2>1. TerminalsTypeOK'
    <3>1. PICK end \in {"ended", "lost"} : shell' = [shell EXCEPT ![k] = end]
      BY <1>9 DEF CleanupEnds
    <3>2. /\ record' \in [Sessions -> {"none", "pending", "connected", "gone"}]
          /\ worn' \in [Sessions -> SUBSET {"idle", "old"}]
          /\ \A s \in Sessions : ~Stored(s)' => worn'[s] = {}
      BY <1>9, TerminalsAssumption DEF CleanupEnds, Delete, Stored, TerminalsInv, TerminalsTypeOK
    <3>3. socket' \in [Connections -> {"none", "open", "closing", "closed"}]
      BY <1>9 DEF CleanupEnds, CloseSocket, TerminalsInv, TerminalsTypeOK
    <3>4. UNCHANGED <<at, closed, connected>> /\ shell[k] = "ending"
      BY <1>9 DEF CleanupEnds
    <3>5. /\ shell' \in [Connections -> {"none", "opening", "open", "ending", "ended", "lost"}]
          /\ \A j \in Connections :
               /\ at'[j] \in {"no", "detecting"} => shell'[j] = "none"
               /\ shell'[j] = "opening" <=> at'[j] = "opening"
               /\ connected'[j] => shell'[j] \notin {"none", "opening"}
      BY <3>1, <3>4 DEF TerminalsInv, TerminalsTypeOK
    <3>. QED BY <3>2, <3>3, <3>4, <3>5 DEF TerminalsInv, TerminalsTypeOK
  <2>2. MarkedIsUsed'
    <3>1. /\ connected' = connected
          /\ record' = [record EXCEPT ![Session[k]] = IF Stored(Session[k]) THEN "gone" ELSE @]
      BY <1>9 DEF CleanupEnds, Delete
    <3>. QED BY <3>1, TerminalsAssumption DEF Stored, TerminalsInv, TerminalsTypeOK, MarkedIsUsed
  <2>3. OneTerminal'
    BY <1>9, TerminalsAssumption DEF CleanupEnds, Delete, Stored,
         CloseSocket, TerminalsInv, SessionsServed, TerminalsTypeOK, MarkedIsUsed,
         OneTerminal
  <2>4. ConnectedServed'
    BY <1>9, TerminalsAssumption DEF CleanupEnds, Delete, Stored,
         CloseSocket, TerminalsInv, SessionsServed, TerminalsTypeOK, MarkedIsUsed,
         ConnectedServed
  <2>. QED BY <2>1, <2>2, <2>3, <2>4 DEF TerminalsInv, SessionsServed
<1>. QED BY <1>1, <1>2, <1>3, <1>4, <1>5, <1>6, <1>7, <1>8, <1>9 DEF ConnectionStep

(* So do the clients, their sockets and the timers.                        *)
LEMMA EventKeeps ==
  ASSUME TerminalsInv, NEW k \in Connections,
         Connect(k) \/ Activity(k) \/ StreamEnds(k) \/ TimerFires(k)
         \/ SocketCloses(k) \/ SocketClosed(k) \/ SocketFails(k)
   PROVE TerminalsInv'
<1>1. CASE Connect(k)
  <2>1. TerminalsTypeOK'
    BY <1>1, TerminalsAssumption DEF Connect, sessionVars, TerminalsInv, TerminalsTypeOK,
         Stored
  <2>2. MarkedIsUsed'
    BY <1>1, TerminalsAssumption DEF Connect, sessionVars, TerminalsInv,
         SessionsServed, TerminalsTypeOK, MarkedIsUsed
  <2>3. OneTerminal'
    BY <1>1, TerminalsAssumption DEF Connect, sessionVars, TerminalsInv,
         SessionsServed, TerminalsTypeOK, MarkedIsUsed, OneTerminal
  <2>4. ConnectedServed'
    BY <1>1, TerminalsAssumption DEF Connect, sessionVars, TerminalsInv,
         SessionsServed, TerminalsTypeOK, MarkedIsUsed, ConnectedServed
  <2>. QED BY <2>1, <2>2, <2>3, <2>4 DEF TerminalsInv, SessionsServed
<1>2. CASE Activity(k)
  <2>1. TerminalsTypeOK'
    BY <1>2, TerminalsAssumption DEF Activity, Touch, TerminalsInv, TerminalsTypeOK, Stored
  <2>2. MarkedIsUsed'
    BY <1>2, TerminalsAssumption DEF Activity, Touch, TerminalsInv, SessionsServed,
         TerminalsTypeOK, MarkedIsUsed
  <2>3. OneTerminal'
    BY <1>2, TerminalsAssumption DEF Activity, Touch, TerminalsInv, SessionsServed,
         TerminalsTypeOK, MarkedIsUsed, OneTerminal
  <2>4. ConnectedServed'
    BY <1>2, TerminalsAssumption DEF Activity, Touch, TerminalsInv, SessionsServed,
         TerminalsTypeOK, MarkedIsUsed, ConnectedServed
  <2>. QED BY <2>1, <2>2, <2>3, <2>4 DEF TerminalsInv, SessionsServed
<1>3. CASE StreamEnds(k)
  <2>1. TerminalsTypeOK'
    BY <1>3, TerminalsAssumption DEF StreamEnds, Cleanup, Touch,
         CloseSocket, sessionVars, TerminalsInv, TerminalsTypeOK, Stored
  <2>2. MarkedIsUsed'
    BY <1>3, TerminalsAssumption DEF StreamEnds, Cleanup, Touch,
         CloseSocket, sessionVars, TerminalsInv, SessionsServed, TerminalsTypeOK,
         MarkedIsUsed
  <2>3. OneTerminal'
    BY <1>3, TerminalsAssumption DEF StreamEnds, Cleanup, Touch,
         CloseSocket, sessionVars, TerminalsInv, SessionsServed, TerminalsTypeOK,
         MarkedIsUsed, OneTerminal
  <2>4. ConnectedServed'
    BY <1>3, TerminalsAssumption DEF StreamEnds, Cleanup, Touch,
         CloseSocket, sessionVars, TerminalsInv, SessionsServed, TerminalsTypeOK,
         MarkedIsUsed, ConnectedServed
  <2>. QED BY <2>1, <2>2, <2>3, <2>4 DEF TerminalsInv, SessionsServed
<1>4. CASE TimerFires(k)
  <2>1. TerminalsTypeOK'
    BY <1>4, TerminalsAssumption DEF TimerFires, Cleanup, Touch,
         CloseSocket, sessionVars, TerminalsInv, TerminalsTypeOK, Stored
  <2>2. MarkedIsUsed'
    BY <1>4, TerminalsAssumption DEF TimerFires, Cleanup, Touch,
         CloseSocket, sessionVars, TerminalsInv, SessionsServed, TerminalsTypeOK,
         MarkedIsUsed
  <2>3. OneTerminal'
    BY <1>4, TerminalsAssumption DEF TimerFires, Cleanup, Touch,
         CloseSocket, sessionVars, TerminalsInv, SessionsServed, TerminalsTypeOK,
         MarkedIsUsed, OneTerminal
  <2>4. ConnectedServed'
    BY <1>4, TerminalsAssumption DEF TimerFires, Cleanup, Touch,
         CloseSocket, sessionVars, TerminalsInv, SessionsServed, TerminalsTypeOK,
         MarkedIsUsed, ConnectedServed
  <2>. QED BY <2>1, <2>2, <2>3, <2>4 DEF TerminalsInv, SessionsServed
<1>5. CASE SocketCloses(k)
  <2>1. TerminalsTypeOK'
    BY <1>5, TerminalsAssumption DEF SocketCloses, sessionVars, TerminalsInv,
         TerminalsTypeOK, Stored
  <2>2. MarkedIsUsed'
    BY <1>5, TerminalsAssumption DEF SocketCloses, sessionVars, TerminalsInv,
         SessionsServed, TerminalsTypeOK, MarkedIsUsed
  <2>3. OneTerminal'
    BY <1>5, TerminalsAssumption DEF SocketCloses, sessionVars, TerminalsInv,
         SessionsServed, TerminalsTypeOK, MarkedIsUsed, OneTerminal
  <2>4. ConnectedServed'
    BY <1>5, TerminalsAssumption DEF SocketCloses, sessionVars, TerminalsInv,
         SessionsServed, TerminalsTypeOK, MarkedIsUsed, ConnectedServed
  <2>. QED BY <2>1, <2>2, <2>3, <2>4 DEF TerminalsInv, SessionsServed
<1>6. CASE SocketClosed(k)
  <2>1. TerminalsTypeOK'
    BY <1>6, TerminalsAssumption DEF SocketClosed, Touch, sessionVars, TerminalsInv,
         TerminalsTypeOK, Stored
  <2>2. MarkedIsUsed'
    BY <1>6, TerminalsAssumption DEF SocketClosed, Touch, sessionVars, TerminalsInv,
         SessionsServed, TerminalsTypeOK, MarkedIsUsed
  <2>3. OneTerminal'
    BY <1>6, TerminalsAssumption DEF SocketClosed, Touch, sessionVars, TerminalsInv,
         SessionsServed, TerminalsTypeOK, MarkedIsUsed, OneTerminal
  <2>4. ConnectedServed'
    BY <1>6, TerminalsAssumption DEF SocketClosed, Touch, sessionVars, TerminalsInv,
         SessionsServed, TerminalsTypeOK, MarkedIsUsed, ConnectedServed
  <2>. QED BY <2>1, <2>2, <2>3, <2>4 DEF TerminalsInv, SessionsServed
<1>7. CASE SocketFails(k)
  <2>1. TerminalsTypeOK'
    BY <1>7, TerminalsAssumption DEF SocketFails, Cleanup, Touch,
         CloseSocket, sessionVars, TerminalsInv, TerminalsTypeOK, Stored
  <2>2. MarkedIsUsed'
    BY <1>7, TerminalsAssumption DEF SocketFails, Cleanup, Touch,
         CloseSocket, sessionVars, TerminalsInv, SessionsServed, TerminalsTypeOK,
         MarkedIsUsed
  <2>3. OneTerminal'
    BY <1>7, TerminalsAssumption DEF SocketFails, Cleanup, Touch,
         CloseSocket, sessionVars, TerminalsInv, SessionsServed, TerminalsTypeOK,
         MarkedIsUsed, OneTerminal
  <2>4. ConnectedServed'
    BY <1>7, TerminalsAssumption DEF SocketFails, Cleanup, Touch,
         CloseSocket, sessionVars, TerminalsInv, SessionsServed, TerminalsTypeOK,
         MarkedIsUsed, ConnectedServed
  <2>. QED BY <2>1, <2>2, <2>3, <2>4 DEF TerminalsInv, SessionsServed
<1>. QED BY <1>1, <1>2, <1>3, <1>4, <1>5, <1>6, <1>7

(* So do the sessions' creations and limits.                               *)
LEMMA SessionKeeps ==
  ASSUME TerminalsInv, NEW s \in Sessions, NEW limit \in {"idle", "old"},
         CreateSession(s) \/ ReachLimit(s, limit)
  PROVE TerminalsInv'
<1>1. CASE CreateSession(s)
  <2>1. TerminalsTypeOK'
    BY <1>1, TerminalsAssumption DEF CreateSession, Stored, TerminalsInv, TerminalsTypeOK
  <2>2. MarkedIsUsed'
    BY <1>1, TerminalsAssumption DEF CreateSession, Stored, TerminalsInv,
         SessionsServed, TerminalsTypeOK, MarkedIsUsed
  <2>3. OneTerminal'
    BY <1>1, TerminalsAssumption DEF CreateSession, Stored, TerminalsInv,
         SessionsServed, TerminalsTypeOK, MarkedIsUsed, OneTerminal
  <2>4. ConnectedServed'
    BY <1>1, TerminalsAssumption DEF CreateSession, Stored, TerminalsInv,
         SessionsServed, TerminalsTypeOK, MarkedIsUsed, ConnectedServed
  <2>. QED BY <2>1, <2>2, <2>3, <2>4 DEF TerminalsInv, SessionsServed
<1>2. CASE ReachLimit(s, limit)
  <2>1. TerminalsTypeOK'
    BY <1>2, TerminalsAssumption DEF ReachLimit, Stored, TerminalsInv, TerminalsTypeOK
  <2>2. MarkedIsUsed'
    BY <1>2, TerminalsAssumption DEF ReachLimit, Stored, TerminalsInv,
         SessionsServed, TerminalsTypeOK, MarkedIsUsed
  <2>3. OneTerminal'
    BY <1>2, TerminalsAssumption DEF ReachLimit, Stored, TerminalsInv,
         SessionsServed, TerminalsTypeOK, MarkedIsUsed, OneTerminal
  <2>4. ConnectedServed'
    BY <1>2, TerminalsAssumption DEF ReachLimit, Stored, TerminalsInv,
         SessionsServed, TerminalsTypeOK, MarkedIsUsed, ConnectedServed
  <2>. QED BY <2>1, <2>2, <2>3, <2>4 DEF TerminalsInv, SessionsServed
<1>. QED BY <1>1, <1>2

(* And the pruning of those that have reached a limit.                     *)
LEMMA PruneKeeps ==
  ASSUME TerminalsInv, Prune PROVE TerminalsInv'
<1>1. TerminalsTypeOK'
    BY TerminalsAssumption DEF Prune, Stored, TerminalsInv, TerminalsTypeOK
<1>2. MarkedIsUsed'
    BY TerminalsAssumption DEF Prune, Stored, TerminalsInv, SessionsServed,
         TerminalsTypeOK, MarkedIsUsed
<1>3. OneTerminal'
    BY TerminalsAssumption DEF Prune, Stored, TerminalsInv, SessionsServed,
         TerminalsTypeOK, MarkedIsUsed, OneTerminal
<1>4. ConnectedServed'
    BY TerminalsAssumption DEF Prune, Stored, TerminalsInv, SessionsServed,
         TerminalsTypeOK, MarkedIsUsed, ConnectedServed
<1>. QED BY <1>1, <1>2, <1>3, <1>4 DEF TerminalsInv, SessionsServed

(* Every step keeps the invariant. *)
LEMMA TerminalsStep == TerminalsInv /\ [TerminalsNext]_terminalVars => TerminalsInv'
<1> SUFFICES ASSUME TerminalsInv, [TerminalsNext]_terminalVars PROVE TerminalsInv'
  OBVIOUS
<1>1. CASE UNCHANGED terminalVars
  BY <1>1 DEF terminalVars, sessionVars, TerminalsInv, TerminalsTypeOK, Stored, MarkedIsUsed, SessionsServed,
       OneTerminal, ConnectedServed
<1>2. CASE TerminalsNext
  <2>1. CASE \E s \in Sessions :
              CreateSession(s) \/ \E limit \in {"idle", "old"} : ReachLimit(s, limit)
    BY <2>1, SessionKeeps
  <2>2. CASE Prune
    BY <2>2, PruneKeeps
  <2>3. ASSUME NEW k \in Connections,
               \/ Connect(k) \/ ConnectionStep(k)
               \/ Activity(k) \/ StreamEnds(k) \/ TimerFires(k)
               \/ SocketCloses(k) \/ SocketClosed(k) \/ SocketFails(k)
        PROVE  TerminalsInv'
    BY <2>3, ConnectionKeeps, EventKeeps
  <2>. QED BY <1>2, <2>1, <2>2, <2>3 DEF TerminalsNext
<1>. QED BY <1>1, <1>2

(* The variables of Terminals keep their types, a shell that is being      *)
(* opened is awaited, and only a connection that was given a shell has     *)
(* marked its session (handleConnection).                                  *)
THEOREM TerminalsTyped == TerminalsSpec => []TerminalsTypeOK
<1>1. TerminalsInv => TerminalsTypeOK BY DEF TerminalsInv
<1>. QED BY <1>1, TerminalsStart, TerminalsStep, PTL DEF TerminalsSpec

(* Whatever the interleaving of its connections, of the timers and of the  *)
(* pruning, one connection at most is ever given the shell of a session,   *)
(* and a session that refuses its client is being served (markConnected).  *)
THEOREM SessionServedByOne == TerminalsSpec => []SessionsServed
<1>1. TerminalsInv => SessionsServed BY DEF TerminalsInv
<1>. QED BY <1>1, TerminalsStart, TerminalsStep, PTL DEF TerminalsSpec

(* What ReconnectPossible says of one step.                                *)
PendingLost ==
  \A s \in Sessions :
    record[s] = "pending" /\ record'[s] = "gone" =>
      \/ worn[s] # {}
      \/ \E k \in Connections : Session[k] = s /\ shell[k] = "ending"

(* The steps a connection takes by itself.  Two of them delete a session:  *)
(* the refusal of one that is worn, and the end of a shell.                *)
LEMMA ConnectionLoses ==
  ASSUME TerminalsInv, NEW k \in Connections, ConnectionStep(k) PROVE PendingLost
<1> USE TerminalsAssumption DEF TerminalsInv, TerminalsTypeOK
<1>1. CASE AbortEarly(k)
  BY <1>1 DEF AbortEarly, Cleanup, Touch, sessionVars, PendingLost
<1>2. CASE Refuse(k)
  <2>1. ASSUME NEW s \in Sessions, record[s] = "pending", record'[s] = "gone"
        PROVE  worn[s] # {}
    <3>1. s = Session[k]
      BY <1>2, <2>1 DEF Refuse, Delete
    <3>2. Stored(s)
      BY <2>1 DEF Stored
    <3>. QED BY <1>2, <3>1, <3>2 DEF Refuse, Valid
  <2>. QED BY <2>1 DEF PendingLost
<1>3. CASE StartShell(k)
  BY <1>3 DEF StartShell, sessionVars, PendingLost
<1>4. CASE ShellOpens(k)
  BY <1>4 DEF ShellOpens, PendingLost
<1>5. CASE ShellOpensInVain(k) \/ ShellOpensLate(k)
  BY <1>5 DEF ShellOpensInVain, ShellOpensLate, sessionVars, PendingLost
<1>6. CASE ShellFails(k)
  BY <1>6 DEF ShellFails, Touch, sessionVars, PendingLost
<1>7. CASE Resized(k)
  BY <1>7 DEF Resized, sessionVars, PendingLost
<1>8. CASE CleanupEnds(k)
  <2>1. ASSUME NEW s \in Sessions, record[s] = "pending", record'[s] = "gone"
        PROVE  Session[k] = s /\ shell[k] = "ending"
    BY <1>8, <2>1 DEF CleanupEnds, Delete
  <2>. QED BY <2>1 DEF PendingLost
<1>. QED BY <1>1, <1>2, <1>3, <1>4, <1>5, <1>6, <1>7, <1>8 DEF ConnectionStep

(* Every step: clients, sockets and timers delete no session, and pruning  *)
(* deletes the worn ones.                                                  *)
LEMMA StepLoses == TerminalsInv /\ [TerminalsNext]_terminalVars => [PendingLost]_terminalVars
<1> SUFFICES ASSUME TerminalsInv, TerminalsNext PROVE PendingLost
  OBVIOUS
<1> USE TerminalsAssumption DEF TerminalsInv, TerminalsTypeOK
<1>1. ASSUME NEW s \in Sessions, CreateSession(s) PROVE PendingLost
  BY <1>1 DEF CreateSession, PendingLost
<1>2. ASSUME NEW s \in Sessions, NEW limit \in {"idle", "old"}, ReachLimit(s, limit)
      PROVE  PendingLost
  BY <1>2 DEF ReachLimit, PendingLost
<1>3. CASE Prune
  BY <1>3 DEF Prune, PendingLost
<1>4. ASSUME NEW k \in Connections, ConnectionStep(k) PROVE PendingLost
  BY <1>4, ConnectionLoses
<1>5. ASSUME NEW k \in Connections,
             \/ Connect(k) \/ Activity(k) \/ StreamEnds(k) \/ TimerFires(k)
             \/ SocketCloses(k) \/ SocketClosed(k) \/ SocketFails(k)
      PROVE  PendingLost
  <2>1. record' = record
    BY <1>5 DEF Connect, Activity, StreamEnds, TimerFires, SocketCloses, SocketClosed,
         SocketFails, Cleanup, Touch, sessionVars
  <2>. QED BY <2>1 DEF PendingLost
<1>. QED BY <1>1, <1>2, <1>3, <1>4, <1>5 DEF TerminalsNext

(* A client that loses its socket before it has a shell may come again:    *)
(* its pending session is deleted only when it has reached a limit, or     *)
(* with a shell that was opened for it in vain (cleanup).                  *)
THEOREM SessionsKept == TerminalsSpec => ReconnectPossible
<1>1. [PendingLost]_terminalVars => [\A s \in Sessions :
         record[s] = "pending" /\ record'[s] = "gone" =>
           \/ worn[s] # {}
           \/ \E k \in Connections : Session[k] = s /\ shell[k] = "ending"]_terminalVars
  BY DEF PendingLost
<1>. QED BY <1>1, TerminalsStart, TerminalsStep, StepLoses, PTL DEF TerminalsSpec, ReconnectPossible
=============================================================================
