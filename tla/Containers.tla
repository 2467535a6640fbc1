---------------------------- MODULE Containers ----------------------------
(***************************************************************************)
(* The workspace containers of one thread: their rows in the registry      *)
(* (ContainerRegistry), the tools that ask for a workspace                 *)
(* (DockerWorkspaceRuntimeProvider.ensureWorkspace), the events of Docker  *)
(* written back to the rows (DockerWorkspaceEventsWatcher and              *)
(* ContainerEventProcessor), and those that stop and remove containers:    *)
(* the periodic sweep, the closing cascade of the thread and an            *)
(* administrator.  The volume of the workspace goes with the thread, or    *)
(* later with VolumeGcService.                                             *)
(*                                                                         *)
(* An action is what runs between two awaits.  The helpers of the registry *)
(* that read a row, change its metadata and write it are one step; the     *)
(* read and the write of the event processor are two.                      *)
(***************************************************************************)
EXTENDS Naturals, FiniteSets, Sequences

CONSTANTS
  Ids,        \* containers Docker may create
  Callers,    \* calls of ensureWorkspace
  Platforms,  \* platforms
  Platform,   \* the platform each call asks for
  Scenarios,  \* what a behaviour starts with and what may happen in it
  MaxFaults   \* bound on the number of faults

(* Calls that may fail, a stop or removal refused with status 409, a broken *)
(* stream of events, and a crash.                                          *)
FaultKinds == {"create", "register", "stop", "remove", "conflict", "list", "update",
               "volume", "reconnect", "crash"}

ASSUME ContainersAssumption ==
  /\ Platform \in [Callers -> Platforms]
  /\ Scenarios \subseteq [existing : SUBSET Ids,
                         incidents : SUBSET {"exit", "oom", "close", "delete"},
                         faults : SUBSET FaultKinds,
                         expires : BOOLEAN,
                         sweeps : BOOLEAN]
  /\ MaxFaults \in Nat

VARIABLES
  scenario,   \* one of the scenarios; expires: is ttlSeconds above 0?
              \* sweeps: is CONTAINERS_CLEANUP_ENABLED left on?
  \* --- Docker
  docker,     \* state of each container
  built,      \* the platform it was created for
  log,        \* the events Docker has emitted about it
  volume,     \* does the volume of the thread exist?
  \* --- rows of the database
  row,        \* the row of each container
  \* --- memory of the server
  delivered,  \* number of events of each container the processor has taken
  handling,   \* the event in hand, with the row as it was read
  sweeping,   \* is a sweep running?
  job,        \* who stops and removes which container, and how far it is
  ensure,     \* progress of the calls of ensureWorkspace
  closing,    \* progress of the closing cascade
  todo,       \* containers the cascade has still to go through
  \* --- history
  marked,     \* containers the cascade has marked terminating
  late,       \* containers registered when they had already ended
  refused,    \* containers a worker left in place, their removal refused with 409
  faults      \* number of faults so far

dockerVars == <<docker, built, log, volume>>
eventVars == <<delivered, handling>>
closeVars == <<closing, todo, marked>>
vars == <<dockerVars, row, eventVars, sweeping, job, ensure, closeVars, late, refused, faults, scenario>>

(* Those who stop and remove containers, by the reason they record. *)
Workers == {"ttl_expired", "thread_closed", "manual_delete"}
Events == {"start", "kill", "die", "fail", "stop", "oom", "destroy"}
NoEvent == [id |-> "none"]
NoRow == [status |-> "none", reason |-> "none", lastEvent |-> 0, waiting |-> FALSE,
          expired |-> FALSE, mounts |-> FALSE]

(* A row: its status and terminationReason ("event" stands for the reason  *)
(* an event gave), metadata.lastEventAt, whether retryAfter lies ahead,    *)
(* whether killAfterAt has passed, and whether metadata.mounts is there.   *)
Row == [status : {"none", "running", "terminating", "stopped", "failed"},
        reason : {"none", "event", "workspace_volume_removed"} \cup Workers,
        lastEvent : Nat, waiting : BOOLEAN, expired : BOOLEAN, mounts : BOOLEAN]

TypeOK ==
  /\ scenario \in Scenarios
  /\ docker \in [Ids -> {"none", "running", "exited", "gone"}]
  /\ built \in [Ids -> Platforms \cup {"none"}]
  /\ log \in [Ids -> Seq(Events)]
  /\ volume \in BOOLEAN
  /\ row \in [Ids -> Row]
  /\ \A c \in Ids : delivered[c] \in 0..Len(log[c])
  /\ handling = NoEvent \/ handling \in [id : Ids, event : Nat \ {0}, read : Row]
  /\ sweeping \in BOOLEAN
  /\ job \in [Workers -> [Ids -> {"no", "claim", "stop", "remove", "mark"}]]
  /\ ensure \in [Callers -> [at : {"no", "stop", "remove", "create", "inspect", "write", "over"},
                             id : Ids \cup {"none"}]]
  /\ closing \in {"no", "terminate", "mark", "sweep", "volume", "reconcile", "over"}
  /\ todo \subseteq Ids
  /\ marked \subseteq Ids
  /\ late \subseteq Ids /\ refused \subseteq Ids
  /\ faults \in 0..MaxFaults

(* The server finds running, and in the registry, the containers of an     *)
(* earlier one.                                                            *)
Init ==
  /\ scenario \in Scenarios
  /\ LET Left(c) == c \in scenario.existing IN
       /\ docker = [c \in Ids |-> IF Left(c) THEN "running" ELSE "none"]
       /\ built \in [Ids -> Platforms \cup {"none"}]
       /\ \A c \in Ids : built[c] = "none" <=> ~Left(c)
       /\ log = [c \in Ids |-> IF Left(c) THEN <<"start">> ELSE << >>]
       /\ volume = (scenario.existing # {})
       /\ row = [c \in Ids |-> IF Left(c)
                                THEN [NoRow EXCEPT !.status = "running", !.lastEvent = 3,
                                                   !.mounts = TRUE]
                                ELSE NoRow]
       /\ delivered = [c \in Ids |-> Len(log[c])]
  /\ handling = NoEvent
  /\ sweeping = FALSE
  /\ job = [w \in Workers |-> [c \in Ids |-> "no"]]
  /\ ensure = [k \in Callers |-> [at |-> "no", id |-> "none"]]
  /\ closing = "no" /\ todo = {} /\ marked = {}
  /\ late = {} /\ refused = {} /\ faults = 0

-----------------------------------------------------------------------------
(* Docker.  A container's clock ticks with its events: event i happens at  *)
(* 2 * i, what the server stamps in between at an odd time.                *)

Exists(c) == docker[c] \in {"running", "exited"}
InUse == \E c \in Ids : Exists(c)
Registered(c) == row[c].status # "none"
Now(c) == 2 * Len(log[c]) + 1
TimeOf(i) == 2 * i

Fault(kind) == kind \in scenario.faults /\ faults < MaxFaults /\ faults' = faults + 1

(* What a container emits when it is stopped or killed; how it dies, with  *)
(* 0 or SIGTERM or otherwise, is up to what runs in it.                    *)
DockerStop(c) ==
  IF docker[c] = "running"
    THEN /\ docker' = [docker EXCEPT ![c] = "exited"]
         /\ \E how \in {"die", "fail"} :
              log' = [log EXCEPT ![c] = @ \o <<"kill", how, "stop">>]
    ELSE UNCHANGED <<docker, log>>

DockerRemove(c) ==
  /\ docker' = [docker EXCEPT ![c] = "gone"]
  /\ log' = [log EXCEPT ![c] =
               IF docker[c] = "running" THEN @ \o <<"kill", "fail", "destroy">>
               ELSE IF docker[c] = "exited" THEN Append(@, "destroy")
               ELSE @]

(* Docker refuses a stop or a removal with status 409, and the container   *)
(* stays as it is.                                                         *)
Conflict(c) == Exists(c) /\ Fault("conflict") /\ UNCHANGED <<docker, log>>

(* The container ends on its own. *)
Exit(c) ==
  /\ "exit" \in scenario.incidents
  /\ docker[c] = "running"
  /\ docker' = [docker EXCEPT ![c] = "exited"]
  /\ \E how \in {"die", "fail"} : log' = [log EXCEPT ![c] = Append(@, how)]
  /\ UNCHANGED <<built, volume, row, eventVars, sweeping, job, ensure, closeVars, late, refused, faults, scenario>>

OutOfMemory(c) ==
  /\ "oom" \in scenario.incidents
  /\ docker[c] = "running"
  /\ docker' = [docker EXCEPT ![c] = "exited"]
  /\ log' = [log EXCEPT ![c] = @ \o <<"oom", "fail">>]
  /\ UNCHANGED <<built, volume, row, eventVars, sweeping, job, ensure, closeVars, late, refused, faults, scenario>>

-----------------------------------------------------------------------------
(* The registry. *)

RegisterStart(c) ==
  row' = [row EXCEPT ![c] = [NoRow EXCEPT !.status = "running", !.lastEvent = Now(c),
                                          !.mounts = TRUE]]

MarkStopped(S, reason) ==
  row' = [c \in Ids |->
            IF c \in S /\ Registered(c)
              THEN [row[c] EXCEPT !.status = "stopped", !.reason = reason, !.lastEvent = Now(c)]
              ELSE row[c]]

RecordTerminationFailure(c) ==
  row' = IF Registered(c) THEN [row EXCEPT ![c].waiting = TRUE] ELSE row

(* Mutant: rows of closed threads are left to the cascade. *)
Retryable_NotClosed ==
  {c \in Ids : row[c].status = "terminating" /\ ~row[c].waiting /\ row[c].reason # "thread_closed"}

(* getExpired: the rows past their time and those terminating whose        *)
(* retryAfter is not ahead.                                                *)
Overdue == {c \in Ids : row[c].status = "running" /\ row[c].expired}
Retryable == {c \in Ids : row[c].status = "terminating" /\ ~row[c].waiting}

(* Time passes: killAfterAt, which a row has only if its workspace has a   *)
(* time to live, or the retryAfter of a failed termination.                *)
Expire(c) ==
  /\ scenario.expires
  /\ row[c].status = "running" /\ ~row[c].expired
  /\ row' = [row EXCEPT ![c].expired = TRUE]
  /\ UNCHANGED <<dockerVars, eventVars, sweeping, job, ensure, closeVars, late, refused, faults, scenario>>

RetryDue(c) ==
  /\ row[c].waiting
  /\ row' = [row EXCEPT ![c].waiting = FALSE]
  /\ UNCHANGED <<dockerVars, eventVars, sweeping, job, ensure, closeVars, late, refused, faults, scenario>>

-----------------------------------------------------------------------------
(* ensureWorkspace of a tool. *)

EnsureAt(k, at, c) == ensure' = [ensure EXCEPT ![k] = [at |-> at, id |-> c]]

(* A running container of the thread is reused, unless its platform is not *)
(* the one asked for: then it is stopped and removed first.                *)
EnsureFind(k) ==
  /\ ensure[k].at = "no"
  /\ LET found == {c \in Ids : docker[c] = "running"} IN
       IF found = {}
         THEN EnsureAt(k, "create", "none")
         ELSE \E c \in found :
                EnsureAt(k, IF built[c] = Platform[k] THEN "inspect" ELSE "stop", c)
  /\ UNCHANGED <<dockerVars, row, eventVars, sweeping, job, closeVars, late, refused, faults, scenario>>

EnsureStop(k) ==
  /\ ensure[k].at = "stop"
  /\ \/ /\ DockerStop(ensure[k].id)
        /\ EnsureAt(k, "remove", ensure[k].id)
        /\ UNCHANGED faults
     \/ /\ Conflict(ensure[k].id)
        /\ EnsureAt(k, "remove", ensure[k].id)
     \/ /\ Fault("stop")
        /\ EnsureAt(k, "over", "none")
        /\ UNCHANGED <<docker, log>>
  /\ UNCHANGED <<built, volume, row, eventVars, sweeping, job, closeVars, late, refused, scenario>>

EnsureRemove(k) ==
  /\ ensure[k].at = "remove"
  /\ \/ /\ DockerRemove(ensure[k].id)
        /\ EnsureAt(k, "create", "none")
        /\ UNCHANGED faults
     \/ /\ Conflict(ensure[k].id)
        /\ EnsureAt(k, "create", "none")
     \/ /\ Fault("remove")
        /\ EnsureAt(k, "over", "none")
        /\ UNCHANGED <<docker, log>>
  /\ UNCHANGED <<built, volume, row, eventVars, sweeping, job, closeVars, late, refused, scenario>>

(* Docker never gives an identifier twice. *)
Unused == {c \in Ids : docker[c] = "none"}

EnsureCreate(k) ==
  /\ ensure[k].at = "create"
  /\ \/ /\ Unused # {}
        /\ LET c == CHOOSE c \in Unused : TRUE IN
             /\ docker' = [docker EXCEPT ![c] = "running"]
             /\ built' = [built EXCEPT ![c] = Platform[k]]
             /\ log' = [log EXCEPT ![c] = <<"start">>]
             /\ EnsureAt(k, "inspect", c)
        /\ volume' = TRUE
        /\ UNCHANGED faults
     \/ /\ Fault("create")
        /\ EnsureAt(k, "over", "none")
        /\ UNCHANGED dockerVars
  /\ UNCHANGED <<row, eventVars, sweeping, job, closeVars, late, refused, scenario>>

(* registerWorkspaceContainer: the container is inspected, then its row is *)
(* written; a failure of either is logged and the call goes on.            *)
EnsureInspect(k) ==
  /\ ensure[k].at = "inspect"
  /\ EnsureAt(k, IF Exists(ensure[k].id) THEN "write" ELSE "over", ensure[k].id)
  /\ UNCHANGED <<dockerVars, row, eventVars, sweeping, job, closeVars, late, refused, faults, scenario>>

EnsureWrite(k) ==
  /\ ensure[k].at = "write"
  /\ EnsureAt(k, "over", ensure[k].id)
  /\ \/ /\ RegisterStart(ensure[k].id)
        /\ late' = IF docker[ensure[k].id] = "running" THEN late ELSE late \cup {ensure[k].id}
        /\ UNCHANGED faults
     \/ Fault("register") /\ UNCHANGED <<row, late>>
  /\ UNCHANGED <<dockerVars, eventVars, sweeping, job, closeVars, refused, scenario>>

-----------------------------------------------------------------------------
(* The event processor: one event at a time, in the order of the stream.   *)

(* Mutant: only a stop ends a container. *)
StatusFor_StopOnly(e) ==
  CASE e = "start" -> "running"
    [] e = "stop" -> "stopped"
    [] e = "kill" -> "terminating"
    [] OTHER -> "none"

StatusFor(e) ==
  CASE e = "start" -> "running"
    [] e \in {"die", "stop"} -> "stopped"
    [] e \in {"fail", "oom"} -> "failed"
    [] e = "kill" -> "terminating"
    [] OTHER -> "none"

CanTransition(e, status) ==
  /\ StatusFor(e) # "none"
  /\ e = "kill" => status \in {"running", "terminating"}
  /\ e = "stop" => status # "failed"

(* The processor has taken every event about the container. *)
CaughtUp(c) == delivered[c] = Len(log[c]) /\ handling = NoEvent

Stale(c, i, r) == TimeOf(i) < r.lastEvent

(* The row is read.  An event about a container without a row, or older    *)
(* than what the row has seen, changes nothing.                            *)
EventRead(c) ==
  /\ handling = NoEvent
  /\ delivered[c] < Len(log[c])
  /\ LET i == delivered[c] + 1 IN
       /\ delivered' = [delivered EXCEPT ![c] = i]
       /\ handling' = IF Registered(c) /\ ~Stale(c, i, row[c])
                        THEN [id |-> c, event |-> i, read |-> row[c]]
                        ELSE NoEvent
  /\ UNCHANGED <<dockerVars, row, sweeping, job, ensure, closeVars, late, refused, faults, scenario>>

(* What the event does to a row, given the row as it was read: the         *)
(* metadata is written back whole.                                         *)
AfterEvent(e, i, read, now) ==
  LET applied == CanTransition(e, read.status) IN
    [now EXCEPT
       !.status = IF applied THEN StatusFor(e) ELSE @,
       !.reason = IF e = "start" THEN "none"
                  ELSE IF e \in {"kill", "die", "fail", "oom"} \/ (e = "stop" /\ applied)
                         THEN "event" ELSE @,
       !.lastEvent = TimeOf(i),
       !.waiting = read.waiting,
       !.mounts = read.mounts]

(* The row is written; it may have been purged since, and a failed write   *)
(* is logged.                                                              *)
EventWrite ==
  /\ handling # NoEvent
  /\ handling' = NoEvent
  /\ LET c == handling.id IN
       \/ /\ row' = IF Registered(c)
                      THEN [row EXCEPT ![c] = AfterEvent(log[c][handling.event], handling.event,
                                                         handling.read, @)]
                      ELSE row
          /\ UNCHANGED faults
       \/ Fault("update") /\ UNCHANGED row
  /\ UNCHANGED <<dockerVars, delivered, sweeping, job, ensure, closeVars, late, refused, scenario>>

(* The stream breaks and is opened again from the second of the last event *)
(* seen: the events of that second come again.                             *)
Reconnect ==
  /\ Fault("reconnect")
  /\ \E c \in Ids : \E i \in 0..(delivered[c] - 1) : delivered' = [delivered EXCEPT ![c] = i]
  /\ UNCHANGED <<dockerVars, row, handling, sweeping, job, ensure, closeVars, late, refused, scenario>>

-----------------------------------------------------------------------------
(* Stopping and removing a container: stopAndRemoveContainer of the sweep  *)
(* and of the cascade, deleteContainer of an administrator.  A container   *)
(* that is not running or not there is no error, and neither is a status   *)
(* 409, which leaves the container as it was: the next step follows.       *)

JobAt(w, c, at) == job' = [job EXCEPT ![w][c] = at]

StopContainer(w, c) ==
  /\ job[w][c] = "stop"
  /\ \/ /\ DockerStop(c)
        /\ JobAt(w, c, "remove")
        /\ UNCHANGED <<row, faults>>
     \/ /\ Conflict(c)
        /\ JobAt(w, c, "remove")
        /\ UNCHANGED row
     \/ /\ w = "manual_delete" /\ Fault("stop")
        /\ JobAt(w, c, "remove")
        /\ UNCHANGED <<docker, log, row>>
     \/ /\ w # "manual_delete" /\ Fault("stop")
        /\ RecordTerminationFailure(c)
        /\ JobAt(w, c, "no")
        /\ UNCHANGED <<docker, log>>
  /\ UNCHANGED <<built, volume, eventVars, sweeping, ensure, closeVars, late, refused, scenario>>

(* Mutant: every failure of the removal counts as a container not there. *)
RemoveContainer_AnyErrorBenign(w, c) ==
  /\ job[w][c] = "remove"
  /\ \/ DockerRemove(c) /\ UNCHANGED <<refused, faults>>
     \/ Conflict(c) /\ refused' = refused \cup {c}
     \/ Fault("remove") /\ UNCHANGED <<docker, log, refused>>
  /\ JobAt(w, c, "mark")
  /\ UNCHANGED <<built, volume, row, eventVars, sweeping, ensure, closeVars, late, scenario>>

RemoveContainer(w, c) ==
  /\ job[w][c] = "remove"
  /\ \/ /\ DockerRemove(c)
        /\ JobAt(w, c, "mark")
        /\ UNCHANGED <<row, refused, faults>>
     \/ /\ Conflict(c)
        /\ JobAt(w, c, "mark")
        /\ refused' = refused \cup {c}
        /\ UNCHANGED row
     \/ /\ Fault("remove")
        /\ IF w = "manual_delete" THEN UNCHANGED row ELSE RecordTerminationFailure(c)
        /\ JobAt(w, c, "no")
        /\ UNCHANGED <<docker, log, refused>>
  /\ UNCHANGED <<built, volume, eventVars, sweeping, ensure, closeVars, late, scenario>>

MarkRemoved(w, c) ==
  /\ job[w][c] = "mark"
  /\ MarkStopped({c}, w)
  /\ JobAt(w, c, "no")
  /\ UNCHANGED <<dockerVars, eventVars, sweeping, ensure, closeVars, late, refused, faults, scenario>>

(* An administrator deletes a container that has a row. *)
DeleteRequest(c) ==
  /\ "delete" \in scenario.incidents
  /\ Registered(c) /\ job["manual_delete"][c] = "no"
  /\ Exists(c)
  /\ JobAt("manual_delete", c, "stop")
  /\ UNCHANGED <<dockerVars, row, eventVars, sweeping, ensure, closeVars, late, refused, faults, scenario>>

-----------------------------------------------------------------------------
(* The periodic sweep. *)

(* The rows deleteHistorical may delete.  The retention is longer than     *)
(* anything under way: a row in use was updated since.                     *)
Purgeable ==
  {c \in Ids : /\ row[c].status \in {"stopped", "failed"}
               /\ CaughtUp(c) /\ closing \in {"no", "over"}
               /\ \A w \in Workers : job[w][c] = "no"
               /\ \A k \in Callers : ensure[k].at \in {"no", "over"}}

SweepStart ==
  /\ scenario.sweeps
  /\ ~sweeping
  /\ Overdue \cup Retryable \cup Purgeable # {}
  /\ sweeping' = TRUE
  /\ job' = [job EXCEPT !["ttl_expired"] =
               [c \in Ids |-> IF c \in Overdue THEN "claim"
                              ELSE IF c \in Retryable THEN "stop" ELSE "no"]]
  /\ UNCHANGED <<dockerVars, row, eventVars, ensure, closeVars, late, refused, faults, scenario>>

(* A row that was running must still be: whoever sees it first has it. *)
SweepClaim(c) ==
  /\ job["ttl_expired"][c] = "claim"
  /\ IF row[c].status = "running"
       THEN /\ row' = [row EXCEPT ![c].status = "terminating"]
            /\ JobAt("ttl_expired", c, "stop")
       ELSE JobAt("ttl_expired", c, "no") /\ UNCHANGED row
  /\ UNCHANGED <<dockerVars, eventVars, sweeping, ensure, closeVars, late, refused, faults, scenario>>

(* When every container is done with, the rows that ended longer ago than  *)
(* the retention are purged.                                               *)
SweepEnd ==
  /\ sweeping
  /\ \A c \in Ids : job["ttl_expired"][c] = "no"
  /\ sweeping' = FALSE
  /\ \E S \in SUBSET Purgeable : row' = [c \in Ids |-> IF c \in S THEN NoRow ELSE row[c]]
  /\ UNCHANGED <<dockerVars, eventVars, job, ensure, closeVars, late, refused, faults, scenario>>

-----------------------------------------------------------------------------
(* The closing cascade of the thread, from the termination of its          *)
(* containers to the removal of its volume.                                *)

(* The rows that are running or terminating. *)
CloseThread ==
  /\ "close" \in scenario.incidents
  /\ closing = "no"
  /\ closing' = "terminate"
  /\ todo' = {c \in Ids : row[c].status \in {"running", "terminating"}}
  /\ UNCHANGED <<dockerVars, row, eventVars, sweeping, job, ensure, marked, late, refused, faults, scenario>>

(* And the containers Docker finds by the label of the thread. *)
CloseDiscover ==
  /\ closing = "terminate"
  /\ closing' = "mark"
  /\ \/ todo' = todo \cup {c \in Ids : Exists(c)} /\ UNCHANGED faults
     \/ Fault("list") /\ UNCHANGED todo
  /\ UNCHANGED <<dockerVars, row, eventVars, sweeping, job, ensure, marked, late, refused, scenario>>

(* processContainer: a row is claimed and marked terminating, due at once. *)
CloseMark(c) ==
  /\ closing = "mark" /\ c \in todo
  /\ todo' = todo \ {c}
  /\ marked' = IF Registered(c) THEN marked \cup {c} ELSE marked
  /\ row' = IF Registered(c)
              THEN [row EXCEPT ![c].status = "terminating", ![c].reason = "thread_closed",
                               ![c].waiting = FALSE, ![c].lastEvent = 0, ![c].mounts = FALSE]
              ELSE row
  /\ UNCHANGED <<dockerVars, eventVars, sweeping, job, ensure, closing, late, refused, faults, scenario>>

(* Mutant: only the rows still terminating are listed. *)
CloseSweep_TerminatingOnly ==
  /\ closing = "mark" /\ todo = {}
  /\ closing' = "sweep"
  /\ todo' = {c \in Ids : row[c].status = "terminating"}
  /\ UNCHANGED <<dockerVars, row, eventVars, sweeping, job, ensure, marked, late, refused, faults, scenario>>

(* sweepSelective: every row of the thread, one after the other. *)
CloseSweep ==
  /\ closing = "mark" /\ todo = {}
  /\ closing' = "sweep"
  /\ todo' = {c \in Ids : Registered(c)}
  /\ UNCHANGED <<dockerVars, row, eventVars, sweeping, job, ensure, marked, late, refused, faults, scenario>>

CloseSweepNext ==
  /\ closing = "sweep"
  /\ \A c \in Ids : job["thread_closed"][c] = "no"
  /\ IF todo = {}
       THEN closing' = "volume" /\ UNCHANGED <<todo, job>>
       ELSE \E c \in todo :
              JobAt("thread_closed", c, "stop") /\ todo' = todo \ {c} /\ UNCHANGED closing
  /\ UNCHANGED <<dockerVars, row, eventVars, sweeping, ensure, marked, late, refused, faults, scenario>>

(* deleteWorkspaceVolume: nothing is done while a container has the        *)
(* volume; rows that still refer to it are looked up.                      *)
CloseVolume ==
  /\ closing = "volume"
  /\ \/ /\ closing' = IF InUse THEN "over" ELSE "reconcile"
        /\ todo' = IF InUse THEN {} ELSE {c \in Ids : row[c].mounts /\ row[c].status # "stopped"}
        /\ UNCHANGED faults
     \/ Fault("list") /\ closing' = "over" /\ UNCHANGED todo
  /\ UNCHANGED <<dockerVars, row, eventVars, sweeping, job, ensure, marked, late, refused, scenario>>

(* Docker keeps a volume that is in use; once it is gone the rows found    *)
(* are marked stopped.                                                     *)
CloseReconcile ==
  /\ closing = "reconcile"
  /\ closing' = "over"
  /\ todo' = {}
  /\ \/ /\ ~InUse
        /\ volume' = FALSE
        /\ MarkStopped(todo, "workspace_volume_removed")
        /\ UNCHANGED faults
     \/ InUse /\ UNCHANGED <<volume, row, faults>>
     \/ Fault("volume") /\ UNCHANGED <<volume, row>>
  /\ UNCHANGED <<docker, built, log, eventVars, sweeping, job, ensure, marked, late, refused, scenario>>

(* VolumeGcService.handleThread: the same for a closed thread, later and   *)
(* again; Docker looks once more whether the volume is in use.  It is      *)
(* assumed that VOLUME_GC_ENABLED is left on.                              *)
CollectVolume ==
  /\ closing # "no"
  /\ volume /\ ~InUse
  /\ \/ volume' = FALSE /\ UNCHANGED faults
     \/ Fault("volume") /\ UNCHANGED volume
  /\ UNCHANGED <<docker, built, log, row, eventVars, sweeping, job, ensure, closeVars, late, refused, scenario>>

-----------------------------------------------------------------------------
(* The server stops and starts again: what was under way is forgotten, and *)
(* the stream of events begins at the present.                             *)
Crash ==
  /\ Fault("crash")
  /\ delivered' = [c \in Ids |-> Len(log[c])]
  /\ handling' = NoEvent
  /\ sweeping' = FALSE
  /\ job' = [w \in Workers |-> [c \in Ids |-> "no"]]
  /\ ensure' = [k \in Callers |-> IF ensure[k].at = "no" THEN ensure[k]
                                   ELSE [at |-> "over", id |-> "none"]]
  /\ closing' = IF closing = "no" THEN "no" ELSE "over"
  /\ todo' = {}
  /\ UNCHANGED <<dockerVars, row, marked, late, refused, scenario>>

EnsureStep(k) ==
  EnsureStop(k) \/ EnsureRemove(k) \/ EnsureCreate(k) \/ EnsureInspect(k) \/ EnsureWrite(k)

JobStep == \E w \in Workers, c \in Ids :
             StopContainer(w, c) \/ RemoveContainer(w, c) \/ MarkRemoved(w, c)

SweepStep == SweepStart \/ (\E c \in Ids : SweepClaim(c)) \/ SweepEnd

CloseStep ==
  \/ CloseDiscover
  \/ \E c \in Ids : CloseMark(c)
  \/ CloseSweep
  \/ CloseSweepNext
  \/ CloseVolume
  \/ CloseReconcile

EventStep == (\E c \in Ids : EventRead(c)) \/ EventWrite

Next ==
  \/ \E c \in Ids : Exit(c) \/ OutOfMemory(c) \/ Expire(c) \/ RetryDue(c) \/ DeleteRequest(c)
  \/ \E k \in Callers : EnsureFind(k) \/ EnsureStep(k)
  \/ EventStep
  \/ Reconnect
  \/ JobStep
  \/ SweepStep
  \/ CloseThread \/ CloseStep
  \/ CollectVolume
  \/ Crash

Spec == Init /\ [][Next]_vars

(* What the server has begun goes on, its timers fire, and time passes;    *)
(* no sweep and no expiry is promised where the settings turn them off.    *)
FairSpec ==
  /\ Spec
  /\ \A k \in Callers : WF_vars(EnsureStep(k))
  /\ \A w \in Workers, c \in Ids :
       WF_vars(StopContainer(w, c) \/ RemoveContainer(w, c) \/ MarkRemoved(w, c))
  /\ \A c \in Ids : WF_vars(Expire(c)) /\ WF_vars(RetryDue(c)) /\ WF_vars(SweepClaim(c))
  /\ WF_vars(SweepStart) /\ WF_vars(SweepEnd)
  /\ WF_vars(CloseStep)
  /\ WF_vars(EventStep)
  /\ WF_vars(CollectVolume)

-----------------------------------------------------------------------------
(* A row that the sweep, the cascade or an administrator has marked        *)
(* stopped has no container left (ContainerCleanupService.sweep,           *)
(* sweepSelective, deleteContainer), whatever late or repeated events the  *)
(* processor writes meanwhile; the one exception is a container whose      *)
(* removal Docker refused with a 409, which the code takes as benign.      *)
StoppedByServiceIsGone ==
  \A c \in Ids : row[c].status = "stopped" /\ row[c].reason \in Workers
                 => ~Exists(c) \/ c \in refused

(* Once the processor has taken every event, no row shows as running a     *)
(* container that has ended (ContainerEventProcessor.handle), unless it    *)
(* was registered after that or events were lost: events that come late,   *)
(* twice, or while the row is being written do not leave it wrong.  The    *)
(* records of rows, jobs and events are well formed throughout.            *)
RowsFollowDocker ==
  /\ TypeOK
  /\ \A c \in Ids \ late :
      CaughtUp(c) /\ faults = 0 /\ row[c].status = "running" => docker[c] = "running"

(* A row left terminating, or running without its container.               *)
Unsettled(c) == \/ row[c].status = "terminating"
                \/ row[c].status = "running" /\ ~Exists(c)

(* What the settings take off the list of the sweep: every row if it is    *)
(* switched off, the running ones if workspaces have no time to live.      *)
Unswept(c) == ~scenario.sweeps \/ (row[c].status = "running" /\ ~scenario.expires)

(* A row that is unsettled does not stay so.  What the sweep lists it      *)
(* retries until it is settled, after failures, crashes, lost events and a *)
(* registration that came too late (ContainerCleanupService.sweep,         *)
(* getExpired).  What it does not list settles by the events and by the    *)
(* cascade, unless the registration was late or something failed.          *)
RowsSettle ==
  \A c \in Ids :
    Unsettled(c) ~> (Unsettled(c) => Unswept(c) /\ (c \in late \/ faults > 0))

(* The containers of a thread that is closed are removed, unless a call    *)
(* failed or the server crashed on the way                                 *)
(* (ContainerThreadTerminationService, sweepSelective): what the event     *)
(* processor and other removals do to the rows meanwhile loses none.       *)
ClosedContainersRemoved ==
  \A c \in Ids : c \in marked ~> ~Exists(c) \/ faults > 0

(* The volume of a closed thread does not outlive its last container       *)
(* (deleteWorkspaceVolume, VolumeGcService.handleThread), not even when    *)
(* the cascade crashed.                                                    *)
ClosedVolumeRemoved == (closing # "no" /\ ~InUse) ~> (~volume \/ InUse)

(* Closing a thread leaves nothing of it behind in Docker. *)
ClosedThreadCleared == ClosedContainersRemoved /\ ClosedVolumeRemoved

(* A failed termination is retried until the container is gone (the        *)
(* comment in ContainerCleanupService.sweep, and workspaces.md).           *)
FailedTerminationRetried == \A c \in Ids : row[c].waiting ~> ~Exists(c)
=============================================================================
