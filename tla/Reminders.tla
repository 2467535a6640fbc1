----------------------------- MODULE Reminders -----------------------------
(***************************************************************************)
(* The reminders of one RemindMe node: the calls of its tool               *)
(* (RemindMeFunctionTool.execute), the timers and registry in memory, the  *)
(* rows in the database, their cancellation one by one and with their      *)
(* thread (RemindersService), the lifecycle of the node, and the recovery  *)
(* done by StartupRecoveryService after a crash.                           *)
(*                                                                         *)
(* As in AgentThreads an action is what runs between two awaits.  A write  *)
(* to the database is a step of its own, apart from the continuation that  *)
(* runs when its promise resolves: what others do in between matters here. *)
(* The delivery of a reminder is an invocation of the agent that asked for *)
(* it (InvokeFromTool of AgentThreads).                                    *)
(***************************************************************************)
EXTENDS Naturals, FiniteSets

CONSTANTS
  Threads,    \* conversation threads
  Calls,      \* calls of the tool; the reminder a call creates goes by its name
  Of,         \* the thread each call is made for
  MaxActive,  \* RemindMeFunctionTool.maxActive
  Requests,   \* what users do: "cancel" reminders, "close" threads, "dispose" nodes
  Faults      \* the calls that may fail, and "crash"

ASSUME RemindersAssumption ==
  /\ Of \in [Calls -> Threads]
  /\ MaxActive \in Nat
  /\ Requests \subseteq {"cancel", "close", "dispose"}
  /\ Faults \subseteq {"read", "create", "complete", "cancel", "crash"}

VARIABLES
  \* --- rows of the database
  threadStatus,  \* Thread.status
  created,       \* reminders with a row
  completed,     \* rows with completedAt
  cancelled,     \* rows with cancelledAt
  \* --- memory of the tool
  active,        \* its registry of reminders
  armed,         \* reminders whose timer is set and has neither fired nor been cleared
  destroyed,     \* has the tool been destroyed?
  node,          \* status of the node, "removed" when it is not in the live graph
  \* --- progress of what awaits
  call,          \* of execute
  firing,        \* of the callback of a timer
  cancelling,    \* of cancelReminder
  closing,       \* of the closing cascade of a thread
  up,            \* is the process running?
  \* --- history
  deliveries,    \* how often a reminder was handed to its agent
  unserved       \* reminders left without a timer while their row was pending

rowVars == <<created, completed, cancelled>>
toolVars == <<active, armed>>
nodeVars == <<destroyed, node>>
threadVars == <<threadStatus, closing>>
historyVars == <<deliveries, unserved>>
vars == <<threadVars, rowVars, toolVars, nodeVars, call, firing, cancelling, up,
          historyVars>>

TypeOK ==
  /\ threadStatus \in [Threads -> {"open", "closed"}]
  /\ created \subseteq Calls
  /\ completed \subseteq created
  /\ cancelled \subseteq created
  /\ active \subseteq Calls
  /\ armed \subseteq Calls
  /\ destroyed \in BOOLEAN
  /\ node \in {"ready", "not_ready", "removed"}
  /\ call \in [Calls -> {"none", "reading", "creating", "created", "over"}]
  /\ firing \in [Calls -> {"no", "completing", "settled"}]
  /\ cancelling \in [Calls -> {"no", "reading", "update", "clear"}]
  /\ closing \in [Threads -> {"no", "collect", "update", "clear"}]
  /\ up \in BOOLEAN
  /\ deliveries \in [Calls -> Nat]
  /\ unserved \subseteq Calls

Init ==
  /\ threadStatus = [t \in Threads |-> "open"]
  /\ created = {} /\ completed = {} /\ cancelled = {}
  /\ active = {} /\ armed = {}
  /\ destroyed = FALSE
  /\ node = "ready"
  /\ call = [r \in Calls |-> "none"]
  /\ firing = [r \in Calls |-> "no"]
  /\ cancelling = [r \in Calls |-> "no"]
  /\ closing = [t \in Threads |-> "no"]
  /\ up = TRUE
  /\ deliveries = [r \in Calls |-> 0]
  /\ unserved = {}

Pending == created \ (completed \union cancelled)
OfThread(t) == {r \in Calls : Of[r] = t}

Goes(r, stage) == call' = [call EXCEPT ![r] = stage]
-----------------------------------------------------------------------------
(***************************************************************************)
(* RemindMeFunctionTool.execute.                                           *)
(***************************************************************************)

\* Both checks are made before the first await; a call they refuse throws.
\* The thread is read next.
Execute(r) ==
  /\ up
  /\ call[r] = "none"
  /\ Goes(r, IF destroyed \/ Cardinality(active) >= MaxActive THEN "over" ELSE "reading")
  /\ UNCHANGED <<threadVars, rowVars, toolVars, nodeVars, firing, cancelling, up,
                 historyVars>>

\* The thread must not be closed.
CheckThread(r) ==
  /\ up
  /\ call[r] = "reading"
  /\ Goes(r, IF threadStatus[Of[r]] = "closed" THEN "over" ELSE "creating")
  /\ UNCHANGED <<threadVars, rowVars, toolVars, nodeVars, firing, cancelling, up,
                 historyVars>>

CreateRow(r) ==
  /\ up
  /\ call[r] = "creating"
  /\ created' = created \union {r}
  /\ Goes(r, "created")
  /\ UNCHANGED <<threadVars, completed, cancelled, toolVars, nodeVars, firing,
                 cancelling, up, historyVars>>

\* The timer is set and the reminder registered, whatever has happened to the
\* tool, the thread and the row during the awaits.
SetTimer(r) ==
  /\ up
  /\ call[r] = "created"
  /\ armed' = armed \union {r}
  /\ active' = active \union {r}
  /\ Goes(r, "over")
  /\ UNCHANGED <<threadVars, rowVars, nodeVars, firing, cancelling, up, historyVars>>

\* A read or write that fails makes the call throw.
CallFails(r) ==
  /\ up
  /\ \/ call[r] = "reading" /\ "read" \in Faults
     \/ call[r] = "creating" /\ "create" \in Faults
  /\ Goes(r, "over")
  /\ UNCHANGED <<threadVars, rowVars, toolVars, nodeVars, firing, cancelling, up,
                 historyVars>>
-----------------------------------------------------------------------------
(***************************************************************************)
(* The callback of the timer.                                              *)
(***************************************************************************)

\* A timer fires once; the callback returns if the reminder is not registered.
Fire(r) ==
  /\ up
  /\ r \in armed
  /\ armed' = armed \ {r}
  /\ firing' = IF r \in active THEN [firing EXCEPT ![r] = "completing"] ELSE firing
  /\ UNCHANGED <<threadVars, rowVars, active, nodeVars, call, cancelling, up,
                 historyVars>>

\* The row is completed whatever its state: the update names the row only.
CompleteRow(r) ==
  /\ up
  /\ firing[r] = "completing"
  /\ completed' = completed \union {r}
  /\ firing' = [firing EXCEPT ![r] = "settled"]
  /\ UNCHANGED <<threadVars, created, cancelled, toolVars, nodeVars, call,
                 cancelling, up, historyVars>>

\* The finally block frees the slot and the agent is invoked, cancelled or not.
Deliver(r) ==
  /\ active' = active \ {r}
  /\ firing' = [firing EXCEPT ![r] = "no"]
  /\ deliveries' = [deliveries EXCEPT ![r] = @ + 1]
  /\ UNCHANGED <<threadVars, rowVars, armed, nodeVars, call, cancelling, up>>

DeliverReminder(r) ==
  /\ up
  /\ firing[r] = "settled"
  /\ Deliver(r)
  /\ UNCHANGED unserved

\* The slot is freed after a successful update only.
CompletionFails_KeepsSlot(r) ==
  /\ up
  /\ firing[r] = "completing"
  /\ "complete" \in Faults
  /\ firing' = [firing EXCEPT ![r] = "no"]
  /\ deliveries' = [deliveries EXCEPT ![r] = @ + 1]
  /\ unserved' = unserved \union {r}
  /\ UNCHANGED <<threadVars, rowVars, toolVars, nodeVars, call, cancelling, up>>

\* A failed update is logged: the reminder is delivered with its row pending.
CompletionFails(r) ==
  /\ up
  /\ firing[r] = "completing"
  /\ "complete" \in Faults
  /\ Deliver(r)
  /\ unserved' = unserved \union {r}
-----------------------------------------------------------------------------
(***************************************************************************)
(* RemindersService.cancelReminder.                                        *)
(***************************************************************************)
Cancelling(r, stage) == cancelling' = [cancelling EXCEPT ![r] = stage]

RequestCancel(r) ==
  /\ up
  /\ "cancel" \in Requests
  /\ cancelling[r] = "no"
  /\ Cancelling(r, "reading")
  /\ UNCHANGED <<threadVars, rowVars, toolVars, nodeVars, call, firing, up, historyVars>>

\* The request goes on when there is no such reminder.
ReadReminder_Unchecked(r) ==
  /\ up
  /\ cancelling[r] = "reading"
  /\ Cancelling(r, IF r \in completed \union cancelled THEN "clear" ELSE "update")
  /\ UNCHANGED <<threadVars, rowVars, toolVars, nodeVars, call, firing, up, historyVars>>

\* Whether to write the row is decided on what was read; a request for a
\* reminder without a row ends, as does one whose read fails.
ReadReminder(r) ==
  /\ up
  /\ cancelling[r] = "reading"
  /\ \/ /\ r \in created
        /\ Cancelling(r, IF r \in Pending THEN "update" ELSE "clear")
     \/ /\ r \notin created \/ "read" \in Faults
        /\ Cancelling(r, "no")
  /\ UNCHANGED <<threadVars, rowVars, toolVars, nodeVars, call, firing, up, historyVars>>

\* The update names the row only; if it fails the timer is still cleared.
CancelRow(r) ==
  /\ up
  /\ cancelling[r] = "update"
  /\ \/ cancelled' = cancelled \union {r}
     \/ "cancel" \in Faults /\ UNCHANGED cancelled
  /\ Cancelling(r, "clear")
  /\ UNCHANGED <<threadVars, created, completed, toolVars, nodeVars, call, firing,
                 up, historyVars>>

\* clearTimerById and clearTimersByThread: what is registered is unregistered
\* and its timer cleared; the service finds the tools of the live graph only.
ClearTimers(R) ==
  LET found == IF node = "removed" THEN {} ELSE R \intersect active
  IN  /\ active' = active \ found
      /\ armed' = armed \ found
      /\ unserved' = unserved \union (found \intersect Pending)

ClearReminder(r) ==
  /\ up
  /\ cancelling[r] = "clear"
  /\ ClearTimers({r})
  /\ Cancelling(r, "no")
  /\ UNCHANGED <<threadVars, rowVars, nodeVars, call, firing, up, deliveries>>
-----------------------------------------------------------------------------
(***************************************************************************)
(* Closing a thread: AgentsThreadsController.patchThread, and of the       *)
(* cascade of ThreadCleanupCoordinator the closing and                     *)
(* RemindersService.cancelThreadReminders.  One cascade at a time.         *)
(***************************************************************************)
PatchThread(t) ==
  /\ up
  /\ "close" \in Requests
  /\ \/ /\ threadStatus[t] = "open"
        /\ closing[t] = "no"
        /\ threadStatus' = [threadStatus EXCEPT ![t] = "closed"]
        /\ closing' = [closing EXCEPT ![t] = "collect"]
     \/ /\ threadStatus[t] = "closed"
        /\ threadStatus' = [threadStatus EXCEPT ![t] = "open"]
        /\ UNCHANGED closing
  /\ UNCHANGED <<rowVars, toolVars, nodeVars, call, firing, cancelling, up, historyVars>>

CascadeCloses(t) ==
  /\ up
  /\ closing[t] = "collect"
  /\ threadStatus' = [threadStatus EXCEPT ![t] = "closed"]
  /\ closing' = [closing EXCEPT ![t] = "update"]
  /\ UNCHANGED <<rowVars, toolVars, nodeVars, call, firing, cancelling, up, historyVars>>

\* One statement cancels the pending rows of the thread; its failure is logged.
CancelThreadRows(t) ==
  /\ up
  /\ closing[t] = "update"
  /\ \/ cancelled' = cancelled \union (Pending \intersect OfThread(t))
     \/ "cancel" \in Faults /\ UNCHANGED cancelled
  /\ closing' = [closing EXCEPT ![t] = "clear"]
  /\ UNCHANGED <<threadStatus, created, completed, toolVars, nodeVars, call, firing,
                 cancelling, up, historyVars>>

ClearThread(t) ==
  /\ up
  /\ closing[t] = "clear"
  /\ ClearTimers(OfThread(t))
  /\ closing' = [closing EXCEPT ![t] = "no"]
  /\ UNCHANGED <<threadStatus, rowVars, nodeVars, call, firing, cancelling, up,
                 deliveries>>
-----------------------------------------------------------------------------
(***************************************************************************)
(* The lifecycle of the node and of the process.                           *)
(***************************************************************************)

\* RemindMeFunctionTool.destroy: the timers of the registry are cleared.
DestroyTool ==
  /\ destroyed' = TRUE
  /\ armed' = armed \ active
  /\ active' = {}
  /\ unserved' = unserved \union (active \intersect Pending)

\* A node that is ready is deprovisioned, on request or before its removal.
Deprovision ==
  /\ up
  /\ "dispose" \in Requests
  /\ \/ node = "ready" /\ node' \in {"not_ready", "removed"} /\ DestroyTool
     \/ node = "not_ready" /\ node' = "removed" /\ UNCHANGED <<destroyed, toolVars, unserved>>
  /\ UNCHANGED <<threadVars, rowVars, call, firing, cancelling, up, deliveries>>

\* The node keeps the tool it has: one that was destroyed stays so.
Provision ==
  /\ up
  /\ node = "not_ready"
  /\ node' = "ready"
  /\ UNCHANGED <<threadVars, rowVars, toolVars, destroyed, call, firing, cancelling,
                 up, historyVars>>

Crash ==
  /\ up
  /\ "crash" \in Faults
  /\ up' = FALSE
  /\ active' = {} /\ armed' = {}
  /\ destroyed' = FALSE
  /\ node' = IF node = "removed" THEN "removed" ELSE "ready"
  /\ call' = [r \in Calls |-> IF call[r] = "none" THEN "none" ELSE "over"]
  /\ firing' = [r \in Calls |-> "no"]
  /\ cancelling' = [r \in Calls |-> "no"]
  /\ closing' = [t \in Threads |-> "no"]
  /\ UNCHANGED <<threadStatus, rowVars, historyVars>>

\* Recovery leaves reminders alone.
Recover_OnlyRuns ==
  /\ ~up
  /\ up' = TRUE
  /\ UNCHANGED <<threadVars, rowVars, toolVars, nodeVars, call, firing, cancelling,
                 historyVars>>

\* Recovery sets the timers of pending rows again.
Recover_Rearms ==
  /\ ~up
  /\ up' = TRUE
  /\ armed' = Pending
  /\ active' = Pending
  /\ UNCHANGED <<threadVars, rowVars, nodeVars, call, firing, cancelling, historyVars>>

\* completePendingReminders: timers are not set again.
Recover ==
  /\ ~up
  /\ up' = TRUE
  /\ completed' = completed \union Pending
  /\ UNCHANGED <<threadVars, created, cancelled, toolVars, nodeVars, call, firing,
                 cancelling, historyVars>>
-----------------------------------------------------------------------------
CallStep(r) == Execute(r) \/ CheckThread(r) \/ CreateRow(r) \/ SetTimer(r) \/ CallFails(r)
TimerStep(r) == Fire(r) \/ CompleteRow(r) \/ DeliverReminder(r) \/ CompletionFails(r)
CancelStep(r) == ReadReminder(r) \/ CancelRow(r) \/ ClearReminder(r)
CascadeStep(t) == CascadeCloses(t) \/ CancelThreadRows(t) \/ ClearThread(t)

Next ==
  \/ \E r \in Calls : CallStep(r) \/ TimerStep(r) \/ RequestCancel(r) \/ CancelStep(r)
  \/ \E t \in Threads : PatchThread(t) \/ CascadeStep(t)
  \/ Deprovision \/ Provision \/ Crash \/ Recover

\* Continuations run, calls return, timers fire and a dead process is restarted.
Fairness ==
  /\ \A r \in Calls : WF_vars(CallStep(r)) /\ WF_vars(TimerStep(r)) /\ WF_vars(CancelStep(r))
  /\ \A t \in Threads : WF_vars(CascadeStep(t))
  /\ WF_vars(Recover)

Spec == Init /\ [][Next]_vars
FairSpec == Spec /\ Fairness
-----------------------------------------------------------------------------
(***************************************************************************)
(* Correctness.                                                            *)
(***************************************************************************)

\* The registry is what the cap counts and what cancellation finds: a slot in it
\* is held only by a timer that is set or whose callback is running, and no
\* timer is set without a slot, through cancellation, disposal and failures.
RegistryExact ==
  /\ armed \subseteq active
  /\ active \subseteq armed \union {r \in Calls : firing[r] # "no"}

\* A reminder is handed to its agent at most once, although its row may stay
\* pending after the delivery and a restart looks at pending rows.
DeliveredAtMostOnce == \A r \in Calls : deliveries[r] <= 1

\* A delivered reminder is recorded as completed, so that it is neither listed
\* as scheduled nor cancelled later: execute completes the row first.  The
\* exception is a completion that failed.
DeliveredIsCompleted == \A r \in Calls : deliveries[r] > 0 => r \in completed \union unserved

\* A reminder that has a row does not stay pending unnoticed: it fires, is
\* cancelled, or is completed by recovery, unless its timer was taken from it:
\* cleared by a cancellation that did not write the row, or by the disposal of the
\* node, or its completion failed.
PendingResolves ==
  \A r \in Calls : r \in created ~> r \in completed \union cancelled \union unserved

=============================================================================
