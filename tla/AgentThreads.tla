---------------------------- MODULE AgentThreads ----------------------------
(***************************************************************************)
(* The invocation protocol of an agent node: AgentNode.invoke, the         *)
(* MessagesBuffer it drains, the RunSignalsRegistry, the run rows written  *)
(* by AgentsPersistenceService, the requests of AgentsThreadsController    *)
(* that reach them, the run part of the thread-closing cascade, and the    *)
(* recovery done by StartupRecoveryService after a crash.                  *)
(*                                                                         *)
(* The program is a single JavaScript process: what runs between two       *)
(* awaits is one action here, and every await is a stage of pc.  The LLM   *)
(* loop inside a run (module AgentLoop) appears as the stages "loop" and   *)
(* "inject": it can drain the buffer after a tool batch, return, or throw. *)
(***************************************************************************)
EXTENDS Naturals, Sequences

CONSTANTS
  Threads,    \* conversation threads served by the agent node
  Messages,   \* messages clients and tools hand to the agent, each at most once
  To,         \* the thread each message is for
  MaxRuns,    \* bound on invocations; Cardinality(Messages) is never reached
  Behaviors,  \* the configurations an invocation may start under
  Debounced,  \* does the configuration have debounceMs > 0?
  Faults      \* the calls that may fail, and "crash"

WhenBusy == {"wait", "injectAfterTools"}
ProcessBuffer == {"allTogether", "oneByOne"}
Behavior == [whenBusy : WhenBusy, processBuffer : ProcessBuffer]

FaultPoints ==
  {"begin", "assign", "model", "prepare", "loop", "inject", "complete", "crash"}

ASSUME ConstantsAssumption ==
  /\ To \in [Messages -> Threads]
  /\ Threads # {}
  /\ MaxRuns \in Nat
  /\ Behaviors \subseteq Behavior
  /\ Behaviors # {}
  /\ Debounced \in BOOLEAN
  /\ Faults \subseteq FaultPoints

\* Invocations are numbered as they start; the run row an invocation creates
\* goes by the number of the invocation.
RunIds == 1 .. MaxRuns

\* The defaults of AgentStaticConfigSchema, in force while an invocation has
\* not computed its effective configuration.
DefaultBehavior == [whenBusy |-> "wait", processBuffer |-> "allTogether"]

Terminal == {"finished", "terminated"}

VARIABLES
  \* --- rows of the database
  threadStatus,    \* Thread.status
  runStatus,       \* Run.status, "absent" while there is no row
  delivered,       \* the messages linked to runs of a thread, oldest first
  \* --- memory of the agent node
  runningThreads,  \* threads with an invocation in progress
  queue,           \* MessagesBuffer: messages accepted while the thread was busy
  settled,         \* has the debounce window of the queue elapsed?
  \* --- invocations: their progress and local variables
  started,         \* number of invocations so far
  pc,              \* where an invocation awaits
  thread,          \* its thread
  batch,           \* messages it has taken and not yet handed to the database
  outcome,         \* the status it is about to write
  behavior,        \* its effectiveBehavior
  \* --- memory shared by the process
  entries,         \* run ids with an entry in RunSignalsRegistry
  raised,          \* entries whose terminateSignal is active
  request,         \* progress of the request that carries each message
  terminating,     \* runs a terminate request or cascade has read as running
  closing,         \* progress of the closing cascade of each thread
  up,              \* is the process running?
  \* --- history
  abandoned        \* running rows whose invocation gave up on them after a failure

dbVars == <<threadStatus, runStatus, delivered>>
bufferVars == <<queue, settled>>
localVars == <<batch, outcome, behavior>>
invocationVars == <<runningThreads, started, pc, thread, localVars>>
signalVars == <<entries, raised>>
controlVars == <<request, terminating, closing, up>>
vars == <<dbVars, bufferVars, invocationVars, signalVars, controlVars, abandoned>>

\* The awaits of an invocation, in order; "failing" and "failsend" are those of
\* its catch block.
LiveStages == {"begin", "assign", "model", "prepare", "loop", "inject",
               "complete", "send", "failing", "failsend"}

TypeOK ==
  /\ threadStatus \in [Threads -> {"open", "closed"}]
  /\ runStatus \in [RunIds -> {"absent", "running"} \union Terminal]
  /\ delivered \in [Threads -> Seq(Messages)]
  /\ runningThreads \subseteq Threads
  /\ queue \in [Threads -> Seq(Messages)]
  /\ settled \in [Threads -> BOOLEAN]
  /\ started \in 0 .. MaxRuns
  /\ pc \in [RunIds -> LiveStages \union {"none", "done"}]
  /\ thread \in [RunIds -> Threads]
  /\ batch \in [RunIds -> Seq(Messages)]
  /\ outcome \in [RunIds -> {"none"} \union Terminal]
  /\ behavior \in [RunIds -> Behavior]
  /\ entries \subseteq RunIds
  /\ raised \subseteq entries
  /\ request \in [Messages -> {"unsent", "admitted", "accepted", "refused", "lost"}]
  /\ terminating \subseteq RunIds
  /\ closing \in [Threads -> {"no", "collect", "list"}]
  /\ up \in BOOLEAN
  /\ abandoned \subseteq RunIds

Init ==
  /\ threadStatus = [t \in Threads |-> "open"]
  /\ runStatus = [r \in RunIds |-> "absent"]
  /\ delivered = [t \in Threads |-> <<>>]
  /\ runningThreads = {}
  /\ queue = [t \in Threads |-> <<>>]
  /\ settled = [t \in Threads |-> TRUE]
  /\ started = 0
  /\ pc = [r \in RunIds |-> "none"]
  /\ thread = [r \in RunIds |-> CHOOSE t \in Threads : TRUE]
  /\ batch = [r \in RunIds |-> <<>>]
  /\ outcome = [r \in RunIds |-> "none"]
  /\ behavior = [r \in RunIds |-> DefaultBehavior]
  /\ entries = {}
  /\ raised = {}
  /\ request = [m \in Messages |-> "unsent"]
  /\ terminating = {}
  /\ closing = [t \in Threads |-> "no"]
  /\ up = TRUE
  /\ abandoned = {}
-----------------------------------------------------------------------------
(***************************************************************************)
(* Plausible mistakes in the building blocks below.  No action uses them:  *)
(* each takes the place of its original to show that a property fails.     *)
(***************************************************************************)

\* Only a thread whose invocation has its run row counts as busy.
Busy_AfterBegin(t) ==
  \E r \in RunIds : thread[r] = t /\ pc[r] \in LiveStages \ {"begin"}

\* unshift instead of push
Enqueue_AtFront(t, m) ==
  /\ queue' = [queue EXCEPT ![t] = <<m>> \o @]
  /\ settled' = [settled EXCEPT ![t] = ~Debounced]

\* The item itself instead of a list of one.
Drained_Bare(t, mode) == IF mode = "oneByOne" THEN Head(queue[t]) ELSE queue[t]

\* slice() without emptying the queue
Undrained_Kept(t, mode) == IF mode = "oneByOne" THEN Tail(queue[t]) ELSE queue[t]

\* A fresh signal that forgets what the replaced entry was told.
Register_Fresh(r) == entries' = entries \union {r} /\ raised' = raised \ {r}

\* A catch block that leaves the row alone.
FailedStatus_Kept(r) == runStatus[r]

\* updateMany without the condition on the status
RecoveredStatus_All(r) == IF runStatus[r] = "absent" THEN "absent" ELSE "terminated"

\* A loop that goes on as long as messages are buffered for its thread.
LoopReturns_OnceDrained(r) ==
  /\ up
  /\ pc[r] = "loop"
  /\ queue[thread[r]] = <<>>
  /\ outcome' = [outcome EXCEPT ![r] = IF r \in raised THEN "terminated" ELSE "finished"]
  /\ pc' = [pc EXCEPT ![r] = "complete"]
  /\ UNCHANGED <<dbVars, bufferVars, runningThreads, started, thread, batch,
                 behavior, signalVars, controlVars, abandoned>>
-----------------------------------------------------------------------------
(***************************************************************************)
(* Building blocks: what one synchronous piece of the code does to one     *)
(* group of variables.                                                     *)
(***************************************************************************)

Live(r) == pc[r] \in LiveStages

GoTo(r, stage) == pc' = [pc EXCEPT ![r] = stage]

\* The busy check of invoke.
Busy(t) == t \in runningThreads

\* MessagesBuffer.enqueue
Enqueue(t, m) ==
  /\ queue' = [queue EXCEPT ![t] = Append(@, m)]
  /\ settled' = [settled EXCEPT ![t] = ~Debounced]

\* MessagesBuffer.tryDrain returns something only past the debounce window ...
Drainable(t) == queue[t] # <<>> /\ settled[t]

\* ... and then this, leaving that in the queue.
Drained(t, mode) == IF mode = "oneByOne" THEN <<Head(queue[t])>> ELSE queue[t]
Undrained(t, mode) == IF mode = "oneByOne" THEN Tail(queue[t]) ELSE <<>>

\* RunSignalsRegistry.register: the new signal is active from the start if the
\* entry it replaces was.
Register(r) == entries' = entries \union {r} /\ UNCHANGED raised

\* RunSignalsRegistry.activateTerminate, which creates a missing entry.
ActivateTerminate(r) == entries' = entries \union {r} /\ raised' = raised \union {r}

\* RunSignalsRegistry.clear
ClearSignal(r) == entries' = entries \ {r} /\ raised' = raised \ {r}

\* invoke(t, msgs) on a thread that is not busy, up to its first await.
StartInvocation(t, msgs) ==
  /\ started < MaxRuns
  /\ started' = started + 1
  /\ runningThreads' = runningThreads \union {t}
  /\ thread' = [thread EXCEPT ![started + 1] = t]
  /\ batch' = [batch EXCEPT ![started + 1] = msgs]

\* The status of a run whose loop returned ...
LoopOutcome(r) == IF r \in raised THEN "terminated" ELSE "finished"

\* ... and of one whose invocation threw.
FailedStatus(r) == "terminated"

\* What recovery makes of a run row.
RecoveredStatus(r) == IF runStatus[r] = "running" THEN "terminated" ELSE runStatus[r]
-----------------------------------------------------------------------------
(***************************************************************************)
(* Messages reach the agent: AgentNode.invoke(To[m], [m]) by its callers.  *)
(***************************************************************************)
Invoke(m) ==
  /\ IF Busy(To[m])
       THEN /\ Enqueue(To[m], m)
            /\ UNCHANGED <<runningThreads, started, pc, thread, batch>>
       ELSE /\ StartInvocation(To[m], <<m>>)
            /\ GoTo(started + 1, "begin")
            /\ UNCHANGED bufferVars
  /\ request' = [request EXCEPT ![m] = "accepted"]
  /\ UNCHANGED <<dbVars, outcome, behavior, signalVars, terminating, closing, up, abandoned>>

\* POST threads/:threadId/messages, up to reading the thread: a closed thread
\* is refused with 409.
ReadThread(m) ==
  /\ up
  /\ request[m] = "unsent"
  /\ request' = [request EXCEPT ![m] =
       IF threadStatus[To[m]] = "closed" THEN "refused" ELSE "admitted"]
  /\ UNCHANGED <<dbVars, bufferVars, invocationVars, signalVars,
                 terminating, closing, up, abandoned>>

\* The rest of the request: the thread is not read again.
PostMessage(m) == up /\ request[m] = "admitted" /\ Invoke(m)

\* A reminder timer, call_agent, manage or Slack trigger invokes the agent
\* without looking at the status of the thread.
InvokeFromTool(m) == up /\ request[m] = "unsent" /\ Invoke(m)

\* The debounce window elapses.
Settle(t) ==
  /\ up
  /\ ~settled[t]
  /\ settled' = [settled EXCEPT ![t] = TRUE]
  /\ UNCHANGED <<dbVars, queue, invocationVars, signalVars, controlVars, abandoned>>

\* DELETE threads/:threadId/queued-messages
ClearQueuedMessages(t) ==
  /\ up
  /\ queue[t] # <<>>
  /\ queue' = [queue EXCEPT ![t] = <<>>]
  /\ settled' = [settled EXCEPT ![t] = TRUE]
  /\ UNCHANGED <<dbVars, invocationVars, signalVars, controlVars, abandoned>>
-----------------------------------------------------------------------------
(***************************************************************************)
(* The start of a run: beginRunThread, ensureThreadModel, prepareLoop.     *)
(***************************************************************************)

\* The transaction of beginRunThread commits: run row and input messages.
BeginRun(r) ==
  /\ up
  /\ pc[r] = "begin"
  /\ runStatus' = [runStatus EXCEPT ![r] = "running"]
  /\ delivered' = [delivered EXCEPT ![thread[r]] = @ \o batch[r]]
  /\ batch' = [batch EXCEPT ![r] = <<>>]
  /\ GoTo(r, "assign")
  /\ UNCHANGED <<threadStatus, bufferVars, runningThreads, started, thread,
                 outcome, behavior, signalVars, controlVars, abandoned>>

\* ensureAssignedAgent, which beginRunThread awaits after the commit, returns.
AssignAgent(r) ==
  /\ up
  /\ pc[r] = "assign"
  /\ GoTo(r, "model")
  /\ UNCHANGED <<dbVars, bufferVars, runningThreads, started, thread, localVars,
                 signalVars, controlVars, abandoned>>

\* beginRunThread rejects.  runId is still undefined, so the catch block writes
\* nothing and rethrows; a row that was committed stays "running".
BeginFails(r) ==
  /\ up
  /\ pc[r] \in {"begin", "assign"} \intersect Faults
  /\ abandoned' = abandoned \union {s \in {r} : runStatus[s] = "running"}
  /\ runningThreads' = runningThreads \ {thread[r]}
  /\ batch' = [batch EXCEPT ![r] = <<>>]
  /\ GoTo(r, "done")
  /\ UNCHANGED <<dbVars, bufferVars, started, thread, outcome, behavior,
                 signalVars, controlVars>>

\* ensureThreadModel returns; the effective configuration is built and the
\* terminate signal registered before the next await.
EnsureModel(r) ==
  /\ up
  /\ pc[r] = "model"
  /\ \E b \in Behaviors : behavior' = [behavior EXCEPT ![r] = b]
  /\ Register(r)
  /\ GoTo(r, "prepare")
  /\ UNCHANGED <<dbVars, bufferVars, runningThreads, started, thread, batch,
                 outcome, controlVars, abandoned>>

\* prepareLoop returns and the loop is entered at 'load'.
PrepareLoop(r) ==
  /\ up
  /\ pc[r] = "prepare"
  /\ GoTo(r, "loop")
  /\ UNCHANGED <<dbVars, bufferVars, runningThreads, started, thread, localVars,
                 signalVars, controlVars, abandoned>>
-----------------------------------------------------------------------------
(***************************************************************************)
(* The loop, as far as the buffer and the run row can tell.                *)
(***************************************************************************)

\* AfterToolsRouter drains the buffer into the run: injectBufferedMessages up
\* to its await of recordInjected.  It does not look at terminateSignal.
InjectAfterTools(r) ==
  LET t == thread[r]
      mode == behavior[r].processBuffer
  IN
  /\ up
  /\ pc[r] = "loop"
  /\ behavior[r].whenBusy = "injectAfterTools"
  /\ Drainable(t)
  /\ batch' = [batch EXCEPT ![r] = Drained(t, mode)]
  /\ queue' = [queue EXCEPT ![t] = Undrained(t, mode)]
  /\ GoTo(r, "inject")
  /\ UNCHANGED <<dbVars, settled, runningThreads, started, thread, outcome,
                 behavior, signalVars, controlVars, abandoned>>

\* recordInjected commits.
RecordInjected(r) ==
  /\ up
  /\ pc[r] = "inject"
  /\ delivered' = [delivered EXCEPT ![thread[r]] = @ \o batch[r]]
  /\ batch' = [batch EXCEPT ![r] = <<>>]
  /\ GoTo(r, "loop")
  /\ UNCHANGED <<threadStatus, runStatus, bufferVars, runningThreads, started,
                 thread, outcome, behavior, signalVars, controlVars, abandoned>>

\* The loop returns; what becomes of the run is decided by the signal now.
LoopReturns(r) ==
  /\ up
  /\ pc[r] = "loop"
  /\ outcome' = [outcome EXCEPT ![r] = LoopOutcome(r)]
  /\ GoTo(r, "complete")
  /\ UNCHANGED <<dbVars, bufferVars, runningThreads, started, thread, batch,
                 behavior, signalVars, controlVars, abandoned>>

\* completeRun commits; the rest of its awaits and the auto-send follow.
CompleteRun(r) ==
  /\ up
  /\ pc[r] = "complete"
  /\ runStatus' = [runStatus EXCEPT ![r] = outcome[r]]
  /\ GoTo(r, "send")
  /\ UNCHANGED <<threadStatus, delivered, bufferVars, runningThreads, started,
                 thread, localVars, signalVars, controlVars, abandoned>>

\* An awaited call rejects while runId is known: control enters the catch block.
Throw(r) ==
  /\ up
  /\ pc[r] \in {"model", "prepare", "loop", "inject", "complete"} \intersect Faults
  /\ batch' = [batch EXCEPT ![r] = <<>>]
  /\ GoTo(r, "failing")
  /\ UNCHANGED <<dbVars, bufferVars, runningThreads, started, thread, outcome,
                 behavior, signalVars, controlVars, abandoned>>

\* The catch block completes the run as terminated ...
FailRun(r) ==
  /\ up
  /\ pc[r] = "failing"
  /\ runStatus' = [runStatus EXCEPT ![r] = FailedStatus(r)]
  /\ GoTo(r, "failsend")
  /\ UNCHANGED <<threadStatus, delivered, bufferVars, runningThreads, started,
                 thread, localVars, signalVars, controlVars, abandoned>>

\* ... on a best-effort basis: a second failure is only logged.
FailRunFails(r) ==
  /\ up
  /\ pc[r] = "failing"
  /\ "complete" \in Faults
  /\ abandoned' = abandoned \union {r}
  /\ GoTo(r, "failsend")
  /\ UNCHANGED <<dbVars, bufferVars, runningThreads, started, thread, localVars,
                 signalVars, controlVars>>

\* The finally block and the drain after it, one synchronous step: the thread
\* is released and, if messages wait, invoked again with them.
Finish(r) ==
  LET t == thread[r]
      mode == behavior[r].processBuffer
  IN
  /\ up
  /\ pc[r] = "send"
  /\ ClearSignal(r)
  /\ IF Drainable(t)
       THEN /\ StartInvocation(t, Drained(t, mode))
            /\ queue' = [queue EXCEPT ![t] = Undrained(t, mode)]
            /\ pc' = [pc EXCEPT ![r] = "done", ![started + 1] = "begin"]
            /\ UNCHANGED settled
       ELSE /\ runningThreads' = runningThreads \ {t}
            /\ GoTo(r, "done")
            /\ UNCHANGED <<bufferVars, started, thread, batch>>
  /\ UNCHANGED <<dbVars, outcome, behavior, controlVars, abandoned>>

\* The finally block after the catch block rethrew: the drain is not reached.
FinishFailed(r) ==
  /\ up
  /\ pc[r] = "failsend"
  /\ ClearSignal(r)
  /\ runningThreads' = runningThreads \ {thread[r]}
  /\ GoTo(r, "done")
  /\ UNCHANGED <<dbVars, bufferVars, started, thread, localVars, controlVars, abandoned>>
-----------------------------------------------------------------------------
(***************************************************************************)
(* Terminating runs and closing threads.                                   *)
(***************************************************************************)

\* POST runs/:runId/terminate reads the run row ...
ReadRun(r) ==
  /\ up
  /\ runStatus[r] = "running"
  /\ terminating' = terminating \union {r}
  /\ UNCHANGED <<dbVars, bufferVars, invocationVars, signalVars, request,
                 closing, up, abandoned>>

\* ... and raises the signal in a later step, whatever the row says by then.
TerminateRun(r) ==
  /\ up
  /\ r \in terminating
  /\ ActivateTerminate(r)
  /\ terminating' = terminating \ {r}
  /\ UNCHANGED <<dbVars, bufferVars, invocationVars, request, closing, up, abandoned>>

\* PATCH threads/:threadId: a transition to closed starts the cascade, unless
\* one of the thread is under way in this model.
PatchThread(t) ==
  /\ up
  /\ \/ /\ threadStatus[t] = "open"
        /\ closing[t] = "no"
        /\ threadStatus' = [threadStatus EXCEPT ![t] = "closed"]
        /\ closing' = [closing EXCEPT ![t] = "collect"]
     \/ /\ threadStatus[t] = "closed"
        /\ threadStatus' = [threadStatus EXCEPT ![t] = "open"]
        /\ UNCHANGED closing
  /\ UNCHANGED <<runStatus, delivered, bufferVars, invocationVars, signalVars,
                 request, terminating, up, abandoned>>

\* The cascade collects the thread and closes it again if it was reopened.
CascadeCloses(t) ==
  /\ up
  /\ closing[t] = "collect"
  /\ threadStatus' = [threadStatus EXCEPT ![t] = "closed"]
  /\ closing' = [closing EXCEPT ![t] = "list"]
  /\ UNCHANGED <<runStatus, delivered, bufferVars, invocationVars, signalVars,
                 request, terminating, up, abandoned>>

\* terminateActiveRuns of the cascade lists the running rows of the thread.
CascadeListsRuns(t) ==
  /\ up
  /\ closing[t] = "list"
  /\ terminating' = terminating \union
       {r \in RunIds : runStatus[r] = "running" /\ thread[r] = t}
  /\ closing' = [closing EXCEPT ![t] = "no"]
  /\ UNCHANGED <<dbVars, bufferVars, invocationVars, signalVars, request, up, abandoned>>
-----------------------------------------------------------------------------
(***************************************************************************)
(* The process dies and is started again.                                  *)
(***************************************************************************)

\* Everything in memory is gone: buffered messages, invocations, signals,
\* requests and cascades in flight.
Crash ==
  /\ up
  /\ "crash" \in Faults
  /\ up' = FALSE
  /\ runningThreads' = {}
  /\ queue' = [t \in Threads |-> <<>>]
  /\ settled' = [t \in Threads |-> TRUE]
  /\ pc' = [r \in RunIds |-> IF Live(r) THEN "done" ELSE pc[r]]
  /\ batch' = [r \in RunIds |-> <<>>]
  /\ entries' = {}
  /\ raised' = {}
  /\ request' = [m \in Messages |-> IF request[m] = "admitted" THEN "lost" ELSE request[m]]
  /\ terminating' = {}
  /\ closing' = [t \in Threads |-> "no"]
  /\ UNCHANGED <<dbVars, started, thread, outcome, behavior, abandoned>>

\* StartupRecoveryService, before the server listens: every run left running
\* is terminated, in one transaction.
Recover ==
  /\ ~up
  /\ up' = TRUE
  /\ runStatus' = [r \in RunIds |-> RecoveredStatus(r)]
  /\ abandoned' = {}
  /\ UNCHANGED <<threadStatus, delivered, bufferVars, invocationVars, signalVars,
                 request, terminating, closing>>
-----------------------------------------------------------------------------
\* The steps of the process itself on an invocation.
InvocationStep(r) ==
  \/ BeginRun(r) \/ AssignAgent(r) \/ EnsureModel(r) \/ PrepareLoop(r)
  \/ RecordInjected(r) \/ LoopReturns(r) \/ CompleteRun(r)
  \/ FailRun(r) \/ Finish(r) \/ FinishFailed(r)

Next ==
  \/ \E m \in Messages : ReadThread(m) \/ PostMessage(m) \/ InvokeFromTool(m)
  \/ \E r \in RunIds : InvocationStep(r) \/ InjectAfterTools(r)
  \/ \E r \in RunIds : BeginFails(r) \/ Throw(r) \/ FailRunFails(r)
  \/ \E r \in RunIds : ReadRun(r) \/ TerminateRun(r)
  \/ \E t \in Threads : Settle(t) \/ ClearQueuedMessages(t)
  \/ \E t \in Threads : PatchThread(t) \/ CascadeCloses(t) \/ CascadeListsRuns(t)
  \/ Crash \/ Recover

\* The event loop runs every resumed continuation, awaited calls return (LLM
\* and tool calls have timeouts), timers fire and a dead process is restarted.
\* Nothing is assumed of clients or of failures.
Fairness ==
  /\ \A r \in RunIds : WF_vars(InvocationStep(r)) /\ WF_vars(TerminateRun(r))
  /\ \A t \in Threads : WF_vars(Settle(t))
  /\ WF_vars(Recover)

Spec == Init /\ [][Next]_vars
FairSpec == Spec /\ Fairness
-----------------------------------------------------------------------------
(***************************************************************************)
(* Correctness.                                                            *)
(***************************************************************************)

\* A thread never has two invocations in progress, and the busy flag of invoke
\* tells exactly which threads have one: the synchronous check-and-add at the
\* head of AgentNode.invoke, its finally block and the re-invocation after it.
OneInvocationPerThread ==
  /\ \A r, s \in RunIds : Live(r) /\ Live(s) /\ thread[r] = thread[s] => r = s
  /\ \A t \in Threads : Busy(t) <=> \E r \in RunIds : Live(r) /\ thread[r] = t

\* A row says "running" only while an invocation works on it, except for the
\* rows given up after a failed write, which only a restart repairs: every way
\* out of AgentNode.invoke completes the run, and recovery the rest.
RunningRowsOwned ==
  up => \A r \in RunIds : runStatus[r] = "running" =>
          \/ pc[r] \in {"assign", "model", "prepare", "loop", "inject", "complete", "failing"}
          \/ r \in abandoned

\* The status of a completed run is never written again, by a late completion,
\* by the catch block after completeRun, or by recovery.
CompletedRunsStay ==
  [][\A r \in RunIds : runStatus[r] \in Terminal => runStatus'[r] = runStatus[r]]_vars

\* A message is taken from the buffer into one run only, and only once, whatever
\* fails or crashes: tryDrain and the two ways to drain never hand it out twice.
InFlight(t) == {r \in RunIds : Live(r) /\ thread[r] = t}
Pending(t) ==
  IF InFlight(t) = {} THEN queue[t]
                      ELSE batch[CHOOSE r \in InFlight(t) : TRUE] \o queue[t]
HandedOut(t) == delivered[t] \o Pending(t)
NoMessageTwice ==
  \A t \in Threads : \A i, j \in DOMAIN HandedOut(t) :
    i # j => HandedOut(t)[i] # HandedOut(t)[j]

\* Without debouncing and failures the agent is a first-in first-out mailbox
\* (ThreadMailbox), also where a run ends and its successor takes the queue.
Mailbox == INSTANCE ThreadMailbox WITH waiting <- [t \in Threads |-> Pending(t)]
ImplementsMailbox == Mailbox!Spec

\* Every invocation comes to its end and releases its thread.
InvocationsEnd == \A r \in RunIds : Live(r) ~> pc[r] = "done"

\* A message queued behind a busy agent is handed to a run, or discarded by the
\* user: "'wait' queues new messages for next run".
Queued(m) == m \in {queue[To[m]][i] : i \in DOMAIN queue[To[m]]}
QueuedMessagesRun == \A m \in Messages : Queued(m) ~> ~Queued(m)

\* A run whose signal is raised before its loop has returned, be it ahead of the
\* registration of the signal, ends "terminated", unless the write that says so
\* fails and the row waits for the recovery of the next start.
TerminateHonoured ==
  \A r \in RunIds :
    (r \in raised /\ pc[r] \in {"assign", "model", "prepare", "loop", "inject"})
      ~> (runStatus[r] = "terminated" \/ r \in abandoned)
=============================================================================
