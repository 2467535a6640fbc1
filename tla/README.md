# Models of the agent platform

TLA+ models of the parts of this repository that decide what becomes of a
conversation and of the resources it uses: the protocol by which an agent
accepts messages, runs and is terminated, the LLM loop inside a run, reminders,
the delegation of work to other agents, workspace containers and terminals, the
saved and the running graph of nodes, and the output of commands on its way to
the agent and to a browser. The modules are translated from
`packages/platform-server/src` (written `S/` below), `packages/llm/src` and
`packages/platform-ui/src` (written `UI/`).

## The system and its parts

The platform server is one Node.js process. Users and tools send messages to
*threads*; an *agent node* of the live graph serves a thread by *runs*, each of
which drives an LLM loop that calls the model and tools. Rows of a PostgreSQL
database, the directory of the graph and Docker survive the process; everything
else is memory. The code is concurrent through its awaits: what runs between
two awaits is atomic, and anything may happen during an await.

| Component | State it keeps | Operations | Talks to | Module |
| --- | --- | --- | --- | --- |
| Agent node (`S/nodes/agent/agent.node.ts`) and its buffer (`messagesBuffer.ts`) | `runningThreads`, queues | `invoke`, `injectBufferedMessages`, `clearQueuedMessages` | persistence, signals, loop | `AgentThreads`, `ThreadMailbox` |
| Run signals (`S/agents/run-signals.service.ts`) | a map from run to signal | `register`, `activateTerminate`, `clear` | agent node, requests, cascade | `AgentThreads` |
| Run rows, thread requests (`S/agents/agents.persistence.service.ts`, `threads.controller.ts`) | threads, runs, messages (database) | begin, inject, complete; send, patch, terminate, clear queue | all of the above | `AgentThreads` (partly) |
| Startup recovery (`S/core/services/startupRecovery.service.ts`) | none | terminates runs, completes reminders | database | `AgentThreads`, `Reminders` |
| LLM loop (`packages/llm/src/loop.ts`, `S/llm/reducers`, `S/llm/routers`) | `LLMState`, the saved conversation | the reducers and routers of `prepareLoop` | model, tools, database | `AgentLoop` |
| Reminders (`S/nodes/tools/remind_me`, `S/agents/reminders.service.ts`) | timers, reminder rows | schedule, fire, cancel | agent node | `Reminders` |
| Manage, call_agent, links (`S/nodes/tools/manage`, `call_agent`, `S/agents/call-agent-linking.service.ts`) | waiters, timers, contexts, links | send to a worker, wait, forward, link | agent nodes of other threads | `Delegation` |
| Closing cascade (`S/agents/threadCleanup.coordinator.ts`) | a cascade in progress | close, cancel reminders, terminate runs, remove containers and volume | signals, reminders, containers | `AgentThreads`, `Reminders`, `Containers` |
| Containers (`S/infra/container`, `S/workspace/providers`) | container rows, event queue | provide, register, sweep, delete, process events, watch, collect volumes | docker runner | `Containers` |
| Terminals (`S/infra/container/terminal.*.ts`) | sessions, connections | create, connect, open a shell, clean up | runner, sockets | `Terminals` |
| Graph repository (`S/graph/fsGraph.repository.ts`, `nodeState.service.ts`) | files, lock file, version | upsert, patch state, recover | live graph | `GraphStore` |
| Live graph (`S/graph-core/liveGraph.manager.ts`, `S/nodes/base/Node.ts`) | instances, edges, last graph | apply, provision, deprovision | every node | `LiveGraph` |
| Shell tool and run events (`S/nodes/tools/shell_command`, `S/events`) | buffers, chain of appends, chunks (database) | execute, append, finalize, snapshot | runner, event bus | `ShellOutput`, `OutputFeed` |
| Socket gateway and the view of output (`S/gateway`, `UI/lib/graph/socket.ts`, `UI/hooks/useToolOutputStreaming.ts`) | rooms, subscriptions, the view | subscribe, emit, select, catch up | run events | `OutputView` |
| MCP servers, runner connectivity, LLM settings, memory, configuration, proxies, the rest of the UI | various | see `PROJECT.json` | | not modelled |

What is hard in it: two invocations of one thread; a message that arrives while
a run ends; the signal raised before, during and after the life of a run; calls
that reject at any await, including inside the code that handles a rejection;
crashes between two writes; a conversation cut, extended and saved by many
reducers that must remain one the model's provider accepts; a reply that comes
after its waiter gave up; container events that arrive late, twice or out of
order; a directory swapped in several renames; an apply that fails half-way;
sockets that close during an await; answers applied to a view that has moved
on. `PROJECT.json` lists every hazard at its line with the properties that cover
it, or with the reason why none does.

What makes each part correct: one invocation per thread and no message
repeated or left behind (agent node, buffer); a run row that follows its
invocation and is final once completed; a raised signal honoured; a conversation
that is kept, with every tool call answered; a reminder delivered at most once,
in a slot that is freed; a worker's answer returned to the call it is of, and
links that name the right child and run; rows that agree in the end with
containers, and nothing left of a closed thread; a session served by one
connection and not lost before it was; the last saved graph on disk after
any crash; a running graph equal to the last one applied; an exact account of the
output of a command, and a view without unexplained holes.

## What is modelled

An action is what runs between two awaits. Where a call to the database commits
and the continuation that follows it can be told apart from it, they are two
steps. Time is abstract: a timer that is set may fire at any later moment.

### AgentThreads and ThreadMailbox

`AgentThreads` is `AgentNode.invoke` with all it touches. Invocations are
numbered as they start; `pc[r]` is the await invocation `r` is in:

| `pc` | in `AgentNode.invoke` |
| --- | --- |
| `begin` | the transaction of `beginRunThread` |
| `assign` | `ensureAssignedAgent`, awaited after that transaction has committed |
| `model` | `ensureThreadModel`; the configuration is then read and the signal registered |
| `prepare` | `prepareLoop` |
| `loop` | `loop.invoke` |
| `inject` | `recordInjected`, inside the loop, for messages drained after tools |
| `complete` | the transaction of `completeRun` |
| `send` | what follows it up to the `finally` block: publishing, auto-send |
| `failing`, `failsend` | the same two in the `catch` block |

`Finish` is the `finally` block, the drain and the synchronous part of the
invocation it starts, one step because nothing is awaited between them.
`FinishFailed` is the `finally` block after the `catch` block has rethrown: the
drain is not reached. Requests are split where they await: the thread is read in
`ReadThread` and the agent invoked in `PostMessage`; the run row is read in
`ReadRun` and the signal raised in `TerminateRun`. The cascade closes the thread
in `CascadeCloses` and lists running rows in `CascadeListsRuns`; its signals are
`TerminateRun` steps. `Crash` forgets all memory, `Recover` is the transaction
of the recovery service. `InvokeFromTool` stands for every caller that does not
look at the status of the thread (reminders, `call_agent`, `manage`, Slack).

A message is a model value and is sent at most once by its sender, so that what
is delivered twice was repeated by the platform. The debounce window is the flag
`settled`: cleared by `enqueue`, set at any later time by `Settle`. `abandoned`
is a history variable: the runs whose row an invocation left running because
writing its end failed.

Simplifications: emitting to the event bus does not throw; the cascade reads and
closes its thread in one step, and one cascade per thread is in progress at a
time; one server process, which gets the recovery lock.

`ThreadMailbox` is the abstract specification: accepted messages wait in order
and are delivered, a prefix at a time, or are discarded by the user. The
refinement maps `waiting` to the batch held by the thread's invocation followed
by its queue (`Pending`), `delivered` to the messages linked to its runs.

### AgentLoop

The graph of reducers wired in `AgentNode.prepareLoop` and driven by
`Loop.invoke`, over several runs of one thread, each started with one of
`Configs`. A reducer with awaits has a stage for each await that a signal, a
failure or a crash can tell apart: `StartModelCall`, `CallModel`,
`ModelAnswers`, `RecordAnswer` are `CallModelLLMReducer.invoke`, with `Cancel`
for its `cancelAndReturn` and `ModelFails`, `RecordError` for its `catch` block.
`Route` is the terminate check that static and conditional routers make;
`AfterToolsRouter` (in `ToolsSave` and `Inject`) does not make it, as in the code.

A message is its kind (user, answer, answer with tool calls, tool outputs,
restriction), its run and the model turn it belongs to. All outputs of one batch
are one message, because the reducer appends them together. `ids` is
`context.messageIds`, each id represented by the message its context item is of,
so that a shift by one is visible. A summary is the sequence of messages it
stands for. Token counts are left open: any conversation may be over the
threshold and any suffix may be the part kept, which covers every tokenizer and
every limit. `unread` is a history variable: the latest run whose load failed,
which alone is allowed by `ConversationKept` to save a conversation without what
was saved before.

Simplifications: JSON encoding of messages; memory injection and the system
prompt, which are added to the input of the model and not to the state; one
stage for a whole batch of tools, so that a tool started inside the batch after
the check of the signal is not told apart.

### Reminders

One RemindMe node with its tool. `call[r]` is the await of `execute`, `firing[r]`
that of the timer's callback, `cancelling[r]` that of `cancelReminder`,
`closing[t]` that of the part of the closing cascade that concerns reminders. A
commit and the continuation that follows it are two steps: a cascade that clears
timers between the two misses the reminder. `armed` and `active` are the timers
and the registry, changed together by the code, which is what `RegistryExact`
checks.

`node` and `destroyed` are the lifecycle: a node that is deprovisioned destroys
its tool and keeps it when it is provisioned again; a node removed from the live
graph is not found by cancellations. `Crash` forgets the memory, `Recover`
completes the pending rows. Delivery is the call of `invoke`, which is
`InvokeFromTool` in `AgentThreads`; what becomes of the message is modelled there.
`unserved` is a history variable, see the properties.

Simplifications: one RemindMe node; a thread without subthreads; counts sent to
clients are left out; a database write in flight at a crash is either committed
before it or lost.

### Containers

The workspace of one thread: Docker (`docker`, `built`, `log`, `volume`), the
rows of the registry, the event processor with its queue and the row it has
read (`delivered`, `handling`), the calls of `ensureWorkspace` (`Ensure...`), and
those that stop and remove containers (`StopContainer`, `RemoveContainer`,
`MarkRemoved`), who are the sweep (`Sweep...`), the closing cascade (`Close...`)
and an administrator (`DeleteRequest`). Helpers of the registry that read and
write a row are one step; the read and the write of the event processor
(`EventRead`, `EventWrite`) are two, with everything else in between. Docker is
external and modelled as the code uses it: what it does appends to `log`, the
processor takes events in order, a reconnection of the watcher loses some or
hands some out again. A stop or a removal that Docker refuses with status 409 is
taken for done (`Conflict`); `refused` is a history variable, the containers that
were left in place by it.

A scenario says what a behaviour starts with, which incidents and which faults
may happen in it, and two settings: whether workspaces have a time to live
(`expires`; with `ttlSeconds` of 0 or less a row has no `killAfterAt`) and whether
`CONTAINERS_CLEANUP_ENABLED` is left on (`sweeps`). The instance has six, so that not
every combination is explored at once. Simplifications: one thread; backfill at start,
sidecars, images and networks are left out; `VOLUME_GC_ENABLED` is on; the
metadata of a row is what the code decides on.

### GraphStore

The directory of the graph and its lock (`root`, `staging`, `backup`, `lock`),
the requests of clients and the patches of the state of a node by the await or
rename they are at (`op`), the snapshot of that state in the runtime, and the
saved graphs that wait to be applied. `MoveAway`, `PutInPlace`, `MoveBack` are
the renames of `swapWorkingTree`; the stages from `clear` to `writeMeta` are
`restoreWorkingTree`; `ReadMeta`, `ReadNodes`, `ReadEdges` are a
read, which takes no lock. A tree has its version, and its nodes and edges by the
design they are of, so that a mixture is visible. The rollback removes and rewrites
the files of the nodes one by one (`ClearSomeNodes`, `WriteSomeNodes`): a part of
the nodes is "some" if the one that is patched is among them, and "others" if not;
edges of which any is missing are "none". `last`, `rolledBack`, `damaged` are
history variables.

Simplifications: the state of one node; staging directories of other processes;
validation and the reads of the controller; the result of an apply, which is
`LiveGraph`'s.

### LiveGraph

Applies one after the other, each in the phases of `_applyGraphInternal`
(`phase`, `todo`), node by node and edge by edge, with the records the runtime
keeps (`executed`, `known`, `lastGraph`) and, apart from them, what is
connected (`wired`) and which instances were made, with the status of
`Node.ts` (`inst`). An instance that waits to be deprovisioned is the `victim`. The
API may provision or deprovision any node at any time. `submitted`, `lost`,
`slipped` are history variables.

Simplifications: configurations are names, and setting one succeeds or is
refused; each kind of failure happens at most once; status listeners and loading at
the start are left out.

### Delegation

The calls of one parent run, through `manage` or `call_agent`, and messages of a
user to the child. `stage[c]` is the await of the call; `waiter`, `armed`,
`context` are `pendingWaiters`, `timeoutHandles`, `invocationContexts`;
`runs` are the invocations of the worker with the default behaviour of
`AgentThreads` (messages wait and are taken together, an invocation that throws
takes nothing); `link` is the metadata `CallAgentLinkingService` writes at the
event of a call. What the code finds by "the latest event" is found so in the
model too. `muddled` is a history variable: the calls which that search can
confuse.

Simplifications: one parent run; the loop of the child returns an answer, an empty
one or fails; one kind of failure at most once; the setting of the channel is part
of the creation of the subthread; aliases are such that sanitizing leaves them as
they are, so that the second attempt of `manage` with the sanitized alias
(`manage.tool.ts:181`) does not occur.

### Terminals

Sessions (`record`, `worn` for the limits they have reached) and connections:
the state of the socket, the await of `handleConnection` (`at`), its locals
`closed` and `sessionMarkedConnected` (`connected`), and its shell. Events of the
socket and timers run the cleanup at any await. Assumed: calls to the runner
return, and the timer of the duration is set. The specification is
`TerminalsSpec`, so that one module can hold theorems about it and `Containers`.

### OutputFeed, ShellOutput, OutputView

`ShellOutput` is one command of `executeStreaming`. Output comes in pieces of one
size, named by their position. `out` is what the handler of output works on:
buffers per stream, the chain of flushes, truncation and the one chunk that may
still pass. `Output` is `onOutput`, `Ends` the tails of decoders and cleaners
with the last flushes, `EndsUnstreamed` the output a runner gives with the exit
event when it has streamed nothing; `BeginsFlush`, `StoresChunk` or
`ChunkNotStored`, and `AnnouncesChunk` are one link of the chain, whose append is
awaited; `Settles` is what follows the chain up to the recording of the summary,
`Returns` the rest. A stream's timer is set exactly while its buffer holds
pieces and needs no variable.

`OutputFeed` is what a command promises those who watch it: numbered chunks,
readable before they are announced unless they could not be stored, one append
in progress, and an end after which nothing comes. `ShellOutput` implements it.

`OutputView` extends `ShellOutput` by a browser: the hook with its requests and
its one catch-up, the socket that is down or not yet subscribed (`Joins`), a
chunk delivered twice to a client in two rooms, and the selection of another
event while answers are on their way. `misapplied` is a history variable: an
answer was applied to a view it does not fit.

Simplifications: the three kinds of timeout are one; saving a cut output is tried
up to three times, here once; the runner sends nothing after it has reported an
end; a decoder's tail that a timeout, with nothing shown before, can put into the
result twice; the view's `terminal` and its loading flag, which the component does not
use; the server does not crash here. A snapshot, the view after an answer and the
combined text of a result are given by what is true of them (`IsSnapshot`,
`IsApplied`, `IsCombined`) and not by the filters that compute them.

## What is checked

Run any of them in this directory with `tlc -workers 2 -config <run>.cfg <module>`.
No configuration checks for deadlock: messages, calls, requests and faults are
bounded, so the systems stop when all are used.

| Run | Module | What it shows | Bounds |
| --- | --- | --- | --- |
| `AgentThreads_faults` | `MCAgentThreads` | types (`TypeOK`), one invocation per thread (`OneInvocationPerThread`), rows that follow it (`RunningRowsOwned`), `NoMessageTwice`, completed runs stay (`CompletedRunsStay`), `InvocationsEnd`, a terminate request is honoured (`TerminateHonoured`) | 1 thread, 2 messages, 2 runs, debouncing, every fault at every await, crashes |
| `AgentThreads_mailbox` | `MCAgentThreads` | `AgentThreads` implements `ThreadMailbox` (`ImplementsMailbox`); queued messages come to a run (`QueuedMessagesRun`) | 3 messages, 3 runs, injecting one by one or all together, changed from run to run; no faults, no debouncing |
| `AgentThreads_debounce` | `MCAgentThreads` | violated: `QueuedMessagesRun` with debouncing | 2 messages, 2 runs |
| `AgentLoop_history` | `MCAgentLoop` | the conversation is sound (`ConversationSound`) and kept (`ConversationKept`), model calls are completed (`ModelCallsCompleted`), a raised signal ends the loop (`TerminateStopsLoop`) | 3 runs, 3 model turns, 1 injected message; with summarization, with a cap of 1, without a cap; every fault but `event` |
| `Reminders_faults` | `MCReminders` | types (`TypeOK`), the registry is exact (`RegistryExact`), no reminder is delivered twice (`DeliveredAtMostOnce`) or stays pending (`PendingResolves`) | 2 calls for one thread, cap 1, every request and fault |
| `Containers_lifecycle` | `MCContainers` | what was removed is gone (`StoppedByServiceIsGone`), rows follow Docker (`RowsFollowDocker`) and settle (`RowsSettle`), a closed thread is cleared (`ClosedThreadCleared`) | 2 containers, 1 call for a workspace, 6 scenarios (two with a setting off), 1 fault |
| `Containers_leak` | `MCContainers` | violated: `FailedTerminationRetried` | 1 container, a removal that fails |
| `GraphStore_saves` | `MCGraphStore` | types (`TypeOK`), the last graph survives (`SavedSurvives`) and is whole (`SavedGraphsWhole`), saves follow one another (`SaveFollows`), `RequestsEnd` | 2 clients, 1 patch, 3 faults of any kind, crashes among them |
| `LiveGraph_applies` | `MCLiveGraph` | the graph is realised (`GraphRealised`), `OnlyLiveInstancesRun` | 2 nodes, 3 graphs, 3 applies, 1 failure of any kind |
| `Delegation_calls` | `MCDelegation` | answers reach the call they are for (`AnswersFit`), links name the right child and its status (`LinksRight`), calls end (`CallsAnswered`) | 3 calls or messages, 1 or 2 children, 7 setups, 1 failure |
| `Terminals_sessions` | `MCTerminals` | types (`TerminalsTypeOK`), one terminal per session (`SessionsServed`), sessions kept for another attempt (`ReconnectPossible`), connections end (`TerminalsEnd`) | 1 session, 3 connections, shells that fail to open or close |
| `ToolOutput_watch` | `MCToolOutput` | the account of the output (`ChunksAccounted`), the result (`ResultWhole`), the refinement of `OutputFeed` (`ImplementsFeed`), the view (`ViewSound`), catching up (`CatchupsCatchUp`) | 3 pieces, 2 configurations, 2 requests, 1 lost connection, 1 failure |

The types of `AgentLoop`, `Containers`, `LiveGraph` and `Delegation` are a
conjunct of `ConversationSound`, `RowsFollowDocker`, `GraphRealised` and
`AnswersFit`.

Why the bounds suffice. Threads share nothing in the agent node but the maps
they are keys of, so one thread shows all interleavings of a thread. With faults
two messages suffice for a run, a queue, and a successor; without them three
give a drain that takes some and leaves some. An invocation takes at least one
message, so `MaxRuns` equal to the number of messages never blocks one. Three
runs let a history be written, read back and extended twice; three turns give
tool batches in one run and an answer in the next. Reminders meet only at the
cap, which two calls reach and exceed. Two containers are the one that is
replaced and its replacement. Two clients conflict, and a patch reads while
either of them swaps; three faults are a failed rename, a failed rollback and a crash.
Three graphs add, recreate, reconfigure and remove a node and an edge. Three
calls are two that compete for a waiter or a link and a user between them. Three
connections are one that serves, one that waits and one that is refused. Three
pieces cross a limit with one before and one behind; two requests are a snapshot
and a catch-up, or the snapshots of two events.
The configuration `injectAfterTools` may inject and need not, so that it has all
behaviours of `wait`. No run uses symmetry: most check liveness.

Scope of some of the properties.

- `ModelCallsCompleted` is checked without the fault `event`: when the database
  refuses the write that completes the row, the row stays running, and startup
  recovery cancels it.
- `PendingResolves` leaves out the reminders in `unserved`: those whose
  completion failed or whose timer was cleared while their row was pending (a
  failed cancellation, the disposal of the node, a row created between the two
  halves of a closing). The code leaves these to the next restart.
- `StoppedByServiceIsGone` leaves out the containers in `refused`, whose removal
  Docker refused with a 409.
- `RowsFollowDocker` leaves out containers registered after they had ended;
  `RowsSettle` covers them.
- `RowsSettle` promises the end of an unsettled row that the sweep lists, whatever
  fails. A running row without a time to live is not listed, and no row is with the
  sweep switched off: these it promises to settle, by the events or the cascade, only
  if the registration was in time and nothing failed.
- `SavedGraphsWhole` holds while no save was rolled back, `SavedSurvives` while
  no rollback failed or was cut by a crash: see the behaviours below. `SaveFollows`
  says that a patch leaves the nodes as they are, or, once a save was rolled back,
  may save a part of them.
- `WiresMatchGraph` leaves out the edges of recreated nodes, and
  `OnlyLiveInstancesRun` nodes disposed of while they were being provisioned.
- `AnswersFit` allows the answer to a message that was given up, `CallsAnswered`
  the wait without a timeout for an answer that never comes.
- `ViewSound` and `CatchupsCatchUp` hold while no answer was misapplied.

Each of these exceptions is a behaviour of the code, listed below.

Fairness. `AgentThreads` assumes weak fairness of the steps of each invocation:
the event loop resumes every continuation, and calls to the model, tools and the
database return or reject, having timeouts. Requests already read are finished
(`TerminateRun`), timers fire (`Settle`), and a dead process is restarted
(`Recover`). Nothing is assumed of clients, of crashes or of failures, nor that
an agent injects. `AgentLoop` assumes it of the loop's steps together, not of the
model's choice between answers and tool calls. `Reminders` assumes it of the
steps of each call, timer, cancellation and cascade, and of `Recover`.
`Containers`: calls for a workspace, removals, the cascade and the processor go
on, the interval of the sweep and of the volume collector fires, and time passes
(`Expire`, `RetryDue`), which is what a timer in the process and a clock
guarantee; no sweep and no expiry is promised where the settings turn them off, as
their guards have the settings, but the volume collector is taken to be on;
nothing is assumed of Docker's containers or of users. `GraphStore`:
requests go on, the queue of applies is taken, and a dead server is started
again. `Delegation`: the steps of each call, timer and invocation, so that the
loop of a child ends, which `AgentThreads` shows. `Terminals`: the steps of
each connection, its timers, and that a socket that is closing closes. `LiveGraph` and
the tool output have safety properties only and assume nothing.

## Findings

Where the code contradicts what its documentation or its comments say, and a run
shows it:

1. *A debounced queue can be left behind* (`AgentThreads_debounce`). `tryDrain`
   (`messagesBuffer.ts:58`) returns nothing inside the debounce window, a run
   drains once when it ends (`agent.node.ts:844`) and nothing drains when the
   window elapses; `nextReadyAt` has no caller. A message sent just before a run
   ends waits for the next one, against "'wait' queues new messages for next
   run" (`agent.node.ts:76`). A later message then starts a run before it, so
   that the order is lost as well.
2. *A container whose removal failed is not retried* (`Containers_leak`). The
   sweep leaves its row terminating with a `retryAfter`; the event of the stop
   that succeeded then marks the row stopped, which the sweep does not list. The
   row is purged later and the container stays, against "Schedule retry with backoff
   metadata; leave as terminating" (`containerCleanup.job.ts:85`).

## Behaviours a reader should know of

The models have them; the properties above are stated around them.

Agent and loop.
- A run whose row is not yet written when the cascade lists the running rows, or
  that the queue, a reminder or a tool starts later, goes on in a closed thread
  without a signal (`threadCleanup.coordinator.ts:241`; compare "Active runs
  receive a terminate signal", `docs/containers/workspaces.md:26`).
- A failed read of the conversation (`load.llm.reducer.ts:49`) is swallowed, and
  the save at the end of the run writes a history without what it could not read
  (compare "Merge: existing.messages + incoming messages", line 27).
- A summarization returns a state without `meta` (`summarization.llm.reducer.ts:172`),
  so the count of restriction messages starts again within a turn (compare
  `docs/tool-call-agent.md:52`).

Reminders.
- The callback checks the registry before it awaits the completion of the row and
  not after (`remind_me.tool.ts:80`): a reminder cancelled in between is delivered.
- A call in progress when its node is disposed of, or its thread closed, sets a
  timer in the destroyed tool or on the closed thread. Calls of one batch pass the
  check of the cap together (`remind_me.tool.ts:64`). A node that is provisioned
  again keeps its destroyed tool, and every later call throws.

Delegation.
- An answer to a message whose call has timed out or was refused, or to one of a
  user, is returned to the next call that waits for that child. A call that is
  refused for a waiter has invoked the worker all the same.
- With `timeoutMs` 0 a call waits for ever for a worker whose answer is empty or
  whose run failed; and a failed run leaves the messages queued behind it where
  they are. The default is 15000 in the code, 30000 in `manage.md:15`.
- Parallel calls of one run can be linked to each other's event
  (`call-agent-linking.service.ts:369`); a tool renamed by its configuration is not
  linked at all. Of two parallel calls that create the same subthread one fails on
  its unique alias. Startup recovery does not touch links. `forwardToParent` keeps the
  child's thread busy until the parent's run has ended. `queuedMessages` of a
  context is always empty: `enqueueMessage` has no caller.

Containers.
- Rows of exited containers are purged after the retention, so that closing the
  thread later finds no record of them. A container registered after it has
  ended has a running row until its time to live is over, and for ever if there is none or
  the sweep is switched off; so has one whose end was lost with the events. A removal
  refused with a 409 counts as done: the row is marked stopped, is purged in time, and
  the container stays (`containerCleanup.job.ts:175`; `docs/containers/workspaces.md:21`
  calls the answer benign). The sweep may remove a
  workspace that was registered again, and two callers may create two. The volume
  collector looks at the newest closed threads only, `maxPerSweep` of them.
  `updateLastUsed` and `markTerminating` have no callers. The volume is removed
  although rows still refer to it, with a warning.

Graph.
- The lock file of a process that died is not removed: every save fails with
  `LOCK_TIMEOUT` until somebody does it by hand.
- Of two patches of one node's state in progress together the second commits
  without the keys of the first: it merges with a snapshot taken before its awaits
  (`nodeState.service.ts:51`; compare "Deep-merge previous snapshot with incoming
  patch", line 50). A version conflict of a patch is logged and swallowed while the
  request returns the merged state.
- A read in the middle of a rollback lets a patch save a graph without edges, or with
  only those nodes whose files had been written again (`fsGraph.repository.ts:455`): the
  version it names is unchanged. When staging fails the untouched tree is rewritten all
  the same, so that a crash then loses the graph; so does a crash after a rollback whose
  rename failed.
- An apply that is rejected makes every later one reject until the server is
  restarted. The edges of a recreated node are not executed again. A node disposed of
  while a request provisions it keeps running. `shutdown` has no caller.

Terminals.
- A shell whose opening was awaited while the cleanup ran is never closed. A
  second connection of a connected session opens a shell, is refused, and its
  cleanup deletes the record of the first one's session. A client whose socket is
  closing when its shell opens loses its session.

Output of commands.
- "Full output saved to" names a file that holds the chunks let through only
  (compare `docs/env-overlays.md:14`, `shell_command.node.ts:44`): what waited in the
  chain or the buffers when the limit was crossed is dropped, and an earlier flush of
  the same stream takes the pass meant for the crossing one. A failure without
  truncation reports the last 10000 characters and saves nothing.
- A chunk that could not be stored is announced and not counted as dropped. A
  command that timed out and is cut when it has ended is recorded as an error.
- The hook applies whatever answer arrives to whatever it shows
  (`useToolOutputStreaming.ts:62`): an answer of an event selected before, as the
  component is not mounted anew (`RunScreen.tsx:248`); or a snapshot read before
  chunks it has meanwhile heard live, which it removes, so that the last chunk stays
  missing if none follows. A catch-up cut at the limit of 1000 chunks is not
  continued, `catchupRef` is not reset by a selection, and the catch-up of a
  reconnection may be answered before the rooms are joined again.

## What is proved

Eight modules hold proofs, each for any values of the constants of its component and
from its named assumption alone (`FirstInFirstOut` has two hypotheses more,
`CallsAreCompleted` one). The argument is the same in all: an inductive invariant
that implies the property, lemmas for what a step does to the part of the state it
concerns, one step of the proof per action, and the temporal conclusion. In the
larger ones the lemmas first reduce the actions to a few kinds of step (`Keeps`,
`Starts` and `Takes` for the row of a container, `Accepts`, `Delivers`, `Clears` and
`Loses` for the messages of a thread), and the invariant is shown for the kinds.

`AgentThreadsProofs`:

- `TypeCorrect`: `Spec => []TypeOK`. The strengthening is `OutcomeDecided`: a run
  about to be completed has its status chosen, else `completeRun` would write
  "none". `BufferTypes` gives what draining keeps of a sequence.
- `OneInvocation`: `Spec => []OneInvocationPerThread`. `Fresh` adds that numbers
  not given out belong to no invocation. The lemmas `StageStep`, `EndStep`,
  `StartStep`, `RestartStep` and `OtherStep` are the five things a step can do to
  the invocations of a thread. `RestartStep` is the delicate one: the `finally`
  block releases a thread that the drain takes again in the same step.
- `RunningOwned`: `Spec => []RunningRowsOwned`. One must know that the row is
  absent until `beginRunThread` commits (`NoRowYet`), running while the invocation
  works (`RowWhileWorking`), and that nothing is in progress while the process is
  down (`DownIsIdle`), so that recovery takes no row from an invocation.
- `CompletedStay`: `Spec => CompletedRunsStay`, from the same invariant:
  `completeRun` does not look at the status it overwrites, and it is
  `RowWhileWorking` that says the row is still running whenever it is called.
- `MessagesOnce`: `Spec => []NoMessageTwice`. A run holds messages of its own only
  between the drain and the moment they are handed over (`BatchHeld`), so that what
  is pending for a thread is what its invocation holds and then its queue
  (`PendingIs`). Of what was handed over and what is pending no message appears
  twice (`OnceInv`): whatever a step does, what is pending afterwards is what was, a
  message that was not accepted before, or a part of it.
- `FirstInFirstOut`: `Spec => ImplementsMailbox`, assuming `~Debounced` and
  `Faults = {}`, as the run of the refinement does. `QuietInv` says what this
  leaves: no run fails, every queue is settled, and a thread without an invocation
  has an empty queue, which is why a message is never overtaken by one that arrives
  while the thread is idle. With a failed write the refinement is false.

`AgentLoopProofs`:

- `ConversationStaysSound`: `Spec => []ConversationSound`, for any number of runs,
  turns and injected messages and whatever fails. A conversation is `WellFormed` if it
  is paired and its calls are of different turns, none later than the model's last;
  pairing alone is not inductive, because outputs whose call is folded would be kept
  if there were another call of their turn. `WorkOK` says what a run works on at each
  stage: between an answer with calls and the record of its outputs the messages are
  well formed with the outputs that will follow. `IdsOK` says where every message has
  its context item and where only a front of them has, `ExitsOK` that a call is
  cancelled for the signal only, so that `cancelAndReturn` never leads to a save of a
  state whose ids are short.
- The lemma behind it is `FoldCuts`: wherever the summarizer splits a well formed
  conversation, what it folds is a front of it and what it keeps the rest, not beginning
  with outputs. At most one message moves (`OneOrphan`), the first of the head, whose
  call is the last of the tail. `FrontFolded`, `CallsAppended`, `HumansAppended` and
  `PlainAppended` are what else may be done to a well formed conversation.
- `ConversationNeverLost`: `Spec => ConversationKept`, from `KeptOK`: past the load, what
  is saved is the beginning of what the run works on, unless the run could not read it.
  A fold changes the summary and the messages but not the two together.
- `CallsAreCompleted`: `Spec => []ModelCallsCompleted`, assuming `"event" \notin Faults`,
  as its run does: the call in progress is in one of the stages `InCall`, and each way out
  of them writes the row (`RowSettled`). If that write may fail it is false.

`RemindersProofs`:

- `RemindersTyped`: `HasRow` adds that timers, callbacks and cancellations that
  will write belong to reminders with a row.
- `SlotsExact` and `AtMostOneDelivery` rest on `OneShot`: nothing of a reminder
  exists before its call is over, and its timer, the running callback and its
  delivery follow one another, so that the slot freed by a callback has no timer.
- `DeliveriesRecorded`: a delivered reminder has its row completed unless that
  write failed (`DeliveredIsCompleted`, which no run checks).

`GraphStoreProofs`:

- `GraphTyped`: `Spec => []TypeOK`, which says that a request at a stage of a save
  holds the lock and no other does.
- `SavedGraphSurvives`, `PatchedGraphsWhole`, `SavesFollow`: `Saving` says what each
  stage of a save has done to the tree, `Staged` what it will put in its place,
  `Reading` what a patch that read without the lock may rely on (the version it names
  has the nodes it has read, or it met a rollback and has read a part of them; and its
  edges unless a save has moved them away),
  `Tidy` what holds between saves and while the server is down. `Waiting`, `Down` and
  `RollsBack` tie the requests to the applies, to crashes and to the history.
  A rollback shows a reader the nodes of the saved graph, a part of them, or none
  (`Patchable`, `NodesInPlace`): that is all `SaveFollows` allows a patch to save.
  The lemmas ending in `Effect` say what each action does to one request;
  `OutsideKeeps`, `HolderKeeps` and `HolderLeaves` are the three ways a step relates to
  the holder of the lock.

`ToolOutputProofs` (for `ShellOutput` and `OutputView`):

- `ChunksCounted`: `Spec => []ChunksAccounted`. `OutputInv` adds where a piece of
  the output may be while the command streams (`Streaming`: in one place only),
  that nothing is in the chain when it has been settled (`Ended`), that chunks are
  announced under consecutive numbers (`Numbered`), and what the link of the chain in
  progress has done (`InProgress`).
- `CommandIsFeed`: `Spec => ImplementsFeed`, step by step from `OutputInv`: every
  action is one of `OutputFeed` or leaves its variables alone, the actions of the
  browser among them.
- `ResultStaysWhole`: `Spec => []ResultWhole`. As long as nothing was cut each piece
  taken from the command was shown, lies in a buffer, or is in the chain (`Held`,
  `NothingLost`); nothing is left in the buffers when the result is put together.
- `ViewStaysSound`: `Spec => []ViewSound`. The view and every answer on its way are
  invariants of the same form: an answer has each stored chunk from where it
  starts to the end it had when it was read, a view each one up to the last it
  shows. Neither becomes incomplete later, because a chunk is stored under a number
  greater than all given out (`Issued`, `StepGrows`). `Joined` is the merge of
  `tool-output.ts`: an answer that fits leaves the view sound.
- `CatchupsComplete`: `Spec => CatchupsCatchUp`, from the other half of `Joined`:
  an answer that fits has brought what was missing, up to the limit of 1000.

`ContainersProofs` (for `Containers`, and for `Terminals`, the shells in them):

- `StoppedIsGone`: `Spec => []StoppedByServiceIsGone`. `Gone` says what each stage
  of a removal knows of the container: by the time a sweep, a closing thread or an
  administrator writes "stopped" it has been removed or was not found, and a
  removed container does not come back; or else Docker refused the removal with a 409
  (`Done`).
- `EndsAreNoticed`: `Spec => []RowsFollowDocker`. The end of a container whose row
  shows it running must still be on its way: among the events delivered late, in the
  log the watcher reads from its last position after a reconnection, or in
  the hand of the handler between its read and its write (`Logs`, `InHand`,
  `Dying`, `EndsNoticed`).
- `TerminalsTyped` and `SessionServedByOne`, of `Terminals`: `[]SessionsServed`, from
  `MarkedIsUsed`: a session marked by a connection is never pending again, which keeps
  a second one out whatever is awaited.
- `SessionsKept`, of `Terminals`: `ReconnectPossible`. Only a refusal, the end of a
  cleanup and the pruning of old sessions delete a record, and of these a cleanup can
  reach a session that is still pending only with a shell that was opened for it in
  vain (`PendingLost`, `ConnectionLoses`).

`LiveGraphProofs`:

- `AppliedIsRealised`: `Spec => []GraphRealised`. `NodesOK` says, phase by phase of
  `applyInternal`, how far each node is between the old graph and the new one (`Made`
  names what provisioning leaves), `WiresOK` and `LinkedOK` the same of the
  edges executed, `QueueOK` that the graph submitted last is the last of the chain, or
  else the one being applied. Nothing is claimed of a runtime whose apply has been
  rejected (`wedged`), as in the property.
- `DisposedIsStopped`: `Spec => []OnlyLiveInstancesRun`, from `InstOK` and
  `VictimOK`: a node in the midst of being disposed of is deprovisioning, so that the
  step that drops it leaves nothing running.

`DelegationProofs`:

- `LinksStayRight`: `Spec => []LinksRight`. A link names a run only at an event whose
  call that run answers, and its row is there (`LinksOK`); a status is noted in the
  step that changes it, or by the one that links (`LinksFollowRuns`). `MuddleOK` ties
  the latest event of a tool to its call unless several were in progress
  together, from which the child follows (`LinksOwnChild`).
- `AnswersStayFit`: `Spec => []AnswersFit`. Messages are in one place (`CallsOK`,
  `SentOK`, `BufferOK`, `RunsOK`: not sent, in the buffer of the child, or in one
  run's batch), so that a run whose answer reaches a waiter has taken the message of
  that call, or of one that gave it up by a timeout or a refusal (`AnswersOwn`).

`TypeOK` of `AgentLoop`, `Containers`, `LiveGraph` and `Delegation`, a conjunct of a
property there, is proved with it.

Some definitions have the form they have so that this can be proved: what a snapshot
answers (`IsSnapshot`), what the view becomes (`IsApplied`) and how chunks make up
the combined output (`IsCombined`) are conditions on a value that an action picks,
in place of filters and sorts of sequences. Each condition has one solution, the
value the code computes. In `AgentLoop` the two halves of a fold are the messages at
a set of positions, in their order (`At`, `Rank`), in place of a filter by recursion.

Only model-checked:

- Liveness: `InvocationsEnd`, `TerminateHonoured`, `QueuedMessagesRun`,
  `PendingResolves`, `RowsSettle`, `ClosedThreadCleared`, `RequestsEnd`,
  `CallsAnswered`, `TerminalsEnd`, and in `AgentLoop` `TerminateStopsLoop`. They need
  fairness and `ENABLED`, which the prover does not treat.

Every other property that a run expects to hold is stated by a theorem.

## Plan

In this order:

1. The composition of `AgentThreads` with `AgentLoop`, for messages injected into a
   run that is being terminated.
2. MCP servers: discovery, restarts and calls in progress; the connectivity monitor
   of the runner; key rotation of the LLM settings.

## What is not modelled

- MCP servers (`S/nodes/mcp`), the connectivity monitor of the runner and LLM
  settings: state and timers of their own, planned above.
- Memory documents: each operation is one call to the database.
- Configuration, references, the vault, Nix and GitHub proxies: parsing, lookup and
  clients of external services.
- The user interface apart from the view of tool output and the socket: rendering
  of what the HTTP interface returns.
- Schema conversion and the UI library: pure functions without state.

Of the modelled components, `PROJECT.json` says what is left out: listing and
metrics queries, aliases and summaries, payloads of events, the tools that are one
call without state, and the variant of the shell tool that does not stream.
