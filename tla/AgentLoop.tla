------------------------------ MODULE AgentLoop ------------------------------
(***************************************************************************)
(* The LLM loop of an agent on one thread: the reducers and routers that   *)
(* AgentNode.prepareLoop wires together and Loop.invoke drives, over       *)
(* successive runs of the thread, with the conversation state that         *)
(* LoadLLMReducer and SaveLLMReducer keep in the database between runs.    *)
(*                                                                         *)
(*   load -> summarize -> call_model -> call_tools -> tools_save -> ...    *)
(*                             |                                           *)
(*                             +-> save -> enforceTools -> summarize ...   *)
(*                                                                         *)
(* pc names the reducer to run next or the await a reducer is in.  The     *)
(* router behind a reducer runs in the same step as the reducer's last     *)
(* piece.  A message is its kind and the model turn that produced it; how  *)
(* many tokens it has is left open, so that any conversation may be over   *)
(* the summarization threshold and any suffix of it may be the one kept.   *)
(***************************************************************************)
EXTENDS Naturals, FiniteSets, Sequences, SequencesExt

CONSTANTS
  MaxRuns,          \* bound on the runs of the thread
  MaxTurns,         \* bound on the answers of the model, over all runs
  MaxBuffered,      \* bound on the messages injected after tools, over all runs
  Configs,          \* the configurations a run of the agent may be started with
  Faults            \* the calls that may fail, and "crash"

FaultPoints == {"load", "llm", "event", "save", "inject", "crash"}

\* whenBusy = 'injectAfterTools'; summarizationMaxTokens > 0; restrictOutput; and
\* restrictionMaxInjections, 0 for unlimited.
Config == [injects : BOOLEAN, summarizes : BOOLEAN, restricts : BOOLEAN, cap : Nat]

ASSUME LoopAssumption ==
  /\ MaxRuns \in Nat
  /\ MaxTurns \in Nat
  /\ MaxBuffered \in Nat
  /\ Configs \subseteq Config
  /\ Configs # {}
  /\ Faults \subseteq FaultPoints

Kinds == {"human", "answer", "calls", "outputs", "restriction"}
Message == [kind : Kinds, run : 1 .. MaxRuns, turn : 0 .. MaxTurns]
Conversation == [summary : Seq(Message), messages : Seq(Message), ids : Seq(Message)]

VARIABLES
  saved,     \* the persisted conversation state of the thread
  run,       \* number of the current or latest run
  unread,    \* number of the latest run whose load failed
  config,    \* the configuration prepareLoop read for it
  pc,        \* where its loop stands
  summary,   \* LLMState.summary: the messages it stands for
  messages,  \* LLMState.messages
  ids,       \* LLMState.context.messageIds: the messages the context items are of
  answer,    \* kind of the model's answer while it is being recorded
  turn,      \* answers of the model so far
  count,     \* LLMState.meta.restrictionInjectionCount
  event,     \* status of the row of the latest LLM call of the run
  terminate, \* LLMContext.terminateSignal
  finish,    \* LLMContext.finishSignal
  buffered   \* messages the buffer still gets for injection

llmState == <<summary, messages, ids, count>>
signals == <<terminate, finish>>
vars == <<saved, run, unread, config, pc, llmState, answer, turn, event, signals, buffered>>

Stages == {"load", "summarize", "fold", "call_model", "started", "model",
           "record", "cancel", "error", "call_tools", "tools", "outputs",
           "tools_save", "inject", "save", "enforceTools"}

TypeOK ==
  /\ saved \in Conversation
  /\ run \in 0 .. MaxRuns
  /\ unread \in 0 .. run
  /\ config \in Configs
  /\ pc \in Stages \union {"idle", "returned", "threw"}
  /\ summary \in Seq(Message)
  /\ messages \in Seq(Message)
  /\ ids \in Seq(Message)
  /\ answer \in {"none", "answer", "calls"}
  /\ turn \in 0 .. MaxTurns
  /\ count \in Nat
  /\ event \in {"none", "running", "success", "cancelled", "error"}
  /\ terminate \in BOOLEAN
  /\ finish \in BOOLEAN
  /\ buffered \in 0 .. MaxBuffered

Init ==
  /\ saved = [summary |-> <<>>, messages |-> <<>>, ids |-> <<>>]
  /\ run = 0
  /\ unread = 0
  /\ config \in Configs
  /\ pc = "idle"
  /\ summary = <<>>
  /\ messages = <<>>
  /\ ids = <<>>
  /\ answer = "none"
  /\ turn = 0
  /\ count = 0
  /\ event = "none"
  /\ terminate = FALSE
  /\ finish = FALSE
  /\ buffered = MaxBuffered
-----------------------------------------------------------------------------
(***************************************************************************)
(* Plausible mistakes in the definitions below.  No action uses them: each *)
(* takes the place of its original to show that a property fails.          *)
(***************************************************************************)

\* The incoming messages ahead of the persisted ones.
Loaded_Reversed == messages \o saved.messages

\* The head as it was split, outputs without their call included.
Kept_AsSplit(split) == SubSeq(messages, split + 1, Len(messages))

\* An early return that leaves the recorded call open.
CallModel_LeftOpen ==
  /\ pc = "started"
  /\ pc' = IF terminate THEN "returned" ELSE "model"
  /\ UNCHANGED <<saved, run, unread, config, llmState, answer, turn, event, signals, buffered>>

\* A cancelled call is tried again.
Cancel_Retried ==
  /\ pc = "cancel"
  /\ event' = "cancelled"
  /\ answer' = "none"
  /\ pc' = "call_model"
  /\ UNCHANGED <<saved, run, unread, config, llmState, turn, signals, buffered>>
-----------------------------------------------------------------------------
New(kind) == [kind |-> kind, run |-> run, turn |-> turn]

\* LoadLLMReducer puts the persisted messages ahead of the incoming ones ...
Loaded == saved.messages \o messages

\* Static and conditional routers end the loop once the terminate signal is
\* active; Loop.invoke then returns.
Route(next) == pc' = IF terminate THEN "returned" ELSE next

\* The check of CallModelLLMReducer between recording the call and making it.
MayCallModel == ~terminate

\* The check of CallToolsLLMReducer once the tools have returned.
MayKeepOutputs == ~terminate

\* splitHeadTailByTokens keeps a suffix of the messages, the head, and
\* moveOrphanToolOutputsToTail takes from it the outputs whose call is not in it.
InHead(split) == split + 1 .. Len(messages)
Answered(split, m) ==
  \E i \in InHead(split) :
    messages[i].kind = "calls" /\ messages[i].run = m.run /\ messages[i].turn = m.turn
Orphans(split) ==
  {i \in InHead(split) : messages[i].kind = "outputs" /\ ~Answered(split, messages[i])}

\* The messages at the positions S, in their order.
Rank(i, S) == Cardinality({j \in S : j <= i})
At(S) == [k \in 1 .. Cardinality(S) |-> messages[CHOOSE i \in S : Rank(i, S) = k]]

Kept(split) == At(InHead(split) \ Orphans(split))
Folded(split) == At(1 .. split \union Orphans(split))

\* The context items of the folded messages leave the front of messageIds.
IdsAfterFold(split) ==
  LET n == Len(Folded(split)) IN IF n >= Len(ids) THEN <<>> ELSE SubSeq(ids, n + 1, Len(ids))

\* resolveContextIds keeps the ids there are, by position, and creates the rest.
ResolvedIds == [i \in DOMAIN messages |-> IF i \in DOMAIN ids THEN ids[i] ELSE messages[i]]

\* What SaveLLMReducer writes.
WorkingState == [summary |-> summary, messages |-> messages, ids |-> ids]

\* What is left of restrictionInjectionCount by the state that summarize returns.
CountAfterFold == 0

\* EnforceToolsLLMReducer ends the turn.
CapReached == config.cap > 0 /\ count >= config.cap
-----------------------------------------------------------------------------
\* AgentNode.invoke enters the loop with the messages of the run.
StartRun ==
  /\ pc = "idle"
  /\ run < MaxRuns
  /\ run' = run + 1
  /\ config' \in Configs
  /\ messages' = <<[kind |-> "human", run |-> run + 1, turn |-> turn]>>
  /\ summary' = <<>>
  /\ ids' = <<>>
  /\ count' = 0
  /\ event' = "none"
  /\ terminate' = FALSE
  /\ finish' = FALSE
  /\ pc' = "load"
  /\ UNCHANGED <<saved, unread, answer, turn, buffered>>

Load ==
  /\ pc = "load"
  /\ messages' = Loaded
  /\ summary' = saved.summary
  /\ ids' = saved.ids \o ids
  /\ Route("summarize")
  /\ UNCHANGED <<saved, run, unread, config, count, answer, turn, event, signals, buffered>>

\* ... but when the read fails the run goes on with the incoming ones alone.
LoadFails ==
  /\ pc = "load"
  /\ "load" \in Faults
  /\ unread' = run
  /\ Route("summarize")
  /\ UNCHANGED <<saved, run, config, llmState, answer, turn, event, signals, buffered>>

\* Nothing to summarize: under the threshold, nothing to fold, or terminated.
SkipSummarize ==
  /\ pc = "summarize"
  /\ Route("call_model")
  /\ UNCHANGED <<saved, run, unread, config, llmState, answer, turn, event, signals, buffered>>

\* Over the threshold: the model is asked for a summary.
StartFold ==
  /\ pc = "summarize"
  /\ config.summarizes
  /\ ~terminate
  /\ messages # <<>>
  /\ pc' = "fold"
  /\ UNCHANGED <<saved, run, unread, config, llmState, answer, turn, event, signals, buffered>>

\* The summary arrives and is recorded.  The state that is returned has no meta.
Fold ==
  /\ pc = "fold"
  /\ \E split \in 0 .. Len(messages) :
       /\ Folded(split) # <<>>
       /\ summary' = summary \o Folded(split)
       /\ messages' = Kept(split)
       /\ ids' = IdsAfterFold(split)
  /\ count' = CountAfterFold
  /\ Route("call_model")
  /\ UNCHANGED <<saved, run, unread, config, answer, turn, event, signals, buffered>>
-----------------------------------------------------------------------------
\* CallModelLLMReducer resolves memory and context items and records the call.
StartModelCall ==
  /\ pc = "call_model"
  /\ event' = "running"
  /\ pc' = "started"
  /\ UNCHANGED <<saved, run, unread, config, llmState, answer, turn, signals, buffered>>

\* The event is published; the model is called unless the signal is active.
CallModel ==
  /\ pc = "started"
  /\ pc' = IF MayCallModel THEN "model" ELSE "cancel"
  /\ UNCHANGED <<saved, run, unread, config, llmState, answer, turn, event, signals, buffered>>

\* The model answers, with tool calls or without.
ModelAnswers ==
  /\ pc = "model"
  /\ ~terminate
  /\ turn < MaxTurns
  /\ turn' = turn + 1
  /\ answer' \in {"answer", "calls"}
  /\ pc' = "record"
  /\ UNCHANGED <<saved, run, unread, config, llmState, event, signals, buffered>>

\* The answer is dropped if the signal came first, and so is an error.
ModelCancelled ==
  /\ pc = "model"
  /\ terminate
  /\ pc' = "cancel"
  /\ UNCHANGED <<saved, run, unread, config, llmState, answer, turn, event, signals, buffered>>

\* The answer is persisted, the event completed, the state extended.
RecordAnswer ==
  /\ pc = "record"
  /\ event' = "success"
  /\ messages' = Append(messages, New(answer))
  /\ ids' = Append(ResolvedIds, New(answer))
  /\ answer' = "none"
  /\ Route(IF answer = "calls" THEN "call_tools" ELSE "save")
  /\ UNCHANGED <<saved, run, unread, config, summary, count, turn, signals, buffered>>

\* cancelAndReturn: the state stays what it was.
Cancel ==
  /\ pc = "cancel"
  /\ event' = "cancelled"
  /\ answer' = "none"
  /\ Route("save")
  /\ UNCHANGED <<saved, run, unread, config, llmState, turn, signals, buffered>>

\* The model call, or the recording of its answer, rejects: the catch block.
ModelFails ==
  /\ \/ pc = "model" /\ "llm" \in Faults
     \/ pc = "record" /\ "event" \in Faults
  /\ pc' = IF terminate THEN "cancel" ELSE "error"
  /\ UNCHANGED <<saved, run, unread, config, llmState, answer, turn, event, signals, buffered>>

\* The catch block completes the event and rethrows.
RecordError ==
  /\ pc = "error"
  /\ event' = "error"
  /\ answer' = "none"
  /\ pc' = "threw"
  /\ UNCHANGED <<saved, run, unread, config, llmState, turn, signals, buffered>>
-----------------------------------------------------------------------------
CallTools ==
  /\ pc = "call_tools"
  /\ pc' = IF terminate THEN "returned" ELSE "tools"
  /\ UNCHANGED <<saved, run, unread, config, llmState, answer, turn, event, signals, buffered>>

\* Every tool of the batch has returned; the finish tool may be among them.  A tool
\* that is unknown, is given bad arguments or fails has an error as its output.  The
\* outputs are dropped if the signal is active.
ToolsReturn ==
  /\ pc = "tools"
  /\ finish' \in {finish, TRUE}
  /\ pc' = IF MayKeepOutputs THEN "outputs" ELSE "returned"
  /\ UNCHANGED <<saved, run, unread, config, llmState, answer, turn, event, terminate, buffered>>

\* The outputs are persisted and appended, the enforcement counter is reset.
RecordOutputs ==
  /\ pc = "outputs"
  /\ messages' = Append(messages, New("outputs"))
  /\ ids' = Append(ids, New("outputs"))
  /\ count' = 0
  /\ Route("tools_save")
  /\ UNCHANGED <<saved, run, unread, config, summary, answer, turn, event, signals, buffered>>

\* SaveLLMReducer, then AfterToolsRouter, which looks at the finish signal only.
ToolsSave ==
  /\ pc = "tools_save"
  /\ saved' = WorkingState
  /\ \/ finish /\ pc' = "returned"
     \/ ~finish /\ pc' = "summarize"
     \/ ~finish /\ config.injects /\ buffered > 0 /\ pc' = "inject"
  /\ buffered' = IF pc' = "inject" THEN buffered - 1 ELSE buffered
  /\ UNCHANGED <<run, unread, config, llmState, answer, turn, event, signals>>

\* The drained messages are recorded and appended.
Inject ==
  /\ pc = "inject"
  /\ messages' = Append(messages, New("human"))
  /\ pc' = "summarize"
  /\ UNCHANGED <<saved, run, unread, config, summary, ids, count, answer, turn, event, signals, buffered>>

\* SaveLLMReducer behind an answer without tool calls.
Save ==
  /\ pc = "save"
  /\ saved' = WorkingState
  /\ Route(IF config.restricts THEN "enforceTools" ELSE "returned")
  /\ UNCHANGED <<run, unread, config, llmState, answer, turn, event, signals, buffered>>

\* EnforceToolsLLMReducer sends the model back with a restriction message ...
EnforceTools ==
  /\ pc = "enforceTools"
  /\ ~CapReached
  /\ messages' = Append(messages, New("restriction"))
  /\ count' = count + 1
  /\ Route("summarize")
  /\ UNCHANGED <<saved, run, unread, config, summary, ids, answer, turn, event, signals, buffered>>

\* ... until the cap is reached.
EndTurn ==
  /\ pc = "enforceTools"
  /\ CapReached
  /\ pc' = "returned"
  /\ UNCHANGED <<saved, run, unread, config, llmState, answer, turn, event, signals, buffered>>
-----------------------------------------------------------------------------
\* An awaited call rejects and no reducer catches it.
Throw ==
  /\ \/ pc = "fold" /\ Faults \intersect {"llm", "event"} # {}
     \/ pc \in {"call_model", "cancel", "error", "outputs"} /\ "event" \in Faults
     \/ pc \in {"tools_save", "save"} /\ "save" \in Faults
     \/ pc = "inject" /\ "inject" \in Faults
  /\ pc' = "threw"
  /\ answer' = "none"
  /\ UNCHANGED <<saved, run, unread, config, llmState, turn, event, signals, buffered>>

\* RunSignalsRegistry.activateTerminate, by a request or a closing cascade.
Terminate ==
  /\ pc \in Stages
  /\ ~terminate
  /\ terminate' = TRUE
  /\ UNCHANGED <<saved, run, unread, config, pc, llmState, answer, turn, event, finish, buffered>>

\* AgentNode.invoke completes the run; the thread is free for the next one.
EndRun ==
  /\ pc \in {"returned", "threw"}
  /\ pc' = "idle"
  /\ UNCHANGED <<saved, run, unread, config, llmState, answer, turn, event, signals, buffered>>

\* The process dies, and with it the state of the run.
Crash ==
  /\ pc \in Stages
  /\ "crash" \in Faults
  /\ pc' = "idle"
  /\ answer' = "none"
  /\ UNCHANGED <<saved, run, unread, config, llmState, turn, event, signals, buffered>>

\* The steps of the loop itself.
LoopStep ==
  \/ Load \/ SkipSummarize \/ Fold
  \/ StartModelCall \/ CallModel \/ ModelAnswers \/ ModelCancelled
  \/ RecordAnswer \/ Cancel \/ RecordError
  \/ CallTools \/ ToolsReturn \/ RecordOutputs \/ ToolsSave \/ Inject
  \/ Save \/ EnforceTools \/ EndTurn \/ EndRun

Next ==
  \/ StartRun \/ LoopStep \/ StartFold
  \/ LoadFails \/ ModelFails \/ Throw \/ Terminate \/ Crash

Spec == Init /\ [][Next]_vars

\* Awaited calls return; nothing is assumed of the model's answers.
FairSpec == Spec /\ WF_vars(LoopStep)
-----------------------------------------------------------------------------
(***************************************************************************)
(* Correctness.                                                            *)
(***************************************************************************)

\* Tool calls are followed at once by their outputs, outputs preceded by their
\* calls.
Matching(c, o) == c.kind = "calls" /\ o.kind = "outputs" /\ c.run = o.run /\ c.turn = o.turn
Paired(msgs) ==
  \A i \in DOMAIN msgs :
    /\ msgs[i].kind = "calls" => i < Len(msgs) /\ Matching(msgs[i], msgs[i + 1])
    /\ msgs[i].kind = "outputs" => i > 1 /\ Matching(msgs[i - 1], msgs[i])

\* Every conversation that is saved or put to the model has all its tool calls
\* answered and no output without its call, whenever runs are terminated, fail
\* or crash and wherever the summarizer splits the messages: a provider rejects
\* any other, and the thread would be stuck with it.
ToolCallsAnswered ==
  /\ Paired(saved.messages)
  /\ pc \in {"call_model", "started", "model"} => Paired(messages)

\* What the thread has saved, summarized or verbatim, is never lost or reordered
\* by a later save: load puts it ahead, summarization folds a prefix of it.  Only
\* a run that could not read it saves a conversation without it.
Content(c) == c.summary \o c.messages
ConversationKept ==
  [][unread = run \/ IsPrefix(Content(saved), Content(saved'))]_vars

\* The context items on record stay aligned with the messages they are of: they
\* are reused by position, so one message too many or too few at a fold, an
\* injection or a load would attribute every later item to the wrong message.
ContextAligned ==
  /\ saved.ids = saved.messages
  /\ pc \in Stages => IsPrefix(ids, messages)

\* A loop that returns on its own returns the state that was saved: no exit of
\* the graph leaves an answer or a tool output behind.
ReturnedIsSaved ==
  pc = "returned" /\ ~terminate => saved = WorkingState

\* The conversation is one the next run can go on from, in all three respects,
\* and what is saved and worked on is well formed.
ConversationSound == TypeOK /\ ToolCallsAnswered /\ ContextAligned /\ ReturnedIsSaved

\* The row of a model call is completed however the loop ends: as success,
\* cancelled or error.
ModelCallsCompleted == pc \in {"returned", "threw"} => event # "running"

\* A raised terminate signal ends the loop, even one whose model never calls
\* the tool it is restricted to.
TerminateStopsLoop == (terminate /\ pc \in Stages) ~> (pc \notin Stages)
=============================================================================
