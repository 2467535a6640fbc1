----------------------------- MODULE Delegation -----------------------------
(***************************************************************************)
(* How a run hands work to other agents.  The calls of one parent run go   *)
(* through the manage tool (ManageFunctionTool, ManageToolNode), which     *)
(* waits for what the worker sends to the channel of its subthread or has  *)
(* it forwarded to the parent, or through call_agent, which awaits the     *)
(* invocation itself.  CallAgentLinkingService notes at the event of a     *)
(* call which child thread and which run of it the call led to.            *)
(*                                                                         *)
(* The invocations of the worker are those of AgentThreads, with its       *)
(* default behaviour: messages that come while the thread is busy wait and *)
(* are taken together, and an invocation that throws takes nothing.        *)
(***************************************************************************)
EXTENDS Naturals, FiniteSets, Sequences

CONSTANTS
  Calls,      \* tool calls of the parent run, and messages of a user to a child
  Children,   \* the child threads
  NoCall,     \* the absence of a call
  Setups,     \* who calls what, and how the tools are configured
  Faults,     \* what may fail
  MaxFaults   \* bound on the number of failures, each of another kind

Tools == {"manage", "call_agent"}

(* sync is the mode of manage and the response of call_agent; timed says   *)
(* whether timeoutMs of manage is positive, fails whether anything fails.  *)
Setup == [tool : [Calls -> Tools \cup {"user", "none"}], child : [Calls -> Children],
          sync : BOOLEAN, timed : BOOLEAN, fails : BOOLEAN]

ASSUME DelegationAssumption ==
  /\ NoCall \notin Calls
  /\ IsFiniteSet(Calls)
  /\ Setups \subseteq Setup
  \* the alias of a subthread begins with the name of the tool
  /\ \A s \in Setups : \A c, d \in Calls :
       s.child[c] = s.child[d] => s.tool[c] = s.tool[d] \/ {s.tool[c], s.tool[d]} \cap {"user", "none"} # {}
  /\ Faults \subseteq {"event", "resolve", "link", "begin", "complete", "transport", "forward"}
  /\ MaxFaults \in Nat

VARIABLES
  setup,     \* the configuration in force
  \* --- rows of the database
  events,    \* calls with an event of the parent run, by startedAt
  link,      \* the metadata of the event of each call
  exists,    \* child threads with a row
  \* --- the calls
  stage,     \* what each call awaits
  answer,    \* how it ended
  by,        \* the child run whose text it returned, 0 if there is none
  \* --- memory of ManageToolNode
  waiter,    \* pendingWaiters: the call that waits for a child thread
  armed,     \* timeoutHandles: calls whose timer is set
  context,   \* invocationContexts: children with a known parent
  \* --- the worker
  buffer,    \* messages accepted while the child thread was busy
  runs,      \* its invocations, in the order they began
  \* --- history
  muddled,   \* calls that had no event, or began before another was linked
  faults     \* the kinds of failures so far

linkVars == <<events, link>>
callVars == <<stage, answer, by>>
nodeVars == <<waiter, armed, context>>
workVars == <<buffer, runs>>
vars == <<setup, linkVars, exists, callVars, nodeVars, workVars, muddled, faults>>

RunIds == 1..Len(runs)
Tool(c) == setup.tool[c]
Child(c) == setup.child[c]

NoLink == [child |-> {}, run |-> 0, status |-> "none"]
RowStatus == {"absent", "running", "finished", "terminated"}
Run == [thread : Children, batch : SUBSET Calls, caller : Calls \cup {NoCall},
        stage : {"begin", "loop", "complete", "failing", "send", "forward", "done"},
        status : RowStatus, says : {"nothing", "text"}, threw : BOOLEAN,
        reply : {"none", "given", "forwarded", "lost"}]

(* An invocation of a thread that is not over. *)
Busy(t) == \E r \in RunIds : runs[r].thread = t /\ runs[r].stage # "done"

(* A call waits for a child thread exactly while its waiter is registered  *)
(* there, and a timer is set only for a call that waits: a timer that      *)
(* outlived its call would take the waiter of a later one.  No thread has  *)
(* two invocations at once.                                                *)
TypeOK ==
  /\ setup \in Setups
  /\ events \in Seq(Calls)
  /\ link \in [Calls -> [child : {S \in SUBSET Children : Cardinality(S) <= 1},
                         run : 0..Len(runs), status : {"none", "queued"} \cup RowStatus]]
  /\ exists \subseteq Children
  /\ stage \in [Calls -> {"idle", "lookup", "create", "link", "send", "waiting", "done"}]
  /\ answer \in [Calls -> {"none", "reply", "error", "ack", "queued", "refused", "timeout",
                           "failed"}]
  /\ by \in [Calls -> 0..Len(runs)]
  /\ waiter \in [Children -> Calls \cup {NoCall}]
  /\ \A c \in Calls, t \in Children :
       waiter[t] = c <=> Tool(c) = "manage" /\ stage[c] = "waiting" /\ Child(c) = t
  /\ armed = {c \in Calls : setup.timed /\ Tool(c) = "manage" /\ stage[c] = "waiting"}
  /\ context \subseteq exists
  /\ buffer \in [Children -> SUBSET Calls]
  /\ runs \in Seq(Run)
  /\ \A r, q \in RunIds : r # q /\ runs[r].thread = runs[q].thread
                          => "done" \in {runs[r].stage, runs[q].stage}
  /\ muddled \subseteq Calls
  /\ faults \subseteq Faults

Init ==
  /\ setup \in Setups
  /\ events = << >> /\ link = [c \in Calls |-> NoLink]
  /\ exists = {}
  /\ stage = [c \in Calls |-> "idle"] /\ answer = [c \in Calls |-> "none"]
  /\ by = [c \in Calls |-> 0]
  /\ waiter = [t \in Children |-> NoCall] /\ armed = {} /\ context = {}
  /\ buffer = [t \in Children |-> {}] /\ runs = << >>
  /\ muddled = {} /\ faults = {}

Fault(kind) ==
  /\ setup.fails /\ kind \in Faults \ faults
  /\ Cardinality(faults) < MaxFaults
  /\ faults' = faults \cup {kind}

-----------------------------------------------------------------------------
(* The calls.  Those of one batch run concurrently, so that any of them    *)
(* may begin while others are under way.                                   *)

Goes(c, from, to) == stage[c] = from /\ stage' = [stage EXCEPT ![c] = to]
Ends(c, from, how) == Goes(c, from, "done") /\ answer' = [answer EXCEPT ![c] = how]

(* The calls of the same tool that are about to be linked. *)
Unlinked(c) == {d \in Calls \ {c} : /\ Tool(d) = Tool(c)
                                    /\ stage[d] \in {"lookup", "create", "link"}}

(* A call begins with its event (startToolExecution); one whose event      *)
(* cannot be recorded goes on.                                             *)
Begin(c) ==
  /\ Tool(c) \in Tools /\ Goes(c, "idle", "lookup")
  /\ \/ /\ events' = Append(events, c) /\ UNCHANGED faults
        /\ muddled' = muddled \cup (IF Unlinked(c) # {} THEN {c} \cup Unlinked(c) ELSE {})
     \/ /\ Fault("event") /\ UNCHANGED events
        /\ muddled' = muddled \cup {c} \cup {d \in Calls : Tool(d) = Tool(c)}
  /\ UNCHANGED <<setup, link, exists, answer, by, nodeVars, workVars>>

(* getOrCreateSubthreadByAlias looks for the thread and creates it later:  *)
(* the alias is unique, and of two calls that create it one fails.  The    *)
(* manage tool tries again with the sanitized alias if it differs from the *)
(* one given: here aliases are such that it does not.                      *)
LookUp(c) ==
  /\ Goes(c, "lookup", IF Child(c) \in exists THEN "link" ELSE "create")
  /\ UNCHANGED <<setup, linkVars, exists, answer, by, nodeVars, workVars, muddled, faults>>

Create(c) ==
  /\ \/ /\ Child(c) \notin exists
        /\ Goes(c, "create", "link") /\ exists' = exists \cup {Child(c)}
        /\ UNCHANGED <<answer, faults>>
     \/ /\ Child(c) \in exists /\ Ends(c, "create", "failed")
        /\ UNCHANGED <<exists, faults>>
     \/ /\ Fault("resolve") /\ Ends(c, "create", "failed")
        /\ UNCHANGED exists
  /\ UNCHANGED <<setup, linkVars, by, nodeVars, workVars, muddled>>

(* The event that began last, of those of the calls in S. *)
Latest(S) ==
  {events[i] : i \in {k \in DOMAIN events :
                       events[k] \in S /\ \A j \in DOMAIN events : j > k => events[j] \notin S}}

(* findLatestToolEvent: by the name of the tool only. *)
ToolEvent(c) == Latest({d \in Calls : Tool(d) = Tool(c)})

(* registerParentToolExecution overwrites what the event says. *)
LinkCall(c) ==
  /\ Goes(c, "link", "send")
  /\ \/ /\ link' = [d \in Calls |->
                      IF d \in ToolEvent(c)
                        THEN [child |-> {Child(c)}, run |-> 0, status |-> "queued"]
                        ELSE link[d]]
        /\ UNCHANGED faults
     \/ Fault("link") /\ UNCHANGED link
  /\ UNCHANGED <<setup, events, exists, answer, by, nodeVars, workVars, muddled>>

(* AgentNode.invoke of the child. *)
Fresh(t, batch, caller) ==
  [thread |-> t, batch |-> batch, caller |-> caller, stage |-> "begin", status |-> "absent",
   says |-> "nothing", threw |-> FALSE, reply |-> "none"]

Invoke(c, caller) ==
  IF Busy(Child(c))
    THEN /\ buffer' = [buffer EXCEPT ![Child(c)] = @ \cup {c}]
         /\ UNCHANGED runs
    ELSE /\ runs' = Append(runs, Fresh(Child(c), {c}, caller))
         /\ UNCHANGED buffer

(* Mutant: a second waiter takes the place of the first. *)
AwaitChildResponse_Replaces(c) ==
  /\ Goes(c, "send", "waiting") /\ UNCHANGED answer
  /\ waiter' = [waiter EXCEPT ![Child(c)] = c]
  /\ armed' = armed \cup (IF setup.timed THEN {c} ELSE {})

(* awaitChildResponse: one waiter for each child thread. *)
AwaitChildResponse(c) ==
  IF waiter[Child(c)] # NoCall
    THEN Ends(c, "send", "refused") /\ UNCHANGED <<waiter, armed>>
    ELSE /\ Goes(c, "send", "waiting") /\ UNCHANGED answer
         /\ waiter' = [waiter EXCEPT ![Child(c)] = c]
         /\ armed' = armed \cup (IF setup.timed THEN {c} ELSE {})

(* A call whose waiter is refused has invoked the worker all the same. *)
SendMessage(c) ==
  /\ Tool(c) = "manage"
  /\ context' = context \cup {Child(c)}
  /\ IF setup.sync THEN AwaitChildResponse(c)
                   ELSE Ends(c, "send", "ack") /\ UNCHANGED <<waiter, armed>>
  /\ Invoke(c, NoCall)
  /\ UNCHANGED <<setup, linkVars, exists, by, muddled, faults>>

CallAgent(c) ==
  /\ Tool(c) = "call_agent"
  /\ \/ setup.sync /\ Busy(Child(c)) /\ Ends(c, "send", "queued")
     \/ setup.sync /\ ~Busy(Child(c)) /\ Goes(c, "send", "waiting") /\ UNCHANGED answer
     \/ ~setup.sync /\ Ends(c, "send", "ack")
  /\ Invoke(c, IF setup.sync THEN c ELSE NoCall)
  /\ UNCHANGED <<setup, linkVars, exists, by, nodeVars, muddled, faults>>

(* A user writes to a child thread. *)
Write(c) ==
  /\ Tool(c) = "user" /\ Child(c) \in exists
  /\ Ends(c, "idle", "ack")
  /\ Invoke(c, NoCall)
  /\ UNCHANGED <<setup, linkVars, exists, by, nodeVars, muddled, faults>>

(* Mutant: the call goes on waiting without its waiter. *)
TimeOut_NotRejected(c) ==
  /\ c \in armed
  /\ armed' = armed \ {c} /\ waiter' = [waiter EXCEPT ![Child(c)] = NoCall]
  /\ UNCHANGED <<setup, linkVars, exists, callVars, context, workVars, muddled, faults>>

TimeOut(c) ==
  /\ c \in armed
  /\ armed' = armed \ {c} /\ waiter' = [waiter EXCEPT ![Child(c)] = NoCall]
  /\ stage' = [stage EXCEPT ![c] = "done"]
  /\ answer' = [answer EXCEPT ![c] = "timeout"]
  /\ UNCHANGED <<setup, linkVars, exists, by, context, workVars, muddled, faults>>

-----------------------------------------------------------------------------
(* The invocations of the child.  The run row and the link are written in  *)
(* one transaction.                                                        *)

Moves(r, from, to) == runs[r].stage = from /\ runs' = [runs EXCEPT ![r] = to]
Is(r, stg) == [runs[r] EXCEPT !.stage = stg]

(* The latest event with the child thread in its metadata. *)
ChildEvent(t) == Latest({d \in Calls : t \in link[d].child})

RunEvent(r) == {c \in Calls : link[c].run = r}

(* beginRunThread and onChildRunStarted; a failure has no run to report.   *)
BeginRun(r) ==
  /\ \/ /\ Moves(r, "begin", [Is(r, "loop") EXCEPT !.status = "running"])
        /\ link' = [c \in Calls |->
                      IF c \in ChildEvent(runs[r].thread)
                        THEN [link[c] EXCEPT !.run = r, !.status = "running"] ELSE link[c]]
        /\ UNCHANGED <<faults, buffer, stage, answer>>
     \/ /\ Fault("begin") /\ UNCHANGED <<link, buffer>>
        /\ Moves(r, "begin", [Is(r, "done") EXCEPT !.threw = TRUE])
        /\ stage' = [c \in Calls |-> IF c = runs[r].caller THEN "done" ELSE stage[c]]
        /\ answer' = [c \in Calls |-> IF c = runs[r].caller THEN "error" ELSE answer[c]]
  /\ UNCHANGED <<setup, events, exists, by, nodeVars, muddled>>

(* The loop returns, with or without a text, is terminated, or throws.     *)
EndLoop(r) ==
  /\ \/ \E says \in {"nothing", "text"} : Moves(r, "loop", [Is(r, "complete") EXCEPT !.says = says])
     \/ Moves(r, "loop", [Is(r, "failing") EXCEPT !.says = "text"])
  /\ UNCHANGED <<setup, linkVars, exists, callVars, nodeVars, buffer, muddled, faults>>

(* Mutant: the event is looked up by the child thread. *)
StatusAt_ChildThread(r, status) ==
  link' = [c \in Calls |-> IF c \in ChildEvent(runs[r].thread)
                             THEN [link[c] EXCEPT !.status = status] ELSE link[c]]

(* onChildRunCompleted. *)
StatusAt(r, status) ==
  link' = [c \in Calls |-> IF c \in RunEvent(r) THEN [link[c] EXCEPT !.status = status]
                                                ELSE link[c]]

(* completeRun: "terminated" in a run that was told to end, and after an   *)
(* error, when a failure to write the row is only logged.                  *)
CompleteRun(r) ==
  /\ \/ \E status \in {"finished", "terminated"} :
          /\ status = "terminated" => runs[r].says = "text"
          /\ Moves(r, "complete", [Is(r, "send") EXCEPT !.status = status])
          /\ StatusAt(r, status) /\ UNCHANGED faults
     \/ /\ Fault("complete") /\ UNCHANGED link
        /\ Moves(r, "complete", [Is(r, "failing") EXCEPT !.says = "text"])
  /\ UNCHANGED <<setup, events, exists, callVars, nodeVars, buffer, muddled>>

CompleteFailed(r) ==
  /\ \/ /\ Moves(r, "failing", [Is(r, "send") EXCEPT !.status = "terminated", !.threw = TRUE])
        /\ StatusAt(r, "terminated") /\ UNCHANGED faults
     \/ /\ Fault("complete") /\ UNCHANGED link
        /\ Moves(r, "failing", [Is(r, "send") EXCEPT !.threw = TRUE])
  /\ UNCHANGED <<setup, events, exists, callVars, nodeVars, buffer, muddled>>

(* The waiting messages are taken by the next invocation, unless this one  *)
(* threw.                                                                  *)
Drains(r, done) == ~done.threw /\ buffer[runs[r].thread] # {}

(* The end of invoke: who waits for its answer, or awaits the invocation   *)
(* itself, has it.  done is what is to be noted of the run.                *)
Exit(r, done) ==
  LET t == runs[r].thread
      over == [runs EXCEPT ![r] = [done EXCEPT !.stage = "done"]]
      told == {c \in Calls : c = done.caller \/ (done.reply = "given" /\ c = waiter[t])}
  IN /\ IF Drains(r, done)
          THEN /\ runs' = Append(over, Fresh(t, buffer[t], NoCall))
               /\ buffer' = [buffer EXCEPT ![t] = {}]
          ELSE runs' = over /\ UNCHANGED buffer
     /\ stage' = [c \in Calls |-> IF c \in told THEN "done" ELSE stage[c]]
     /\ answer' = [c \in Calls |-> IF c \notin told THEN answer[c]
                                   ELSE IF c = done.caller /\ done.threw THEN "error" ELSE "reply"]
     /\ by' = [c \in Calls |-> IF c \in told THEN r ELSE by[c]]

Resolve(t) ==
  /\ waiter' = [waiter EXCEPT ![t] = NoCall]
  /\ armed' = armed \ {waiter[t]}

(* The child threads with a manage node for a channel. *)
Channel(t) == \E c \in Calls : Tool(c) = "manage" /\ Child(c) = t

(* autoSendFinalResponse, sendTextToThread and sendToChannel: a text that  *)
(* nobody waits for is dropped in sync mode.                               *)
Send(r) ==
  LET t == runs[r].thread
      With(reply) == Exit(r, [runs[r] EXCEPT !.reply = reply])
      Lost == With("lost") /\ UNCHANGED nodeVars
      reaches == runs[r].says = "text" /\ Channel(t)
  IN /\ runs[r].stage = "send"
     /\ \/ ~reaches /\ With("none") /\ UNCHANGED <<nodeVars, faults>>
        \/ reaches /\ Fault("transport") /\ Lost
        \/ /\ reaches /\ waiter[t] # NoCall
           /\ With("given") /\ Resolve(t) /\ UNCHANGED <<context, faults>>
        \/ /\ reaches /\ waiter[t] = NoCall /\ (setup.sync \/ t \notin context)
           /\ Lost /\ UNCHANGED faults
        \/ /\ reaches /\ waiter[t] = NoCall /\ ~setup.sync /\ t \in context
           /\ Moves(r, "send", Is(r, "forward"))
           /\ UNCHANGED <<callVars, nodeVars, buffer, faults>>
  /\ UNCHANGED <<setup, linkVars, exists, muddled>>

(* forwardToParent awaits the invocation of the parent, if that begins one. *)
ForwardEnds(r) ==
  /\ runs[r].stage = "forward"
  /\ \/ Exit(r, [runs[r] EXCEPT !.reply = "forwarded"]) /\ UNCHANGED faults
     \/ Fault("forward") /\ Exit(r, [runs[r] EXCEPT !.reply = "lost"])
  /\ UNCHANGED <<setup, linkVars, exists, nodeVars, muddled>>

-----------------------------------------------------------------------------
Call(c) == \/ LookUp(c) \/ Create(c) \/ LinkCall(c)
           \/ stage[c] = "send" /\ (SendMessage(c) \/ CallAgent(c))

Invocation(r) == \/ BeginRun(r) \/ EndLoop(r) \/ CompleteRun(r) \/ CompleteFailed(r)
                 \/ Send(r) \/ ForwardEnds(r)

Next == \/ \E c \in Calls : Begin(c) \/ Call(c) \/ Write(c) \/ TimeOut(c)
        \/ \E r \in RunIds : Invocation(r)

Spec == Init /\ [][Next]_vars

(* What the process has begun it carries on, timers expire, and the loop   *)
(* of a child ends; calls and messages of users need not come.             *)
Fairness ==
  /\ \A c \in Calls : WF_vars(Call(c)) /\ WF_vars(TimeOut(c))
  /\ \A r \in 1..Cardinality(Calls) : WF_vars(r \in RunIds /\ Invocation(r))

FairSpec == Spec /\ Fairness

-----------------------------------------------------------------------------
(* A call returns what a run made of its own message; only where another   *)
(* message to the child was given up by its call, or came from a user, can *)
(* it be the text of another run, and never of one that a call waits for.  *)
(* Waiters and their timers belong together throughout (TypeOK).           *)
AnswersFit ==
  /\ TypeOK
  /\ \A c \in Calls : answer[c] = "reply" =>
      LET batch == runs[by[c]].batch IN
      \/ c \in batch
      \/ /\ \A d \in batch : stage[d] = "done"
         /\ \E d \in Calls \ {c} : /\ Child(d) = Child(c)
                                   /\ (Tool(d) = "user" \/ answer[d] \in {"timeout", "refused"})

(* The status shown at a call is that of the run it names: rows and links  *)
(* are written together, whatever calls and runs come in between.          *)
LinksFollowRuns ==
  \A c \in Calls : IF link[c].run = 0 THEN link[c].status \in {"none", "queued"}
                                      ELSE link[c].status = runs[link[c].run].status

(* A call that had an event of its own, and began when no other call of    *)
(* its tool was about to be linked, never shows the child of another.      *)
LinksOwnChild == \A c \in Calls \ muddled : link[c].child \subseteq {Child(c)}

(* Links are right in both respects. *)
LinksRight == LinksFollowRuns /\ LinksOwnChild

(* A run of the child that threw or whose text, if any, went nowhere. *)
Unanswered(t) ==
  \E r \in RunIds : /\ runs[r].thread = t /\ runs[r].stage = "done"
                    /\ (runs[r].threw \/ runs[r].reply \in {"none", "lost"})

(* A call ends; one that waits in manage without a timeout may do so only  *)
(* as long as every run of the child has an answer that arrives.  And what *)
(* a worker answers to a message sent asynchronously is forwarded to the   *)
(* parent, unless a run of the child has failed or its answer was lost.    *)
CallsAnswered ==
  \A c \in Calls :
    /\ stage[c] = "lookup" ~>
         (stage[c] = "done" \/ (Tool(c) = "manage" /\ ~setup.timed /\ Unanswered(Child(c))))
    /\ (Tool(c) = "manage" /\ answer[c] = "ack") ~>
         \/ \E r \in RunIds : c \in runs[r].batch /\ runs[r].reply = "forwarded"
         \/ Unanswered(Child(c))
=============================================================================
