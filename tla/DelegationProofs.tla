-------------------------- MODULE DelegationProofs --------------------------
(***************************************************************************)
(* Theorems about Delegation: what is noted at the event of a call is the  *)
(* child of that call and the status of the run it names, and what a call  *)
(* returns was made of its own message, or of one whose call gave it up.   *)
(***************************************************************************)
EXTENDS Delegation, FiniteSetTheorems, SequenceTheorems, TLAPS

\* The call has sent its message: it lies in the buffer of its thread, or an
\* invocation has taken it.
Taken(c) == \E r \in RunIds : c \in runs[r].batch
Sent(c) == c \in buffer[Child(c)] \/ Taken(c)

\* What a call knows at each stage.
CallsOK ==
  \A c \in Calls :
    /\ stage[c] \in {"link", "send", "waiting"} => Child(c) \in exists
    /\ stage[c] \in {"lookup", "create", "link", "send", "waiting"} => Tool(c) \in Tools
    /\ stage[c] \in {"idle", "lookup", "create", "link", "send"} => ~Sent(c)
    /\ answer[c] # "none" => stage[c] = "done"
    /\ Tool(c) = "manage" /\ stage[c] = "waiting" => setup.sync

\* The call waits for its answer, or has one that manage gives in sync mode.
Settled(c) == stage[c] = "waiting" \/ answer[c] \in {"refused", "timeout", "reply"}

SentOK ==
  \A c \in Calls : Sent(c) =>
    /\ Tool(c) \in Tools \cup {"user"}
    /\ Tool(c) = "manage" /\ setup.sync => Settled(c)

\* The text a call returns is that of a run that is over.
AnswersOK == \A c \in Calls : answer[c] = "reply" => by[c] \in RunIds /\ runs[by[c]].stage = "done"

\* A run works on messages to its thread, of which no other has any, and
\* call_agent waits for the run of its own message alone.
RunsOK ==
  \A r \in RunIds :
    /\ runs[r].batch # {}
    /\ \A d \in runs[r].batch : Child(d) = runs[r].thread
    /\ \A q \in RunIds : r # q => runs[r].batch \cap runs[q].batch = {}
    /\ runs[r].caller # NoCall =>
         /\ runs[r].batch = {runs[r].caller} /\ Tool(runs[r].caller) = "call_agent"
         /\ runs[r].stage # "done" => stage[runs[r].caller] = "waiting"

BufferOK ==
  \A t \in Children : \A d \in buffer[t] : Child(d) = t /\ ~Taken(d)

\* Each event is that of a call that has begun.
EventsOK ==
  /\ \A i, k \in DOMAIN events : i # k => events[i] # events[k]
  /\ \A i \in DOMAIN events : stage[events[i]] # "idle" /\ Tool(events[i]) \in Tools

\* A call without an event muddles all calls of its tool, and a call that is
\* still to be linked those of its tool that have a later event.
HasEvent(c) == \E i \in DOMAIN events : events[i] = c

MuddleOK ==
  /\ \A c, d \in Calls : Tool(c) \in Tools /\ Tool(d) = Tool(c) /\ stage[c] # "idle" /\ ~HasEvent(c)
                         => d \in muddled
  /\ \A i, k \in DOMAIN events :
       k < i /\ Tool(events[i]) = Tool(events[k]) /\ stage[events[k]] \in {"lookup", "create", "link"}
         => events[i] \in muddled

\* A run that is named at an event has its row.
LinksOK == \A c \in Calls : \A r \in RunIds : link[c].run = r => runs[r].stage # "begin"

\* A call that has the answer to a message of another.
GivenUp(c) == \E d \in Calls \ {c} : /\ Child(d) = Child(c)
                                     /\ (Tool(d) = "user" \/ answer[d] \in {"timeout", "refused"})

AnswersOwn ==
  \A c \in Calls : answer[c] = "reply" =>
    \/ c \in runs[by[c]].batch
    \/ (\A d \in runs[by[c]].batch : stage[d] = "done") /\ GivenUp(c)

DelegationInv ==
  /\ TypeOK /\ CallsOK /\ SentOK /\ AnswersOK /\ RunsOK /\ BufferOK /\ EventsOK /\ MuddleOK
  /\ LinksOK /\ LinksFollowRuns /\ LinksOwnChild /\ AnswersOwn

-----------------------------------------------------------------------------
\* What a step does to a run: it moves on, without its calls being told; it
\* cannot begin; or it ends, and its calls have their answer.
GoesOn(r, x) ==
  /\ x \in Run /\ x.thread = runs[r].thread /\ x.batch = runs[r].batch
  /\ x.caller = runs[r].caller /\ x.stage # "begin" /\ runs[r].stage # "done"

RunMoves(r) ==
  /\ UNCHANGED <<setup, events, exists, callVars, nodeVars, buffer, muddled>>
  /\ \E x \in Run :
       /\ GoesOn(r, x) /\ runs' = [runs EXCEPT ![r] = x]
       /\ \/ UNCHANGED link /\ x.status = runs[r].status
          \/ StatusAt(r, x.status)
          \/ /\ runs[r].stage = "begin" /\ x.status = "running"
             /\ link' = [c \in Calls |->
                  IF c \in ChildEvent(runs[r].thread)
                    THEN [link[c] EXCEPT !.run = r, !.status = "running"] ELSE link[c]]

BeginFails(r) ==
  /\ UNCHANGED <<setup, events, link, exists, by, nodeVars, buffer, muddled>>
  /\ \E x \in Run : /\ GoesOn(r, x) /\ x.stage = "done" /\ x.status = runs[r].status
                    /\ runs' = [runs EXCEPT ![r] = x]
  /\ stage' = [c \in Calls |-> IF c = runs[r].caller THEN "done" ELSE stage[c]]
  /\ answer' = [c \in Calls |-> IF c = runs[r].caller THEN "error" ELSE answer[c]]

Told(r, given) ==
  {c \in Calls : c = runs[r].caller \/ (given /\ c = waiter[runs[r].thread])}

\* The invocation ends, and the next one may take the buffer.
Passes(r) ==
  \E x \in Run :
    /\ GoesOn(r, x) /\ x.stage = "done" /\ x.status = runs[r].status
    /\ \/ runs' = [runs EXCEPT ![r] = x] /\ UNCHANGED buffer
       \/ /\ buffer[runs[r].thread] # {}
          /\ runs' = Append([runs EXCEPT ![r] = x],
                            Fresh(runs[r].thread, buffer[runs[r].thread], NoCall))
          /\ buffer' = [buffer EXCEPT ![runs[r].thread] = {}]

Tells(r, given) ==
  /\ stage' = [c \in Calls |-> IF c \in Told(r, given) THEN "done" ELSE stage[c]]
  /\ answer' = [c \in Calls |-> IF c \notin Told(r, given) THEN answer[c]
                                ELSE IF c = runs[r].caller /\ runs[r].threw THEN "error"
                                ELSE "reply"]
  /\ by' = [c \in Calls |-> IF c \in Told(r, given) THEN r ELSE by[c]]

RunEnds(r) ==
  /\ UNCHANGED <<setup, linkVars, exists, context, muddled>>
  /\ Passes(r)
  /\ \/ Tells(r, FALSE) /\ UNCHANGED nodeVars
     \/ Tells(r, TRUE) /\ waiter[runs[r].thread] # NoCall /\ Resolve(runs[r].thread)

\* What Exit does.
LEMMA ExitEnds ==
  ASSUME NEW r \in RunIds, runs \in Seq(Run), runs[r].stage # "done",
         NEW reply \in {"none", "given", "forwarded", "lost"},
         Exit(r, [runs[r] EXCEPT !.reply = reply])
  PROVE  Passes(r) /\ Tells(r, reply = "given")
<1> DEFINE done == [runs[r] EXCEPT !.reply = reply]
           x == [done EXCEPT !.stage = "done"]
<1>1. runs[r] \in Run
  BY DEF RunIds
<1>2. /\ x \in Run /\ x.thread = runs[r].thread /\ x.batch = runs[r].batch
      /\ x.caller = runs[r].caller /\ x.stage = "done" /\ x.status = runs[r].status
  BY <1>1 DEF Run
<1>3. done.caller = runs[r].caller /\ done.threw = runs[r].threw /\ done.reply = reply
  BY <1>1 DEF Run
<1>4. GoesOn(r, x)
  BY <1>2 DEF GoesOn
<1>5. \/ runs' = [runs EXCEPT ![r] = x] /\ UNCHANGED buffer
      \/ /\ buffer[runs[r].thread] # {}
         /\ runs' = Append([runs EXCEPT ![r] = x],
                           Fresh(runs[r].thread, buffer[runs[r].thread], NoCall))
         /\ buffer' = [buffer EXCEPT ![runs[r].thread] = {}]
  BY DEF Exit, Drains
<1>6. Passes(r)
  <2> HIDE DEF x
  <2> QED
    BY <1>2, <1>4, <1>5 DEF Passes
<1>7. Tells(r, reply = "given")
  <2>1. Told(r, reply = "given") =
          {c \in Calls : c = done.caller \/ (done.reply = "given" /\ c = waiter[runs[r].thread])}
    BY <1>3 DEF Told
  <2> QED
    BY <1>3, <2>1 DEF Exit, Tells
<1> QED
  BY <1>6, <1>7

\* A run that moves on to another stage, with what else is noted of it.
LEMMA RunMovesOn ==
  ASSUME NEW r \in RunIds, runs \in Seq(Run), NEW x \in Run, runs[r].stage # "done",
         x.thread = runs[r].thread, x.batch = runs[r].batch, x.caller = runs[r].caller,
         x.stage # "begin", runs' = [runs EXCEPT ![r] = x],
         \/ UNCHANGED link /\ x.status = runs[r].status
         \/ StatusAt(r, x.status),
         UNCHANGED <<setup, events, exists, callVars, nodeVars, buffer, muddled>>
  PROVE  RunMoves(r)
BY DEF RunMoves, GoesOn

\* A run begins, with its row and link, or cannot.
LEMMA BeginRunSteps ==
  ASSUME NEW r \in RunIds, runs \in Seq(Run), BeginRun(r)
  PROVE  RunMoves(r) \/ BeginFails(r)
<1>1. runs[r] \in Run
  BY DEF RunIds
<1>2. CASE /\ Moves(r, "begin", [Is(r, "loop") EXCEPT !.status = "running"])
           /\ link' = [c \in Calls |->
                IF c \in ChildEvent(runs[r].thread)
                  THEN [link[c] EXCEPT !.run = r, !.status = "running"] ELSE link[c]]
           /\ UNCHANGED <<faults, buffer, stage, answer>>
  <2> DEFINE x == [Is(r, "loop") EXCEPT !.status = "running"]
  <2>1. /\ x \in Run /\ x.thread = runs[r].thread /\ x.batch = runs[r].batch
        /\ x.caller = runs[r].caller /\ x.stage = "loop" /\ x.status = "running"
    BY <1>1 DEF Run, RowStatus, Is
  <2>2. runs' = [runs EXCEPT ![r] = x] /\ runs[r].stage = "begin"
    BY <1>2 DEF Moves
  <2> HIDE DEF x
  <2>3. UNCHANGED <<setup, events, exists, callVars, nodeVars, buffer, muddled>>
    BY <1>2 DEF BeginRun, callVars
  <2> QED
    BY <1>2, <2>1, <2>2, <2>3 DEF RunMoves, GoesOn
<1>3. CASE /\ UNCHANGED <<link, buffer>>
           /\ Moves(r, "begin", [Is(r, "done") EXCEPT !.threw = TRUE])
           /\ stage' = [c \in Calls |-> IF c = runs[r].caller THEN "done" ELSE stage[c]]
           /\ answer' = [c \in Calls |-> IF c = runs[r].caller THEN "error" ELSE answer[c]]
  <2> DEFINE x == [Is(r, "done") EXCEPT !.threw = TRUE]
  <2>1. /\ x \in Run /\ x.thread = runs[r].thread /\ x.batch = runs[r].batch
        /\ x.caller = runs[r].caller /\ x.stage = "done" /\ x.status = runs[r].status
    BY <1>1 DEF Run, Is
  <2>2. runs' = [runs EXCEPT ![r] = x] /\ runs[r].stage = "begin"
    BY <1>3 DEF Moves
  <2> HIDE DEF x
  <2> QED
    BY <1>3, <2>1, <2>2 DEF BeginRun, BeginFails, GoesOn
<1> QED
  BY <1>2, <1>3 DEF BeginRun

\* Its loop ends and its row is completed.
LEMMA LoopSteps ==
  ASSUME NEW r \in RunIds, runs \in Seq(Run), EndLoop(r) \/ CompleteRun(r) \/ CompleteFailed(r)
  PROVE  RunMoves(r)
<1>1. runs[r] \in Run
  BY DEF RunIds
<1>2. UNCHANGED <<setup, events, exists, callVars, nodeVars, buffer, muddled>>
  BY DEF EndLoop, CompleteRun, CompleteFailed, linkVars
<1>3. ASSUME NEW x \in Run, NEW from, from \in {"loop", "complete", "failing"}, Moves(r, from, x),
             x.thread = runs[r].thread, x.batch = runs[r].batch, x.caller = runs[r].caller,
             x.stage # "begin",
             \/ UNCHANGED link /\ x.status = runs[r].status
             \/ StatusAt(r, x.status)
      PROVE  RunMoves(r)
  BY <1>2, <1>3, RunMovesOn DEF Moves
<1>4. CASE EndLoop(r)
  <2>1. PICK says \in {"nothing", "text"}, stg \in {"complete", "failing"} :
          Moves(r, "loop", [Is(r, stg) EXCEPT !.says = says])
    BY <1>4 DEF EndLoop
  <2>2. PICK x : x = [Is(r, stg) EXCEPT !.says = says]
    OBVIOUS
  <2>3. /\ x \in Run /\ x.thread = runs[r].thread /\ x.batch = runs[r].batch
        /\ x.caller = runs[r].caller /\ x.stage = stg /\ x.status = runs[r].status
    BY <1>1, <2>2 DEF Run, Is
  <2>4. UNCHANGED link
    BY <1>4 DEF EndLoop, linkVars
  <2> QED
    BY <1>3, <2>1, <2>2, <2>3, <2>4
<1>5. CASE CompleteRun(r)
  <2>1. ASSUME NEW status \in {"finished", "terminated"},
               Moves(r, "complete", [Is(r, "send") EXCEPT !.status = status]), StatusAt(r, status)
        PROVE  RunMoves(r)
    <3>1. PICK x : x = [Is(r, "send") EXCEPT !.status = status]
      OBVIOUS
    <3>2. /\ x \in Run /\ x.thread = runs[r].thread /\ x.batch = runs[r].batch
          /\ x.caller = runs[r].caller /\ x.stage = "send" /\ x.status = status
      BY <1>1, <3>1 DEF Run, Is, RowStatus
    <3> QED
      BY <1>3, <2>1, <3>1, <3>2
  <2>2. CASE UNCHANGED link /\ Moves(r, "complete", [Is(r, "failing") EXCEPT !.says = "text"])
    <3>1. PICK x : x = [Is(r, "failing") EXCEPT !.says = "text"]
      OBVIOUS
    <3>2. /\ x \in Run /\ x.thread = runs[r].thread /\ x.batch = runs[r].batch
          /\ x.caller = runs[r].caller /\ x.stage = "failing" /\ x.status = runs[r].status
      BY <1>1, <3>1 DEF Run, Is
    <3> QED
      BY <1>3, <2>2, <3>1, <3>2
  <2> QED
    BY <1>5, <2>1, <2>2 DEF CompleteRun
<1>6. CASE CompleteFailed(r)
  <2>1. CASE /\ Moves(r, "failing", [Is(r, "send") EXCEPT !.status = "terminated", !.threw = TRUE])
             /\ StatusAt(r, "terminated")
    <3>1. PICK x : x = [Is(r, "send") EXCEPT !.status = "terminated", !.threw = TRUE]
      OBVIOUS
    <3>2. /\ x \in Run /\ x.thread = runs[r].thread /\ x.batch = runs[r].batch
          /\ x.caller = runs[r].caller /\ x.stage = "send" /\ x.status = "terminated"
      BY <1>1, <3>1 DEF Run, Is, RowStatus
    <3> QED
      BY <1>3, <2>1, <3>1, <3>2
  <2>2. CASE UNCHANGED link /\ Moves(r, "failing", [Is(r, "send") EXCEPT !.threw = TRUE])
    <3>1. PICK x : x = [Is(r, "send") EXCEPT !.threw = TRUE]
      OBVIOUS
    <3>2. /\ x \in Run /\ x.thread = runs[r].thread /\ x.batch = runs[r].batch
          /\ x.caller = runs[r].caller /\ x.stage = "send" /\ x.status = runs[r].status
      BY <1>1, <3>1 DEF Run, Is
    <3> QED
      BY <1>3, <2>2, <3>1, <3>2
  <2> QED
    BY <1>6, <2>1, <2>2 DEF CompleteFailed
<1> QED
  BY <1>4, <1>5, <1>6

\* What it says is sent, or forwarded, and it ends.
LEMMA SendSteps ==
  ASSUME NEW r \in RunIds, runs \in Seq(Run), Send(r) \/ ForwardEnds(r)
  PROVE  RunMoves(r) \/ RunEnds(r)
<1>1. runs[r] \in Run /\ runs[r].stage # "done"
  BY DEF RunIds, Send, ForwardEnds
<1>2. UNCHANGED <<setup, linkVars, exists, muddled>>
  BY DEF Send, ForwardEnds
<1>3. ASSUME NEW reply \in {"none", "forwarded", "lost"}, UNCHANGED nodeVars,
             Exit(r, [runs[r] EXCEPT !.reply = reply])
      PROVE  RunEnds(r)
  <2>1. Passes(r) /\ Tells(r, FALSE)
    <3>1. Passes(r) /\ Tells(r, reply = "given")
      BY <1>1, <1>3, ExitEnds
    <3>2. (reply = "given") = FALSE
      OBVIOUS
    <3> QED
      BY <3>1, <3>2
  <2> QED
    BY <1>2, <1>3, <2>1 DEF RunEnds, nodeVars
<1>4. CASE ForwardEnds(r)
  BY <1>3, <1>4 DEF ForwardEnds
<1>5. CASE Send(r)
  <2>1. CASE /\ waiter[runs[r].thread] # NoCall /\ Resolve(runs[r].thread) /\ UNCHANGED context
             /\ Exit(r, [runs[r] EXCEPT !.reply = "given"])
    <3>1. Passes(r) /\ Tells(r, "given" = "given")
      BY <1>1, <2>1, ExitEnds
    <3>2. Tells(r, TRUE)
      BY <3>1
    <3> QED
      BY <1>2, <2>1, <3>1, <3>2 DEF RunEnds
  <2>2. CASE Moves(r, "send", Is(r, "forward")) /\ UNCHANGED <<callVars, nodeVars, buffer, faults>>
    <3>1. PICK x : x = Is(r, "forward")
      OBVIOUS
    <3>2. /\ x \in Run /\ x.thread = runs[r].thread /\ x.batch = runs[r].batch
          /\ x.caller = runs[r].caller /\ x.stage = "forward" /\ x.status = runs[r].status
      BY <1>1, <3>1 DEF Run, Is
    <3>3. runs' = [runs EXCEPT ![r] = x] /\ UNCHANGED link
      BY <1>2, <2>2, <3>1 DEF Moves, linkVars
    <3>4. UNCHANGED <<setup, events, exists, callVars, nodeVars, buffer, muddled>>
      BY <1>2, <2>2 DEF linkVars
    <3> QED
      BY <1>1, <3>2, <3>3, <3>4, RunMovesOn
  <2>3. CASE Exit(r, [runs[r] EXCEPT !.reply = "none"]) /\ UNCHANGED nodeVars
    BY <1>3, <2>3
  <2>4. CASE Exit(r, [runs[r] EXCEPT !.reply = "lost"]) /\ UNCHANGED nodeVars
    BY <1>3, <2>4
  <2> QED
    BY <1>5, <2>1, <2>2, <2>3, <2>4 DEF Send
<1> QED
  BY <1>4, <1>5

\* No step of an invocation does more.
LEMMA InvocationSteps ==
  ASSUME NEW r \in RunIds, runs \in Seq(Run), Invocation(r)
  PROVE  RunMoves(r) \/ BeginFails(r) \/ RunEnds(r)
BY BeginRunSteps, LoopSteps, SendSteps DEF Invocation

-----------------------------------------------------------------------------
\* What a step does to the runs and the buffers: no run is lost; a call may
\* send its message, which is buffered or begins a run; and a run that ends
\* may begin another of what is in the buffer.
WorkTypes ==
  /\ buffer \in [Children -> SUBSET Calls]
  /\ runs \in Seq(Run)
  /\ \A r, q \in RunIds : r # q /\ runs[r].thread = runs[q].thread
                          => "done" \in {runs[r].stage, runs[q].stage}

Steady(q) ==
  /\ q \in RunIds'
  /\ runs'[q].thread = runs[q].thread /\ runs'[q].batch = runs[q].batch
  /\ runs'[q].caller = runs[q].caller
  /\ runs[q].stage = "done" => runs'[q] = runs[q]
  /\ runs'[q].stage = "begin" => runs[q].stage = "begin"

Kept ==
  /\ runs' \in Seq(Run) /\ RunIds' = RunIds /\ buffer' = buffer
  /\ \A q \in RunIds : Steady(q)

Begun(t, batch, caller) ==
  /\ runs' \in Seq(Run)
  /\ \E n \in Nat : /\ n \notin RunIds /\ RunIds' = RunIds \cup {n} /\ n # 0
                    /\ runs'[n] = Fresh(t, batch, caller)
  /\ \A q \in RunIds : Steady(q) /\ (runs'[q].thread = t => runs'[q].stage = "done")

\* A message is sent once, by a call that goes on to wait for the answer or
\* has one.
Sends(c) ==
  /\ \/ stage[c] = "idle" /\ Tool(c) = "user"
     \/ stage[c] = "send" /\ Tool(c) \in Tools
  /\ \/ /\ stage'[c] = "waiting" /\ answer'[c] = answer[c] /\ stage[c] = "send"
        /\ Tool(c) = "manage" => setup.sync
     \/ /\ stage'[c] = "done" /\ answer'[c] \in {"ack", "queued", "refused"}
        /\ Tool(c) = "manage" /\ setup.sync => answer'[c] = "refused"
  /\ by'[c] = by[c]

Accepted(c) ==
  /\ Sends(c) /\ runs' = runs
  /\ buffer' = [buffer EXCEPT ![Child(c)] = @ \cup {c}]

Started(c, caller) ==
  /\ Sends(c) /\ Begun(Child(c), {c}, caller) /\ buffer' = buffer
  /\ caller # NoCall => caller = c /\ Tool(c) = "call_agent" /\ stage'[c] = "waiting"

Drained(t) ==
  /\ buffer[t] # {} /\ Begun(t, buffer[t], NoCall)
  /\ buffer' = [buffer EXCEPT ![t] = {}]

\* No status of a run changes.
Quiet == \A q \in RunIds : runs'[q].status = runs[q].status

WorkMoves ==
  \/ Kept
  \/ \E c \in Calls : Accepted(c) \/ \E caller \in Calls \cup {NoCall} : Started(c, caller)
  \/ \E t \in Children : Drained(t)

\* A run goes on.
LEMMA GoesOnKeeps ==
  ASSUME WorkTypes, NEW r \in RunIds, NEW x \in Run, GoesOn(r, x),
         runs' = [runs EXCEPT ![r] = x], buffer' = buffer
  PROVE  Kept /\ \A q \in RunIds : runs'[q] = IF q = r THEN x ELSE runs[q]
<1>1. Len(runs) \in Nat /\ DOMAIN runs = RunIds /\ \A q \in RunIds : runs[q] \in Run
  BY DEF WorkTypes, RunIds
<1>2. /\ runs' \in Seq(Run) /\ Len(runs') = Len(runs)
      /\ \A q \in RunIds : runs'[q] = IF q = r THEN x ELSE runs[q]
  BY <1>1 DEF WorkTypes
<1>3. RunIds' = RunIds
  BY <1>2 DEF RunIds
<1> QED
  BY <1>2, <1>3 DEF Kept, Steady, GoesOn

\* An invocation begins of a thread that has none.
LEMMA AppendBegins ==
  ASSUME WorkTypes, NEW t \in Children, ~Busy(t), NEW batch \in SUBSET Calls,
         NEW caller \in Calls \cup {NoCall}, runs' = Append(runs, Fresh(t, batch, caller))
  PROVE  Begun(t, batch, caller) /\ Quiet
<1>1. /\ Len(runs) \in Nat /\ DOMAIN runs = RunIds
      /\ Fresh(t, batch, caller) \in Run
  BY DEF WorkTypes, RunIds, Fresh, Run, RowStatus
<1>2. /\ runs' \in Seq(Run) /\ Len(runs') = Len(runs) + 1
      /\ \A q \in RunIds : runs'[q] = runs[q]
      /\ runs'[Len(runs) + 1] = Fresh(t, batch, caller)
  BY <1>1, AppendProperties DEF WorkTypes, RunIds
<1>3. /\ RunIds' = RunIds \cup {Len(runs) + 1} /\ Len(runs) + 1 \notin RunIds
      /\ Len(runs) + 1 # 0
  BY <1>1, <1>2 DEF RunIds
<1>4. \A q \in RunIds : Steady(q) /\ (runs'[q].thread = t => runs'[q].stage = "done")
  BY <1>2, <1>3 DEF Steady, Busy
<1> QED
  BY <1>1, <1>2, <1>3, <1>4 DEF Begun, Quiet

\* A call sends its message.
LEMMA InvokeWork ==
  ASSUME WorkTypes, setup \in Setups, NEW c \in Calls, NEW caller \in Calls \cup {NoCall},
         Invoke(c, caller), Sends(c),
         caller # NoCall /\ ~Busy(Child(c)) =>
           caller = c /\ Tool(c) = "call_agent" /\ stage'[c] = "waiting"
  PROVE  WorkMoves /\ Quiet
<1>1. Child(c) \in Children
  BY DelegationAssumption DEF DelegationAssumption, Setup, Child
<1>2. CASE Busy(Child(c))
  BY <1>2 DEF Invoke, WorkMoves, Accepted, Quiet
<1>3. CASE ~Busy(Child(c))
  <2>1. Begun(Child(c), {c}, caller) /\ Quiet
    BY <1>1, <1>3, AppendBegins DEF Invoke
  <2> QED
    BY <1>3, <2>1 DEF Invoke, WorkMoves, Started
<1> QED
  BY <1>2, <1>3

\* A run ends, and the next may begin.
LEMMA PassesWork ==
  ASSUME WorkTypes, NEW r \in RunIds, Passes(r)
  PROVE  WorkMoves /\ Quiet /\ r \in RunIds' /\ runs'[r].stage = "done"
<1>1. PICK x \in Run :
        /\ GoesOn(r, x) /\ x.stage = "done" /\ x.status = runs[r].status
        /\ \/ runs' = [runs EXCEPT ![r] = x] /\ UNCHANGED buffer
           \/ /\ buffer[runs[r].thread] # {}
              /\ runs' = Append([runs EXCEPT ![r] = x],
                                Fresh(runs[r].thread, buffer[runs[r].thread], NoCall))
              /\ buffer' = [buffer EXCEPT ![runs[r].thread] = {}]
  BY DEF Passes
<1>2. CASE runs' = [runs EXCEPT ![r] = x] /\ UNCHANGED buffer
  <2>1. Kept /\ \A q \in RunIds : runs'[q] = IF q = r THEN x ELSE runs[q]
    BY <1>1, <1>2, GoesOnKeeps
  <2> QED
    BY <1>1, <2>1 DEF WorkMoves, Kept, Quiet
<1>3. CASE /\ buffer[runs[r].thread] # {}
           /\ runs' = Append([runs EXCEPT ![r] = x],
                             Fresh(runs[r].thread, buffer[runs[r].thread], NoCall))
           /\ buffer' = [buffer EXCEPT ![runs[r].thread] = {}]
  <2> DEFINE t == runs[r].thread
  <2>1. /\ Len(runs) \in Nat /\ DOMAIN runs = RunIds /\ \A q \in RunIds : runs[q] \in Run
        /\ t \in Children /\ buffer[t] \in SUBSET Calls
    <3>1. Len(runs) \in Nat /\ DOMAIN runs = RunIds /\ \A q \in RunIds : runs[q] \in Run
      BY DEF WorkTypes, RunIds
    <3> QED
      BY <3>1 DEF WorkTypes, Run
  <2>2. PICK over : over = [runs EXCEPT ![r] = x]
    OBVIOUS
  <2>3. PICK fresh : fresh = Fresh(t, buffer[t], NoCall)
    OBVIOUS
  <2>4. /\ over \in Seq(Run) /\ Len(over) = Len(runs)
        /\ \A q \in RunIds : over[q] = IF q = r THEN x ELSE runs[q]
    BY <2>1, <2>2 DEF WorkTypes
  <2>5. fresh \in Run
    BY <2>1, <2>3 DEF Fresh, Run, RowStatus
  <2>6. runs' = Append(over, fresh)
    BY <1>3, <2>2, <2>3
  <2>7. /\ runs' \in Seq(Run) /\ Len(runs') = Len(runs) + 1
        /\ \A q \in RunIds : runs'[q] = over[q]
        /\ runs'[Len(runs) + 1] = fresh
    BY <2>1, <2>4, <2>5, <2>6, AppendProperties DEF RunIds
  <2>8. /\ RunIds' = RunIds \cup {Len(runs) + 1} /\ Len(runs) + 1 \notin RunIds
        /\ Len(runs) + 1 # 0
    BY <2>1, <2>7 DEF RunIds
  <2>9. \A q \in RunIds : runs'[q] = IF q = r THEN x ELSE runs[q]
    BY <2>4, <2>7
  <2>10. \A q \in RunIds : Steady(q) /\ (runs'[q].thread = t => runs'[q].stage = "done")
    BY <1>1, <2>8, <2>9 DEF Steady, GoesOn, WorkTypes
  <2>11. Begun(t, buffer[t], NoCall)
    BY <2>1, <2>3, <2>7, <2>8, <2>10 DEF Begun
  <2> QED
    BY <1>1, <1>3, <2>1, <2>8, <2>9, <2>11 DEF WorkMoves, Drained, Quiet
<1> QED
  BY <1>1, <1>2, <1>3
-----------------------------------------------------------------------------
\* The types of the calls and of what waits for their answers.
CallTypes ==
  /\ setup \in Setups
  /\ exists \subseteq Children
  /\ stage \in [Calls -> {"idle", "lookup", "create", "link", "send", "waiting", "done"}]
  /\ answer \in [Calls -> {"none", "reply", "error", "ack", "queued", "refused", "timeout",
                           "failed"}]
  /\ by \in [Calls -> 0..Len(runs)]

WaitersOK ==
  /\ waiter \in [Children -> Calls \cup {NoCall}]
  /\ \A c \in Calls, t \in Children :
       waiter[t] = c <=> Tool(c) = "manage" /\ stage[c] = "waiting" /\ Child(c) = t
  /\ armed = {c \in Calls : setup.timed /\ Tool(c) = "manage" /\ stage[c] = "waiting"}

\* Everybody is configured.
LEMMA SetupTypes ==
  ASSUME setup \in Setups
  PROVE  /\ \A c \in Calls : Tool(c) \in Tools \cup {"user", "none"} /\ Child(c) \in Children
         /\ \A c, d \in Calls : Child(c) = Child(d) =>
              Tool(c) = Tool(d) \/ {Tool(c), Tool(d)} \cap {"user", "none"} # {}
         /\ setup.sync \in BOOLEAN /\ setup.timed \in BOOLEAN
<1>1. setup \in Setup
  BY DelegationAssumption DEF DelegationAssumption
<1>2. /\ \A c \in Calls : Tool(c) \in Tools \cup {"user", "none"} /\ Child(c) \in Children
      /\ setup.sync \in BOOLEAN /\ setup.timed \in BOOLEAN
  BY <1>1 DEF Setup, Tool, Child
<1>3. \A c, d \in Calls : Child(c) = Child(d) =>
        Tool(c) = Tool(d) \/ {Tool(c), Tool(d)} \cap {"user", "none"} # {}
  BY DelegationAssumption DEF DelegationAssumption, Tool, Child
<1> QED
  BY <1>2, <1>3

\* What a step does to a call.
Stays(c) == stage'[c] = stage[c] /\ answer'[c] = answer[c] /\ by'[c] = by[c]

Advances(c) ==
  /\ \/ stage[c] = "idle" /\ stage'[c] = "lookup" /\ Tool(c) \in Tools
     \/ stage[c] = "lookup" /\ stage'[c] = "link" /\ Child(c) \in exists
     \/ stage[c] = "lookup" /\ stage'[c] = "create"
     \/ stage[c] = "create" /\ stage'[c] = "link" /\ Child(c) \in exists'
     \/ stage[c] = "link" /\ stage'[c] = "send"
  /\ answer'[c] = answer[c] /\ by'[c] = by[c]

Fails(c) ==
  stage[c] = "create" /\ stage'[c] = "done" /\ answer'[c] = "failed" /\ by'[c] = by[c]

GivesUp(c) ==
  /\ stage[c] = "waiting" /\ stage'[c] = "done" /\ Tool(c) = "manage"
  /\ answer'[c] = "timeout" /\ by'[c] = by[c]

Answered(c) ==
  /\ stage[c] = "waiting" /\ stage'[c] = "done"
  /\ \E r \in RunIds :
       /\ runs[r].stage # "done" /\ r \in RunIds' /\ runs'[r].stage = "done"
       /\ \/ /\ c = runs[r].caller /\ answer'[c] \in {"error", "reply"}
             /\ by'[c] = r \/ (answer'[c] = "error" /\ by'[c] = by[c])
          \/ /\ Tool(c) = "manage" /\ Child(c) = runs[r].thread
             /\ answer'[c] = "reply" /\ by'[c] = r

CallMove(c) == Stays(c) \/ Advances(c) \/ Fails(c) \/ Sends(c) \/ GivesUp(c) \/ Answered(c)

\* One call goes on, whose new answer is the one given.
LEMMA OneCall ==
  ASSUME CallTypes, NEW c \in Calls, NEW to, NEW how,
         stage' = [stage EXCEPT ![c] = to], answer' = [answer EXCEPT ![c] = how], UNCHANGED by
  PROVE  /\ stage'[c] = to /\ answer'[c] = how /\ by'[c] = by[c]
         /\ \A d \in Calls \ {c} : Stays(d)
BY DEF CallTypes, Stays

\* A message of manage is sent.
LEMMA SendMessageMoves ==
  ASSUME CallTypes, NEW c \in Calls, stage[c] = "send", SendMessage(c)
  PROVE  Sends(c) /\ \A d \in Calls \ {c} : Stays(d)
<1>1. Tool(c) = "manage" /\ UNCHANGED by /\ setup.sync \in BOOLEAN
  BY SetupTypes DEF SendMessage, CallTypes
<1>2. CASE Ends(c, "send", "refused")
  BY <1>1, <1>2, OneCall DEF Ends, Goes, Sends, Tools
<1>3. CASE ~setup.sync /\ Ends(c, "send", "ack")
  BY <1>1, <1>3, OneCall DEF Ends, Goes, Sends, Tools
<1>4. CASE setup.sync /\ Goes(c, "send", "waiting") /\ UNCHANGED answer
  <2>1. stage'[c] = "waiting" /\ \A d \in Calls \ {c} : stage'[d] = stage[d]
    BY <1>4 DEF Goes, CallTypes
  <2> QED
    BY <1>1, <1>4, <2>1 DEF Sends, Stays, Tools
<1> QED
  BY <1>1, <1>2, <1>3, <1>4 DEF SendMessage, AwaitChildResponse

\* A message of call_agent is sent.
LEMMA CallAgentMoves ==
  ASSUME CallTypes, NEW c \in Calls, stage[c] = "send", CallAgent(c)
  PROVE  /\ Sends(c) /\ \A d \in Calls \ {c} : Stays(d)
         /\ setup.sync /\ ~Busy(Child(c)) => stage'[c] = "waiting"
<1>1. Tool(c) = "call_agent" /\ UNCHANGED by /\ setup.sync \in BOOLEAN
  BY SetupTypes DEF CallAgent, CallTypes
<1>2. CASE setup.sync /\ Busy(Child(c)) /\ Ends(c, "send", "queued")
  BY <1>1, <1>2, OneCall DEF Ends, Goes, Sends, Tools
<1>3. CASE ~setup.sync /\ Ends(c, "send", "ack")
  BY <1>1, <1>3, OneCall DEF Ends, Goes, Sends, Tools
<1>4. CASE Goes(c, "send", "waiting") /\ UNCHANGED answer
  <2>1. stage'[c] = "waiting" /\ \A d \in Calls \ {c} : stage'[d] = stage[d]
    BY <1>4 DEF Goes, CallTypes
  <2> QED
    BY <1>1, <1>4, <2>1 DEF Sends, Stays, Tools
<1> QED
  BY <1>1, <1>2, <1>3, <1>4 DEF CallAgent

\* A message of a user is sent.
LEMMA WriteMoves ==
  ASSUME CallTypes, NEW c \in Calls, Write(c)
  PROVE  Sends(c) /\ \A d \in Calls \ {c} : Stays(d)
BY OneCall DEF Write, Ends, Goes, Sends, Tools

\* A step that leaves the runs and buffers alone.
LEMMA WorkSame ==
  ASSUME WorkTypes, UNCHANGED workVars
  PROVE  WorkMoves /\ Quiet
BY DEF WorkTypes, workVars, WorkMoves, Kept, Steady, RunIds, Quiet

\* The calls of a run are told how it ended.
LEMMA TellsMoves ==
  ASSUME CallTypes, WaitersOK, RunsOK, NEW r \in RunIds, runs[r] \in Run, runs[r].stage # "done",
         r \in RunIds', runs'[r].stage = "done", NEW given \in BOOLEAN, Tells(r, given)
  PROVE  \A c \in Calls : CallMove(c)
<1> SUFFICES ASSUME NEW c \in Calls PROVE CallMove(c)
  OBVIOUS
<1>1. runs[r].thread \in Children
  BY DEF Run
<1>2. CASE c \notin Told(r, given)
  BY <1>2 DEF Tells, CallMove, Stays
<1>3. CASE c = runs[r].caller
  <2>1. stage[c] = "waiting"
    BY <1>3, DelegationAssumption DEF RunsOK, DelegationAssumption
  <2>2. c \in Told(r, given)
    BY <1>3 DEF Told
  <2>3. stage'[c] = "done" /\ by'[c] = r /\ answer'[c] \in {"error", "reply"}
    BY <2>2 DEF Tells
  <2> QED
    BY <1>3, <2>1, <2>3 DEF CallMove, Answered
<1>4. CASE c # runs[r].caller /\ c \in Told(r, given)
  <2>1. c = waiter[runs[r].thread]
    BY <1>4 DEF Told
  <2>2. stage[c] = "waiting" /\ Tool(c) = "manage" /\ Child(c) = runs[r].thread
    BY <1>1, <2>1 DEF WaitersOK
  <2>3. stage'[c] = "done" /\ by'[c] = r /\ answer'[c] = "reply"
    BY <1>4 DEF Tells
  <2> QED
    BY <2>2, <2>3 DEF CallMove, Answered
<1> QED
  BY <1>2, <1>3, <1>4

\* No step does more to the runs and to the calls.
LEMMA NextMoves ==
  ASSUME WorkTypes, CallTypes, WaitersOK, RunsOK, Next
  PROVE  WorkMoves /\ \A c \in Calls : CallMove(c)
<1>1. ASSUME NEW c \in Calls, Begin(c)
      PROVE  WorkMoves /\ \A d \in Calls : CallMove(d)
  <2>1. UNCHANGED workVars /\ UNCHANGED <<answer, by>>
    BY <1>1 DEF Begin
  <2>2. Advances(c) /\ \A d \in Calls \ {c} : Stays(d)
    BY <1>1, <2>1 DEF Begin, Goes, Advances, Stays, CallTypes
  <2> QED
    BY <2>1, <2>2, WorkSame DEF CallMove
<1>2. ASSUME NEW c \in Calls, LookUp(c)
      PROVE  WorkMoves /\ \A d \in Calls : CallMove(d)
  <2>1. UNCHANGED workVars /\ UNCHANGED <<answer, by>>
    BY <1>2 DEF LookUp
  <2>2. Advances(c) /\ \A d \in Calls \ {c} : Stays(d)
    BY <1>2, <2>1 DEF LookUp, Goes, Advances, Stays, CallTypes
  <2> QED
    BY <2>1, <2>2, WorkSame DEF CallMove
<1>3. ASSUME NEW c \in Calls, Create(c)
      PROVE  WorkMoves /\ \A d \in Calls : CallMove(d)
  <2>1. UNCHANGED workVars /\ UNCHANGED by
    BY <1>3 DEF Create
  <2>2. CASE Goes(c, "create", "link") /\ exists' = exists \cup {Child(c)} /\ UNCHANGED answer
    <3>1. Advances(c) /\ \A d \in Calls \ {c} : Stays(d)
      BY <2>1, <2>2 DEF Goes, Advances, Stays, CallTypes
    <3> QED
      BY <2>1, <3>1, WorkSame DEF CallMove
  <2>3. CASE Ends(c, "create", "failed")
    <3>1. Fails(c) /\ \A d \in Calls \ {c} : Stays(d)
      BY <2>1, <2>3, OneCall DEF Ends, Goes, Fails
    <3> QED
      BY <2>1, <3>1, WorkSame DEF CallMove
  <2> QED
    BY <1>3, <2>2, <2>3 DEF Create
<1>4. ASSUME NEW c \in Calls, LinkCall(c)
      PROVE  WorkMoves /\ \A d \in Calls : CallMove(d)
  <2>1. UNCHANGED workVars /\ UNCHANGED <<answer, by>>
    BY <1>4 DEF LinkCall
  <2>2. Advances(c) /\ \A d \in Calls \ {c} : Stays(d)
    BY <1>4, <2>1 DEF LinkCall, Goes, Advances, Stays, CallTypes
  <2> QED
    BY <2>1, <2>2, WorkSame DEF CallMove
<1>5. ASSUME NEW c \in Calls, stage[c] = "send", SendMessage(c)
      PROVE  WorkMoves /\ \A d \in Calls : CallMove(d)
  <2>1. Sends(c) /\ \A d \in Calls \ {c} : Stays(d)
    BY <1>5, SendMessageMoves
  <2>2. Invoke(c, NoCall) /\ setup \in Setups
    BY <1>5 DEF SendMessage, CallTypes
  <2>3. WorkMoves
    BY <2>1, <2>2, InvokeWork
  <2> QED
    BY <2>1, <2>3 DEF CallMove
<1>6. ASSUME NEW c \in Calls, stage[c] = "send", CallAgent(c)
      PROVE  WorkMoves /\ \A d \in Calls : CallMove(d)
  <2>1. /\ Sends(c) /\ \A d \in Calls \ {c} : Stays(d)
        /\ setup.sync /\ ~Busy(Child(c)) => stage'[c] = "waiting"
    BY <1>6, CallAgentMoves
  <2>2. PICK caller \in Calls \cup {NoCall} : caller = IF setup.sync THEN c ELSE NoCall
    OBVIOUS
  <2>3. /\ Invoke(c, caller) /\ setup \in Setups /\ Tool(c) = "call_agent"
        /\ caller # NoCall => caller = c /\ setup.sync
    BY <1>6, <2>2 DEF CallAgent, CallTypes
  <2>4. WorkMoves
    BY <2>1, <2>3, InvokeWork
  <2> QED
    BY <2>1, <2>4 DEF CallMove
<1>7. ASSUME NEW c \in Calls, Write(c)
      PROVE  WorkMoves /\ \A d \in Calls : CallMove(d)
  <2>1. Sends(c) /\ \A d \in Calls \ {c} : Stays(d)
    BY <1>7, WriteMoves
  <2>2. Invoke(c, NoCall) /\ setup \in Setups
    BY <1>7 DEF Write, CallTypes
  <2>3. WorkMoves
    BY <2>1, <2>2, InvokeWork
  <2> QED
    BY <2>1, <2>3 DEF CallMove
<1>8. ASSUME NEW c \in Calls, TimeOut(c)
      PROVE  WorkMoves /\ \A d \in Calls : CallMove(d)
  <2>1. UNCHANGED workVars /\ UNCHANGED by
    BY <1>8 DEF TimeOut
  <2>2. stage[c] = "waiting" /\ Tool(c) = "manage"
    BY <1>8 DEF TimeOut, WaitersOK
  <2>3. GivesUp(c) /\ \A d \in Calls \ {c} : Stays(d)
    BY <1>8, <2>1, <2>2, OneCall DEF TimeOut, GivesUp
  <2> QED
    BY <2>1, <2>3, WorkSame DEF CallMove
<1>9. ASSUME NEW r \in RunIds, Invocation(r)
      PROVE  WorkMoves /\ \A d \in Calls : CallMove(d)
  <2>1. runs \in Seq(Run) /\ runs[r] \in Run
    BY DEF WorkTypes, RunIds
  <2>2. CASE RunMoves(r)
    <3>1. PICK x \in Run : GoesOn(r, x) /\ runs' = [runs EXCEPT ![r] = x] /\ buffer' = buffer
      BY <2>2 DEF RunMoves
    <3>2. Kept
      BY <3>1, GoesOnKeeps
    <3>3. \A d \in Calls : Stays(d)
      BY <2>2 DEF RunMoves, callVars, Stays
    <3> QED
      BY <3>2, <3>3 DEF WorkMoves, CallMove
  <2>3. CASE BeginFails(r)
    <3>1. PICK x \in Run : /\ GoesOn(r, x) /\ runs' = [runs EXCEPT ![r] = x] /\ buffer' = buffer
                          /\ x.stage = "done"
      BY <2>3 DEF BeginFails
    <3>2. Kept /\ \A q \in RunIds : runs'[q] = IF q = r THEN x ELSE runs[q]
      BY <3>1, GoesOnKeeps
    <3>3. runs[r].stage # "done" /\ r \in RunIds' /\ runs'[r].stage = "done"
      BY <3>1, <3>2 DEF Kept, GoesOn
    <3>4. ASSUME NEW d \in Calls PROVE CallMove(d)
      <4>1. CASE d = runs[r].caller
        <5>1. stage[d] = "waiting"
          BY <3>3, <4>1, DelegationAssumption DEF RunsOK, DelegationAssumption
        <5>2. stage'[d] = "done" /\ answer'[d] = "error" /\ by'[d] = by[d]
          BY <2>3, <4>1 DEF BeginFails
        <5> QED
          BY <3>3, <4>1, <5>1, <5>2 DEF CallMove, Answered
      <4>2. CASE d # runs[r].caller
        BY <2>3, <4>2 DEF BeginFails, CallMove, Stays
      <4> QED
        BY <4>1, <4>2
    <3> QED
      BY <3>2, <3>4 DEF WorkMoves
  <2>4. CASE RunEnds(r)
    <3>1. WorkMoves /\ r \in RunIds' /\ runs'[r].stage = "done" /\ runs[r].stage # "done"
      BY <2>4, PassesWork DEF RunEnds, Passes, GoesOn
    <3>2. PICK given \in BOOLEAN : Tells(r, given)
      BY <2>4 DEF RunEnds
    <3>3. \A d \in Calls : CallMove(d)
      BY <2>1, <3>1, <3>2, TellsMoves
    <3> QED
      BY <3>1, <3>3
  <2> QED
    BY <1>9, <2>1, <2>2, <2>3, <2>4, InvocationSteps
<1> QED
  BY <1>1, <1>2, <1>3, <1>4, <1>5, <1>6, <1>7, <1>8, <1>9 DEF Next, Call

-----------------------------------------------------------------------------
\* What else a step keeps: the configuration, the threads and the history.
Functional(f) == f = [c \in Calls |-> f[c]]

RestTypes == context \subseteq exists /\ muddled \subseteq Calls /\ faults \subseteq Faults

RestMoves ==
  /\ setup' = setup /\ exists \subseteq exists' /\ exists' \subseteq Children
  /\ muddled \subseteq muddled' /\ RestTypes'
  /\ Functional(stage') /\ Functional(answer') /\ Functional(by')

\* No step does more to the rest.
LEMMA NextRest ==
  ASSUME WorkTypes, CallTypes, CallsOK, RestTypes, Next
  PROVE  RestMoves
<1>1. /\ \A c \in Calls : Child(c) \in Children
      /\ Functional(stage) /\ Functional(answer) /\ Functional(by)
  BY SetupTypes DEF CallTypes, Functional
<1>2. ASSUME NEW f, Functional(f), NEW c, NEW v PROVE Functional([f EXCEPT ![c] = v])
  BY <1>2 DEF Functional
<1>3. ASSUME NEW c, NEW from, NEW to, Goes(c, from, to) PROVE Functional(stage')
  BY <1>1, <1>2, <1>3 DEF Goes
<1>4. ASSUME NEW c, NEW from, NEW how, Ends(c, from, how) PROVE Functional(stage') /\ Functional(answer')
  BY <1>1, <1>2, <1>3, <1>4 DEF Ends
<1>5. ASSUME NEW kind, Fault(kind), faults \subseteq Faults PROVE faults' \subseteq Faults
  BY <1>5 DEF Fault
<1>6. ASSUME NEW c \in Calls, Begin(c) PROVE RestMoves
  <2>1. /\ UNCHANGED <<setup, exists, context, answer, by>>
        /\ muddled \subseteq muddled' /\ muddled' \subseteq Calls
    BY <1>6 DEF Begin, Unlinked, nodeVars, RestTypes
  <2>2. faults' \subseteq Faults
    BY <1>5, <1>6 DEF Begin, RestTypes
  <2>3. Functional(stage')
    BY <1>3, <1>6 DEF Begin
  <2> QED
    BY <1>1, <2>1, <2>2, <2>3 DEF RestMoves, RestTypes, CallTypes
<1>7. ASSUME NEW c \in Calls, LookUp(c) PROVE RestMoves
  <2>1. UNCHANGED <<setup, exists, context, answer, by, muddled, faults>>
    BY <1>7 DEF LookUp, nodeVars
  <2>2. Functional(stage')
    BY <1>3, <1>7 DEF LookUp
  <2> QED
    BY <1>1, <2>1, <2>2 DEF RestMoves, RestTypes, CallTypes
<1>8. ASSUME NEW c \in Calls, Create(c) PROVE RestMoves
  <2>1. UNCHANGED <<setup, context, by, muddled>>
    BY <1>8 DEF Create, nodeVars
  <2>2. exists \subseteq exists' /\ exists' \subseteq Children
    BY <1>1, <1>8 DEF Create, CallTypes
  <2>3. faults' \subseteq Faults
    BY <1>5, <1>8 DEF Create, RestTypes
  <2>4. Functional(stage') /\ Functional(answer')
    BY <1>1, <1>3, <1>4, <1>8 DEF Create
  <2> QED
    BY <1>1, <2>1, <2>2, <2>3, <2>4 DEF RestMoves, RestTypes, CallTypes
<1>9. ASSUME NEW c \in Calls, LinkCall(c) PROVE RestMoves
  <2>1. UNCHANGED <<setup, exists, context, answer, by, muddled>>
    BY <1>9 DEF LinkCall, nodeVars
  <2>2. faults' \subseteq Faults
    BY <1>5, <1>9 DEF LinkCall, RestTypes
  <2>3. Functional(stage')
    BY <1>3, <1>9 DEF LinkCall
  <2> QED
    BY <1>1, <2>1, <2>2, <2>3 DEF RestMoves, RestTypes, CallTypes
<1>10. ASSUME NEW c \in Calls, stage[c] = "send", SendMessage(c) PROVE RestMoves
  <2>1. UNCHANGED <<setup, exists, by, muddled, faults>>
    BY <1>10 DEF SendMessage
  <2>2. context' = context \cup {Child(c)} /\ Child(c) \in exists
    BY <1>10 DEF SendMessage, CallsOK
  <2>3. Functional(stage') /\ Functional(answer')
    BY <1>1, <1>3, <1>4, <1>10 DEF SendMessage, AwaitChildResponse
  <2> QED
    BY <1>1, <2>1, <2>2, <2>3 DEF RestMoves, RestTypes, CallTypes
<1>11. ASSUME NEW c \in Calls, CallAgent(c) PROVE RestMoves
  <2>1. UNCHANGED <<setup, exists, context, by, muddled, faults>>
    BY <1>11 DEF CallAgent, nodeVars
  <2>2. Functional(stage') /\ Functional(answer')
    BY <1>1, <1>3, <1>4, <1>11 DEF CallAgent
  <2> QED
    BY <1>1, <2>1, <2>2 DEF RestMoves, RestTypes, CallTypes
<1>12. ASSUME NEW c \in Calls, Write(c) PROVE RestMoves
  <2>1. UNCHANGED <<setup, exists, context, by, muddled, faults>>
    BY <1>12 DEF Write, nodeVars
  <2>2. Functional(stage') /\ Functional(answer')
    BY <1>4, <1>12 DEF Write
  <2> QED
    BY <1>1, <2>1, <2>2 DEF RestMoves, RestTypes, CallTypes
<1>13. ASSUME NEW c \in Calls, TimeOut(c) PROVE RestMoves
  <2>1. UNCHANGED <<setup, exists, context, by, muddled, faults>>
    BY <1>13 DEF TimeOut
  <2>2. Functional(stage') /\ Functional(answer')
    BY <1>1, <1>2, <1>13 DEF TimeOut
  <2> QED
    BY <1>1, <2>1, <2>2 DEF RestMoves, RestTypes, CallTypes
<1>14. ASSUME NEW r \in RunIds, Invocation(r) PROVE RestMoves
  <2>1. faults' \subseteq Faults
    <3>1. CASE UNCHANGED faults
      BY <3>1 DEF RestTypes
    <3>2. CASE \E kind \in {"begin", "complete", "transport", "forward"} : Fault(kind)
      BY <1>5, <3>2 DEF RestTypes
    <3> QED
      BY <1>14, <3>1, <3>2 DEF Invocation, BeginRun, EndLoop, CompleteRun, CompleteFailed, Send, ForwardEnds
  <2>2. UNCHANGED <<setup, exists, context, muddled>>
    BY <1>14, InvocationSteps DEF RunMoves, BeginFails, RunEnds, nodeVars, WorkTypes
  <2>3. Functional(stage') /\ Functional(answer') /\ Functional(by')
    <3>1. CASE RunMoves(r)
      BY <1>1, <3>1 DEF RunMoves, callVars
    <3>2. CASE BeginFails(r)
      BY <1>1, <3>2 DEF BeginFails, Functional
    <3>3. CASE RunEnds(r)
      BY <3>3 DEF RunEnds, Tells, Functional
    <3> QED
      BY <1>14, <3>1, <3>2, <3>3, InvocationSteps DEF WorkTypes
  <2> QED
    BY <1>1, <2>1, <2>2, <2>3 DEF RestMoves, RestTypes, CallTypes
<1> QED
  BY <1>6, <1>7, <1>8, <1>9, <1>10, <1>11, <1>12, <1>13, <1>14 DEF Next, Call

\* A step leaves a call with one of the stages and answers it may have.
LEMMA NextCallTypes ==
  ASSUME CallTypes, WorkTypes, WorkMoves, RestMoves, \A c \in Calls : CallMove(c)
  PROVE  CallTypes'
<1> DEFINE Stages == {"idle", "lookup", "create", "link", "send", "waiting", "done"}
           Answers == {"none", "reply", "error", "ack", "queued", "refused", "timeout", "failed"}
<1>1. Len(runs) \in Nat /\ Len(runs') \in Nat /\ RunIds \subseteq RunIds'
  <2>1. runs' \in Seq(Run)
    BY DEF WorkTypes, WorkMoves, Kept, Accepted, Started, Drained, Begun
  <2>2. runs' = runs => RunIds' = RunIds
    BY DEF RunIds
  <2>3. RunIds \subseteq RunIds'
    BY <2>2 DEF WorkMoves, Kept, Accepted, Started, Drained, Begun
  <2> QED
    BY <2>1, <2>3 DEF WorkTypes
<1>2. Len(runs) <= Len(runs')
  <2>1. CASE Len(runs) = 0
    BY <1>1, <2>1
  <2>2. CASE Len(runs) # 0
    <3>1. Len(runs) \in RunIds
      BY <1>1, <2>2 DEF RunIds
    <3> QED
      BY <1>1, <3>1 DEF RunIds
  <2> QED
    BY <2>1, <2>2
<1>3. ASSUME NEW c \in Calls
      PROVE  stage'[c] \in Stages /\ answer'[c] \in Answers /\ by'[c] \in 0..Len(runs')
  <2>1. stage[c] \in Stages /\ answer[c] \in Answers /\ by[c] \in 0..Len(runs)
    BY DEF CallTypes
  <2>2. CallMove(c)
    OBVIOUS
  <2>3. stage'[c] \in Stages
    BY <2>1, <2>2 DEF CallMove, Stays, Advances, Fails, Sends, GivesUp, Answered
  <2>4. answer'[c] \in Answers
    BY <2>1, <2>2 DEF CallMove, Stays, Advances, Fails, Sends, GivesUp, Answered
  <2>5. by'[c] = by[c] \/ by'[c] \in RunIds'
    BY <2>2 DEF CallMove, Stays, Advances, Fails, Sends, GivesUp, Answered
  <2>6. by'[c] \in 0..Len(runs')
    BY <1>1, <1>2, <2>1, <2>5 DEF RunIds
  <2> QED
    BY <2>3, <2>4, <2>6
<1> HIDE DEF Stages, Answers
<1>4. /\ stage' \in [Calls -> Stages] /\ answer' \in [Calls -> Answers]
      /\ by' \in [Calls -> 0..Len(runs')]
  BY <1>3 DEF RestMoves, Functional
<1> QED
  BY <1>4 DEF RestMoves, CallTypes, Stages, Answers

\* A thread has one invocation at a time.
LEMMA NextWorkTypes ==
  ASSUME WorkTypes, CallTypes, WorkMoves
  PROVE  WorkTypes'
<1>1. /\ \A c \in Calls : Child(c) \in Children
      /\ DOMAIN runs = RunIds
  BY SetupTypes DEF CallTypes, WorkTypes, RunIds
<1>2. CASE Kept
  BY <1>2 DEF Kept, WorkTypes, Steady
<1>3. ASSUME NEW c \in Calls, Accepted(c) PROVE WorkTypes'
  <2>1. buffer' \in [Children -> SUBSET Calls]
    BY <1>1, <1>3 DEF Accepted, WorkTypes
  <2>2. runs' = runs /\ RunIds' = RunIds
    BY <1>3 DEF Accepted, RunIds
  <2> QED
    BY <2>1, <2>2 DEF WorkTypes
<1>4. ASSUME NEW t, NEW batch, NEW caller, Begun(t, batch, caller), buffer' \in [Children -> SUBSET Calls]
      PROVE  WorkTypes'
  <2>1. PICK n \in Nat : n \notin RunIds /\ RunIds' = RunIds \cup {n} /\ runs'[n] = Fresh(t, batch, caller)
    BY <1>4 DEF Begun
  <2>2. runs'[n].thread = t
    BY <2>1 DEF Fresh
  <2>3. ASSUME NEW r \in RunIds', NEW q \in RunIds', r # q, runs'[r].thread = runs'[q].thread
        PROVE  "done" \in {runs'[r].stage, runs'[q].stage}
    <3>1. CASE r \in RunIds /\ q \in RunIds
      BY <1>4, <2>3, <3>1 DEF Begun, Steady, WorkTypes
    <3>2. CASE r = n /\ q \in RunIds
      BY <1>4, <2>2, <2>3, <3>2 DEF Begun
    <3>3. CASE r \in RunIds /\ q = n
      BY <1>4, <2>2, <2>3, <3>3 DEF Begun
    <3> QED
      BY <2>1, <2>3, <3>1, <3>2, <3>3
  <2> QED
    BY <1>4, <2>3 DEF WorkTypes, Begun
<1>5. ASSUME NEW c \in Calls, NEW caller, Started(c, caller) PROVE WorkTypes'
  BY <1>4, <1>5 DEF Started, WorkTypes
<1>6. ASSUME NEW t \in Children, Drained(t) PROVE WorkTypes'
  BY <1>4, <1>6 DEF Drained, WorkTypes
<1> QED
  BY <1>2, <1>3, <1>5, <1>6 DEF WorkMoves

\* A step that takes no call of manage into or out of its wait.
LEMMA WaitersSame ==
  ASSUME WaitersOK, setup' = setup, UNCHANGED <<waiter, armed>>,
         \A c \in Calls : Tool(c) = "manage" => (stage'[c] = "waiting" <=> stage[c] = "waiting")
  PROVE  WaitersOK'
BY DEF WaitersOK, Tool, Child

\* Exactly the calls of manage that wait are registered, one for each thread.
LEMMA NextWaiters ==
  ASSUME WorkTypes, CallTypes, WaitersOK, CallsOK, RunsOK, Next
  PROVE  WaitersOK'
<1>1. /\ setup' = setup /\ \A c \in Calls : Child(c) \in Children
      /\ \A c \in Calls : Tool(c)' = Tool(c) /\ Child(c)' = Child(c)
  <2>1. setup' = setup
    BY InvocationSteps DEF Next, Call, Begin, LookUp, Create, LinkCall, SendMessage, CallAgent, Write,
         TimeOut, RunMoves, BeginFails, RunEnds, WorkTypes
  <2> QED
    BY <2>1, SetupTypes DEF CallTypes, Tool, Child
<1>2. ASSUME NEW c \in Calls, Begin(c) \/ LookUp(c) \/ Create(c) \/ LinkCall(c) \/ CallAgent(c) \/ Write(c)
      PROVE  WaitersOK'
  <2>1. UNCHANGED <<waiter, armed>>
    BY <1>2 DEF Begin, LookUp, Create, LinkCall, CallAgent, Write, nodeVars
  <2>2. ASSUME NEW from \in {"idle", "lookup", "create", "link", "send"}, NEW to, Goes(c, from, to),
               Tool(c) # "manage" \/ to # "waiting"
        PROVE  \A d \in Calls : Tool(d) = "manage" => (stage'[d] = "waiting" <=> stage[d] = "waiting")
    BY <2>2 DEF Goes, CallTypes
  <2>3. \A d \in Calls : Tool(d) = "manage" => (stage'[d] = "waiting" <=> stage[d] = "waiting")
    <3>1. CASE Begin(c)
      BY <2>2, <3>1 DEF Begin
    <3>2. CASE LookUp(c)
      BY <2>2, <3>2 DEF LookUp
    <3>3. CASE Create(c)
      BY <2>2, <3>3 DEF Create, Ends
    <3>4. CASE LinkCall(c)
      BY <2>2, <3>4 DEF LinkCall
    <3>5. CASE CallAgent(c)
      BY <2>2, <3>5 DEF CallAgent, Ends
    <3>6. CASE Write(c)
      BY <2>2, <3>6 DEF Write, Ends
    <3> QED
      BY <1>2, <3>1, <3>2, <3>3, <3>4, <3>5, <3>6
  <2> QED
    BY <1>1, <2>1, <2>3, WaitersSame
<1>3. ASSUME NEW c \in Calls, stage[c] = "send", SendMessage(c)
      PROVE  WaitersOK'
  <2>1. Tool(c) = "manage"
    BY <1>3 DEF SendMessage
  <2>2. CASE UNCHANGED <<waiter, armed>> /\ \E how : Ends(c, "send", how)
    <3>1. \A d \in Calls : stage'[d] = "waiting" <=> stage[d] = "waiting"
      BY <2>2 DEF Ends, Goes, CallTypes
    <3> QED
      BY <1>1, <2>2, <3>1, WaitersSame
  <2>3. CASE /\ waiter[Child(c)] = NoCall /\ Goes(c, "send", "waiting")
             /\ waiter' = [waiter EXCEPT ![Child(c)] = c]
             /\ armed' = armed \cup (IF setup.timed THEN {c} ELSE {})
    <3>1. /\ stage'[c] = "waiting" /\ \A d \in Calls \ {c} : stage'[d] = stage[d]
      BY <2>3 DEF Goes, CallTypes
    <3>2. waiter' \in [Children -> Calls \cup {NoCall}]
      BY <2>3 DEF WaitersOK
    <3>3. ASSUME NEW d \in Calls, NEW t \in Children
          PROVE  waiter'[t] = d <=> Tool(d) = "manage" /\ stage'[d] = "waiting" /\ Child(d) = t
      <4>1. CASE t = Child(c)
        BY <2>1, <2>3, <3>1, <4>1, DelegationAssumption DEF WaitersOK, DelegationAssumption
      <4>2. CASE t # Child(c)
        BY <2>3, <3>1, <4>2, <1>3 DEF WaitersOK
      <4> QED
        BY <4>1, <4>2
    <3>4. armed' = {d \in Calls : setup.timed /\ Tool(d) = "manage" /\ stage'[d] = "waiting"}
      BY <2>1, <2>3, <3>1 DEF WaitersOK
    <3>5. (\A d \in Calls, t \in Children :
             waiter[t] = d <=> Tool(d) = "manage" /\ stage[d] = "waiting" /\ Child(d) = t)'
      BY <1>1, <3>3
    <3> QED
      BY <1>1, <3>2, <3>4, <3>5 DEF WaitersOK
  <2> QED
    BY <1>3, <2>2, <2>3 DEF SendMessage, AwaitChildResponse
<1>4. ASSUME NEW c \in Calls, TimeOut(c)
      PROVE  WaitersOK'
  <2>1. /\ stage'[c] = "done" /\ \A d \in Calls \ {c} : stage'[d] = stage[d]
        /\ waiter' = [waiter EXCEPT ![Child(c)] = NoCall] /\ armed' = armed \ {c}
    BY <1>4 DEF TimeOut, CallTypes
  <2>2. waiter[Child(c)] = c /\ Tool(c) = "manage" /\ stage[c] = "waiting"
    BY <1>1, <1>4 DEF TimeOut, WaitersOK
  <2>3. waiter' \in [Children -> Calls \cup {NoCall}]
    BY <2>1 DEF WaitersOK
  <2>4. ASSUME NEW d \in Calls, NEW t \in Children
        PROVE  waiter'[t] = d <=> Tool(d) = "manage" /\ stage'[d] = "waiting" /\ Child(d) = t
    <3>1. CASE t = Child(c)
      BY <2>1, <2>2, <3>1, DelegationAssumption DEF WaitersOK, DelegationAssumption
    <3>2. CASE t # Child(c)
      BY <2>1, <3>2 DEF WaitersOK
    <3> QED
      BY <3>1, <3>2
  <2>5. armed' = {d \in Calls : setup.timed /\ Tool(d) = "manage" /\ stage'[d] = "waiting"}
    BY <2>1 DEF WaitersOK
  <2>6. (\A d \in Calls, t \in Children :
           waiter[t] = d <=> Tool(d) = "manage" /\ stage[d] = "waiting" /\ Child(d) = t)'
    BY <1>1, <2>4
  <2> QED
    BY <1>1, <2>3, <2>5, <2>6 DEF WaitersOK
<1>5. ASSUME NEW r \in RunIds, Invocation(r)
      PROVE  WaitersOK'
  <2>0. runs[r] \in Run /\ runs[r].thread \in Children
    <3>1. runs[r] \in Run
      BY DEF WorkTypes, RunIds
    <3> QED
      BY <3>1 DEF Run
  <2>1. \A c \in Calls : c = runs[r].caller => Tool(c) # "manage"
    BY DelegationAssumption DEF RunsOK, DelegationAssumption
  <2>2. CASE RunMoves(r)
    BY <1>1, <2>2, WaitersSame DEF RunMoves, callVars, nodeVars
  <2>3. CASE BeginFails(r)
    BY <1>1, <2>1, <2>3, WaitersSame DEF BeginFails, nodeVars
  <2>4. CASE Tells(r, FALSE) /\ UNCHANGED nodeVars
    <3>1. \A c \in Calls : Tool(c) = "manage" => stage'[c] = stage[c]
      BY <2>1, <2>4 DEF Tells, Told
    <3> QED
      BY <1>1, <2>4, <3>1, WaitersSame DEF nodeVars
  <2>5. CASE Tells(r, TRUE) /\ waiter[runs[r].thread] # NoCall /\ Resolve(runs[r].thread)
    <3> DEFINE at == runs[r].thread
               w == waiter[at]
    <3>1. /\ w \in Calls /\ Tool(w) = "manage" /\ stage[w] = "waiting" /\ Child(w) = at
      BY <2>0, <2>5 DEF WaitersOK
    <3>2. /\ stage'[w] = "done"
          /\ \A d \in Calls \ {w} : Tool(d) = "manage" => stage'[d] = stage[d]
          /\ waiter' = [waiter EXCEPT ![at] = NoCall] /\ armed' = armed \ {w}
      BY <2>1, <2>5, <3>1 DEF Tells, Told, Resolve
    <3> HIDE DEF w, at
    <3>3. waiter' \in [Children -> Calls \cup {NoCall}]
      BY <3>2 DEF WaitersOK
    <3>4. ASSUME NEW d \in Calls, NEW t \in Children
          PROVE  waiter'[t] = d <=> Tool(d) = "manage" /\ stage'[d] = "waiting" /\ Child(d) = t
      <4>1. CASE t = at
        BY <2>0, <3>1, <3>2, <4>1, DelegationAssumption DEF WaitersOK, DelegationAssumption, w
      <4>2. CASE t # at
        BY <3>1, <3>2, <4>2 DEF WaitersOK
      <4> QED
        BY <4>1, <4>2
    <3>5. armed' = {d \in Calls : setup.timed /\ Tool(d) = "manage" /\ stage'[d] = "waiting"}
      BY <3>1, <3>2 DEF WaitersOK
    <3>6. (\A d \in Calls, t \in Children :
             waiter[t] = d <=> Tool(d) = "manage" /\ stage[d] = "waiting" /\ Child(d) = t)'
      BY <1>1, <3>4
    <3> QED
      BY <1>1, <3>3, <3>5, <3>6 DEF WaitersOK
  <2> QED
    BY <1>5, <2>2, <2>3, <2>4, <2>5, InvocationSteps DEF WorkTypes, RunEnds
<1> QED
  BY <1>2, <1>3, <1>4, <1>5 DEF Next, Call

-----------------------------------------------------------------------------
\* Where the messages of a run come from.
LEMMA TakenFrom ==
  ASSUME WorkTypes
  PROVE  /\ Kept => \A d : Taken(d)' => Taken(d)
         /\ runs' = runs => \A d : Taken(d)' => Taken(d)
         /\ \A t, batch, caller : Begun(t, batch, caller) => \A d : Taken(d)' => Taken(d) \/ d \in batch
<1>1. Kept => \A d : Taken(d)' => Taken(d)
  BY DEF Kept, Steady, Taken
<1>2. runs' = runs => \A d : Taken(d)' => Taken(d)
  BY DEF Taken, RunIds
<1>3. ASSUME NEW t, NEW batch, NEW caller, Begun(t, batch, caller), NEW d, Taken(d)'
      PROVE  Taken(d) \/ d \in batch
  <2>1. PICK n \in Nat : n \notin RunIds /\ RunIds' = RunIds \cup {n} /\ runs'[n] = Fresh(t, batch, caller)
    BY <1>3 DEF Begun
  <2>2. runs'[n].batch = batch
    BY <2>1 DEF Fresh
  <2>3. PICK r \in RunIds' : d \in runs'[r].batch
    BY <1>3 DEF Taken
  <2>4. CASE r = n
    BY <2>2, <2>3, <2>4
  <2>5. CASE r \in RunIds
    BY <1>3, <2>3, <2>5 DEF Begun, Steady, Taken
  <2> QED
    BY <2>1, <2>3, <2>4, <2>5
<1> QED
  BY <1>1, <1>2, <1>3

\* A message that has not been sent is sent by its call.
LEMMA SentFrom ==
  ASSUME WorkTypes, CallTypes, BufferOK, WorkMoves, setup' = setup
  PROVE  \A d \in Calls : Sent(d)' => Sent(d) \/ Sends(d)
<1> SUFFICES ASSUME NEW d \in Calls, Sent(d)' PROVE Sent(d) \/ Sends(d)
  OBVIOUS
<1>1. Child(d) \in Children /\ Child(d)' = Child(d)
  BY SetupTypes DEF CallTypes, Child
<1>2. d \in buffer'[Child(d)] \/ Taken(d)'
  BY <1>1 DEF Sent
<1>3. CASE Kept
  BY <1>2, <1>3, TakenFrom DEF Kept, Sent
<1>4. ASSUME NEW c \in Calls, Accepted(c) PROVE Sent(d) \/ Sends(d)
  <2>1. d \in buffer'[Child(d)] => d \in buffer[Child(d)] \/ d = c
    BY <1>1, <1>4 DEF Accepted, WorkTypes
  <2> QED
    BY <1>2, <1>4, <2>1, TakenFrom DEF Accepted, Sent
<1>5. ASSUME NEW c \in Calls, NEW caller, Started(c, caller) PROVE Sent(d) \/ Sends(d)
  <2>1. Taken(d)' => Taken(d) \/ d = c
    BY <1>5, TakenFrom DEF Started
  <2> QED
    BY <1>2, <1>5, <2>1 DEF Started, Sent
<1>6. ASSUME NEW t \in Children, Drained(t) PROVE Sent(d) \/ Sends(d)
  <2>1. Taken(d)' => Taken(d) \/ d \in buffer[t]
    BY <1>6, TakenFrom DEF Drained
  <2>2. d \in buffer'[Child(d)] => d \in buffer[Child(d)]
    BY <1>1, <1>6 DEF Drained, WorkTypes
  <2>3. d \in buffer[t] => Child(d) = t
    BY DEF BufferOK
  <2> QED
    BY <1>2, <2>1, <2>2, <2>3 DEF Sent
<1> QED
  BY <1>3, <1>4, <1>5, <1>6 DEF WorkMoves

\* What a call knows as it goes on.
LEMMA NextCallsOK ==
  ASSUME WorkTypes, CallTypes, BufferOK, CallsOK, WorkMoves, RestMoves, \A c \in Calls : CallMove(c)
  PROVE  CallsOK'
<1> SUFFICES ASSUME NEW c \in Calls
             PROVE  /\ stage'[c] \in {"link", "send", "waiting"} => Child(c) \in exists'
                    /\ stage'[c] \in {"lookup", "create", "link", "send", "waiting"} => Tool(c) \in Tools
                    /\ stage'[c] \in {"idle", "lookup", "create", "link", "send"} => ~Sent(c)'
                    /\ answer'[c] # "none" => stage'[c] = "done"
                    /\ Tool(c) = "manage" /\ stage'[c] = "waiting" => setup.sync
  BY DEF CallsOK, Tool, Child, RestMoves
<1>1. /\ stage[c] \in {"link", "send", "waiting"} => Child(c) \in exists
      /\ stage[c] \in {"lookup", "create", "link", "send", "waiting"} => Tool(c) \in Tools
      /\ stage[c] \in {"idle", "lookup", "create", "link", "send"} => ~Sent(c)
      /\ answer[c] # "none" => stage[c] = "done"
      /\ Tool(c) = "manage" /\ stage[c] = "waiting" => setup.sync
  BY DEF CallsOK
<1>2. CallMove(c) /\ exists \subseteq exists' /\ (Sent(c)' => Sent(c) \/ Sends(c))
  BY SentFrom DEF RestMoves
<1>3. CASE Stays(c)
  BY <1>1, <1>2, <1>3 DEF Stays, Sends
<1>4. CASE Advances(c)
  BY <1>1, <1>2, <1>4 DEF Advances, Sends
<1>5. CASE Fails(c) \/ GivesUp(c) \/ Answered(c)
  BY <1>1, <1>2, <1>5 DEF Fails, GivesUp, Answered
<1>6. CASE Sends(c)
  BY <1>1, <1>2, <1>6 DEF Sends
<1> QED
  BY <1>2, <1>3, <1>4, <1>5, <1>6 DEF CallMove

\* A call of manage whose message was sent in sync mode waits or has its answer.
LEMMA NextSentOK ==
  ASSUME WorkTypes, CallTypes, BufferOK, CallsOK, SentOK, RunsOK, WorkMoves, RestMoves,
         \A c \in Calls : CallMove(c)
  PROVE  SentOK'
<1> SUFFICES ASSUME NEW c \in Calls, Sent(c)'
             PROVE  /\ Tool(c) \in Tools \cup {"user"}
                    /\ Tool(c) = "manage" /\ setup.sync => Settled(c)'
  BY DEF SentOK, Tool, RestMoves
<1>1. CallMove(c) /\ (Sent(c) \/ Sends(c))
  BY SentFrom DEF RestMoves
<1>2. CASE Sends(c)
  BY <1>2 DEF Sends, Settled
<1>3. CASE Sent(c) /\ ~Sends(c)
  <2>1. /\ Tool(c) \in Tools \cup {"user"}
        /\ Tool(c) = "manage" /\ setup.sync => Settled(c)
        /\ stage[c] \notin {"idle", "lookup", "create", "link", "send"}
    BY <1>3 DEF SentOK, CallsOK
  <2>2. Stays(c) \/ GivesUp(c) \/ Answered(c)
    BY <1>1, <1>3, <2>1 DEF CallMove, Advances, Fails
  <2>3. Answered(c) /\ Tool(c) = "manage" => answer'[c] = "reply"
    BY DelegationAssumption DEF Answered, DelegationAssumption, RunsOK
  <2> QED
    BY <2>1, <2>2, <2>3 DEF Stays, GivesUp, Settled
<1> QED
  BY <1>1, <1>2, <1>3

\* The caller of a run that is not over waits for it, and nobody else ends
\* its wait.
LEMMA CallerWaits ==
  ASSUME WorkTypes, RunsOK, \A c \in Calls : CallMove(c), NEW r \in RunIds,
         runs[r].caller # NoCall, runs'[r].stage # "done", Steady(r)
  PROVE  stage'[runs[r].caller] = "waiting"
<1>1. runs[r] \in Run
  BY DEF WorkTypes, RunIds
<1>2. PICK c \in Calls : c = runs[r].caller
  BY <1>1 DEF Run
<1>3. /\ runs[r].batch = {c} /\ Tool(c) = "call_agent" /\ stage[c] = "waiting"
  BY <1>2 DEF RunsOK, Steady
<1>4. CASE Stays(c)
  BY <1>2, <1>3, <1>4 DEF Stays
<1>5. CASE Answered(c)
  <2>1. PICK q \in RunIds : runs'[q].stage = "done" /\ c = runs[q].caller
    BY <1>3, <1>5 DEF Answered
  <2>2. runs[q].batch = {c} /\ q # r
    BY <2>1, <1>2 DEF RunsOK
  <2> QED
    BY <1>3, <2>2 DEF RunsOK
<1>6. Stays(c) \/ Answered(c)
  <2>1. CallMove(c)
    OBVIOUS
  <2> QED
    BY <1>3, <2>1 DEF CallMove, Advances, Fails, Sends, GivesUp
<1> QED
  BY <1>4, <1>5, <1>6

\* A run begins with the messages of its thread that nobody has taken.
LEMMA BegunRunsOK ==
  ASSUME WorkTypes, RunsOK, setup' = setup, \A c \in Calls : CallMove(c),
         NEW t \in Children, NEW batch \in SUBSET Calls, NEW caller \in Calls \cup {NoCall},
         Begun(t, batch, caller), batch # {}, \A d \in batch : Child(d) = t /\ ~Taken(d),
         caller # NoCall => batch = {caller} /\ Tool(caller) = "call_agent" /\ stage'[caller] = "waiting"
  PROVE  RunsOK'
<1>1. PICK n \in Nat : n \notin RunIds /\ RunIds' = RunIds \cup {n} /\ runs'[n] = Fresh(t, batch, caller)
  BY DEF Begun
<1>2. runs'[n].batch = batch /\ runs'[n].thread = t /\ runs'[n].caller = caller
  BY <1>1 DEF Fresh
<1>3. \A q \in RunIds : Steady(q)
  BY DEF Begun
<1>4. ASSUME NEW r \in RunIds'
      PROVE  /\ runs'[r].batch # {}
             /\ \A d \in runs'[r].batch : Child(d) = runs'[r].thread
             /\ runs'[r].caller # NoCall =>
                  /\ runs'[r].batch = {runs'[r].caller} /\ Tool(runs'[r].caller) = "call_agent"
                  /\ runs'[r].stage # "done" => stage'[runs'[r].caller] = "waiting"
  <2>1. CASE r = n
    BY <1>2, <2>1
  <2>2. CASE r \in RunIds
    <3>1. Steady(r)
      BY <1>3, <2>2
    <3>2. /\ runs'[r].thread = runs[r].thread /\ runs'[r].batch = runs[r].batch
          /\ runs'[r].caller = runs[r].caller
      BY <3>1 DEF Steady
    <3>3. runs[r].caller # NoCall /\ runs'[r].stage # "done" => stage'[runs[r].caller] = "waiting"
      BY <2>2, <3>1, CallerWaits
    <3> QED
      BY <2>2, <3>2, <3>3 DEF RunsOK
  <2> QED
    BY <1>1, <1>4, <2>1, <2>2
<1>5. ASSUME NEW r \in RunIds', NEW q \in RunIds', r # q PROVE runs'[r].batch \cap runs'[q].batch = {}
  <2>1. ASSUME NEW p \in RunIds PROVE runs'[p].batch = runs[p].batch /\ runs[p].batch \cap batch = {}
    BY <1>3, <2>1 DEF Steady, Taken
  <2>2. CASE r \in RunIds /\ q \in RunIds
    BY <1>5, <2>1, <2>2 DEF RunsOK
  <2>3. CASE r = n /\ q \in RunIds
    BY <1>2, <2>1, <2>3
  <2>4. CASE r \in RunIds /\ q = n
    BY <1>2, <2>1, <2>4
  <2> QED
    BY <1>1, <1>5, <2>2, <2>3, <2>4
<1> QED
  BY <1>4, <1>5 DEF RunsOK, Tool, Child

\* The runs go on with messages of their own.
LEMMA NextRunsOK ==
  ASSUME WorkTypes, CallTypes, BufferOK, CallsOK, RunsOK, WorkMoves, setup' = setup,
         \A c \in Calls : CallMove(c)
  PROVE  RunsOK'
<1>1. ASSUME \A q \in RunIds : Steady(q), RunIds' = RunIds PROVE RunsOK'
  <2>1. \A r \in RunIds : runs[r].caller # NoCall /\ runs'[r].stage # "done"
          => stage'[runs[r].caller] = "waiting"
    BY <1>1, CallerWaits
  <2> QED
    BY <1>1, <2>1 DEF RunsOK, Steady, Tool, Child
<1>2. CASE Kept
  BY <1>1, <1>2 DEF Kept
<1>3. ASSUME NEW c \in Calls, Accepted(c) PROVE RunsOK'
  BY <1>1, <1>3 DEF Accepted, Steady, RunIds
<1>4. ASSUME NEW c \in Calls, NEW caller \in Calls \cup {NoCall}, Started(c, caller) PROVE RunsOK'
  <2>1. ~Sent(c) /\ Child(c) \in Children
    BY <1>4, SetupTypes DEF Started, Sends, CallsOK, CallTypes
  <2>2. \A d \in {c} : Child(d) = Child(c) /\ ~Taken(d)
    BY <2>1 DEF Sent
  <2> QED
    BY <1>4, <2>1, <2>2, BegunRunsOK DEF Started
<1>5. ASSUME NEW t \in Children, Drained(t) PROVE RunsOK'
  <2>1. buffer[t] \in SUBSET Calls /\ buffer[t] # {} /\ Begun(t, buffer[t], NoCall)
    BY <1>5 DEF Drained, WorkTypes
  <2>2. \A d \in buffer[t] : Child(d) = t /\ ~Taken(d)
    BY DEF BufferOK
  <2> QED
    BY <2>1, <2>2, BegunRunsOK
<1> QED
  BY <1>2, <1>3, <1>4, <1>5 DEF WorkMoves

\* What lies in a buffer is for its thread, and no run has it.
LEMMA NextBufferOK ==
  ASSUME WorkTypes, CallTypes, BufferOK, CallsOK, WorkMoves, setup' = setup
  PROVE  BufferOK'
<1> SUFFICES ASSUME NEW t \in Children, NEW d \in buffer'[t] PROVE Child(d) = t /\ ~Taken(d)'
  BY DEF BufferOK, Child
<1>1. CASE Kept
  BY <1>1, TakenFrom DEF Kept, BufferOK
<1>2. ASSUME NEW c \in Calls, Accepted(c) PROVE Child(d) = t /\ ~Taken(d)'
  <2>1. ~Sent(c) /\ runs' = runs /\ Child(c) \in Children
    BY <1>2, SetupTypes DEF Accepted, Sends, CallsOK, CallTypes
  <2>2. d \in buffer[t] \/ (d = c /\ t = Child(c))
    BY <1>2 DEF Accepted, WorkTypes
  <2> QED
    BY <2>1, <2>2, TakenFrom DEF Sent, BufferOK
<1>3. ASSUME NEW c \in Calls, NEW caller, Started(c, caller) PROVE Child(d) = t /\ ~Taken(d)'
  <2>1. ~Sent(c)
    BY <1>3 DEF Started, Sends, CallsOK
  <2>2. d \in buffer[t] /\ (Taken(d)' => Taken(d) \/ d = c)
    BY <1>3, TakenFrom DEF Started
  <2> QED
    BY <2>1, <2>2 DEF Sent, BufferOK
<1>4. ASSUME NEW u \in Children, Drained(u) PROVE Child(d) = t /\ ~Taken(d)'
  <2>1. d \in buffer[t] /\ t # u
    BY <1>4 DEF Drained, WorkTypes
  <2>2. Taken(d)' => Taken(d) \/ d \in buffer[u]
    BY <1>4, TakenFrom DEF Drained
  <2> QED
    BY <2>1, <2>2 DEF BufferOK
<1> QED
  BY <1>1, <1>2, <1>3, <1>4 DEF WorkMoves

\* The run of an answer stays what it was.
LEMMA NextAnswersOK ==
  ASSUME WorkTypes, CallTypes, AnswersOK, WorkMoves, \A c \in Calls : CallMove(c)
  PROVE  AnswersOK'
<1> SUFFICES ASSUME NEW c \in Calls, answer'[c] = "reply"
             PROVE  by'[c] \in RunIds' /\ runs'[by'[c]].stage = "done"
  BY DEF AnswersOK
<1>1. CASE answer[c] = "reply" /\ by'[c] = by[c]
  <2>1. by[c] \in RunIds /\ runs[by[c]].stage = "done"
    BY <1>1 DEF AnswersOK
  <2>2. \A q \in RunIds : q \in RunIds' /\ (runs[q].stage = "done" => runs'[q] = runs[q])
    BY DEF WorkMoves, Kept, Accepted, Started, Drained, Begun, Steady, RunIds
  <2> QED
    BY <1>1, <2>1, <2>2
<1>2. CASE Answered(c)
  BY <1>2 DEF Answered
<1>3. CallMove(c)
  OBVIOUS
<1> QED
  BY <1>1, <1>2, <1>3 DEF CallMove, Stays, Advances, Fails, Sends, GivesUp

-----------------------------------------------------------------------------
\* A call that is over stays so.
LEMMA DoneStays ==
  ASSUME NEW c, CallMove(c), stage[c] = "done"
  PROVE  Stays(c)
BY DEF CallMove, Advances, Fails, Sends, GivesUp, Answered

\* An answer given up stays given up.
LEMMA GivenUpStays ==
  ASSUME CallsOK, setup' = setup, \A c \in Calls : CallMove(c), NEW c \in Calls, GivenUp(c)
  PROVE  GivenUp(c)'
<1>1. PICK d \in Calls \ {c} : Child(d) = Child(c) /\ (Tool(d) = "user" \/ answer[d] \in {"timeout", "refused"})
  BY DEF GivenUp
<1>2. answer[d] \in {"timeout", "refused"} => answer'[d] = answer[d]
  BY <1>1, DoneStays DEF CallsOK, Stays
<1> QED
  BY <1>1, <1>2 DEF GivenUp, Tool, Child

\* Whoever waits in manage for a run that works on none of its own messages
\* has what others gave up: each message of the run is that of a user or of a
\* call of manage that does not wait any more.
LEMMA OthersGaveUp ==
  ASSUME WorkTypes, CallTypes, WaitersOK, CallsOK, SentOK, AnswersOK, RunsOK, AnswersOwn,
         NEW c \in Calls, Tool(c) = "manage", stage[c] = "waiting",
         NEW r \in RunIds, runs[r].stage # "done", runs[r].thread = Child(c), c \notin runs[r].batch
  PROVE  (\A d \in runs[r].batch : stage[d] = "done") /\ GivenUp(c)
<1>1. /\ runs[r] \in Run /\ runs[r].batch \subseteq Calls /\ Child(c) \in Children
      /\ setup.sync /\ answer[c] = "none"
  <2>1. runs[r] \in Run
    BY DEF WorkTypes, RunIds
  <2>2. answer[c] = "none"
    BY DEF CallsOK
  <2> QED
    BY <2>1, <2>2, SetupTypes DEF Run, CallTypes, CallsOK
<1>2. ASSUME NEW d \in runs[r].batch
      PROVE  /\ d \in Calls /\ d # c /\ Child(d) = Child(c) /\ stage[d] = "done"
             /\ Tool(d) = "user" \/ answer[d] \in {"refused", "timeout", "reply"}
  <2>1. d \in Calls /\ d # c /\ Child(d) = Child(c) /\ Sent(d)
    BY <1>1 DEF RunsOK, Sent, Taken
  <2>2. Tool(d) \in {"manage", "user"}
    <3>1. Tool(d) \in Tools \cup {"user"}
      BY <2>1 DEF SentOK
    <3>2. Tool(d) = Tool(c) \/ {Tool(d), Tool(c)} \cap {"user", "none"} # {}
      BY <2>1, SetupTypes DEF CallTypes
    <3> QED
      BY <3>1, <3>2 DEF Tools
  <2>3. stage[d] # "waiting"
    <3>1. Tool(d) = "user" => stage[d] # "waiting"
      BY <2>1 DEF CallsOK, Tools
    <3>2. Tool(d) = "manage" => stage[d] # "waiting"
      <4>1. waiter[Child(c)] = c
        BY <1>1 DEF WaitersOK
      <4>2. Tool(d) = "manage" /\ stage[d] = "waiting" => waiter[Child(c)] = d
        BY <1>1, <2>1 DEF WaitersOK
      <4> QED
        BY <2>1, <4>1, <4>2
    <3> QED
      BY <2>2, <3>1, <3>2
  <2>4. stage[d] = "done"
    BY <2>1, <2>3 DEF CallsOK, CallTypes
  <2>5. Tool(d) = "manage" => answer[d] \in {"refused", "timeout", "reply"}
    BY <1>1, <2>1, <2>3 DEF SentOK, Settled
  <2> QED
    BY <2>1, <2>2, <2>4, <2>5
<1>3. PICK d \in runs[r].batch : TRUE
  BY DEF RunsOK
<1>4. CASE Tool(d) = "user" \/ answer[d] \in {"refused", "timeout"}
  <2>1. GivenUp(c)
    BY <1>2, <1>3, <1>4 DEF GivenUp
  <2> QED
    BY <1>2, <2>1
<1>5. CASE answer[d] = "reply"
  <2>1. by[d] \in RunIds /\ by[d] # r
    BY <1>2, <1>5 DEF AnswersOK
  <2>2. d \notin runs[by[d]].batch
    BY <1>3, <2>1 DEF RunsOK
  <2>3. GivenUp(d)
    BY <1>2, <1>5, <2>2 DEF AnswersOwn
  <2>4. GivenUp(c)
    BY <1>1, <1>2, <2>3 DEF GivenUp
  <2> QED
    BY <1>2, <2>4
<1> QED
  BY <1>2, <1>3, <1>4, <1>5

\* A call returns what a run made of its own message, or of one given up.
LEMMA NextAnswersOwn ==
  ASSUME WorkTypes, CallTypes, WaitersOK, CallsOK, SentOK, AnswersOK, RunsOK, AnswersOwn,
         WorkMoves, setup' = setup, \A c \in Calls : CallMove(c)
  PROVE  AnswersOwn'
<1> SUFFICES ASSUME NEW c \in Calls, answer'[c] = "reply"
             PROVE  \/ c \in runs'[by'[c]].batch
                    \/ (\A d \in runs'[by'[c]].batch : stage'[d] = "done") /\ GivenUp(c)'
  BY DEF AnswersOwn
<1>1. /\ \A q \in RunIds : runs'[q].batch = runs[q].batch
      /\ \A q \in RunIds : runs[q].batch \subseteq Calls
  <2>1. \A q \in RunIds : runs[q] \in Run
    BY DEF WorkTypes, RunIds
  <2> QED
    BY <2>1 DEF WorkMoves, Kept, Accepted, Started, Drained, Begun, Steady, Run
<1>2. ASSUME NEW q \in RunIds, \A d \in runs[q].batch : stage[d] = "done"
      PROVE  \A d \in runs'[q].batch : stage'[d] = "done"
  BY <1>1, <1>2, DoneStays DEF Stays
<1>3. CASE answer[c] = "reply" /\ by'[c] = by[c]
  <2>1. by[c] \in RunIds
    BY <1>3 DEF AnswersOK
  <2>2. CASE c \in runs[by[c]].batch
    BY <1>1, <1>3, <2>1, <2>2
  <2>3. CASE (\A d \in runs[by[c]].batch : stage[d] = "done") /\ GivenUp(c)
    BY <1>2, <1>3, <2>1, <2>3, GivenUpStays
  <2> QED
    BY <1>3, <2>2, <2>3 DEF AnswersOwn
<1>4. CASE Answered(c)
  <2>1. PICK r \in RunIds :
          /\ runs[r].stage # "done"
          /\ \/ /\ c = runs[r].caller
                /\ by'[c] = r \/ (answer'[c] = "error" /\ by'[c] = by[c])
             \/ /\ Tool(c) = "manage" /\ Child(c) = runs[r].thread /\ by'[c] = r
    BY <1>4 DEF Answered
  <2>2. by'[c] = r
    BY <2>1
  <2>3. CASE c = runs[r].caller
    <3>1. runs[r].batch = {c}
      BY <2>3, DelegationAssumption DEF RunsOK, DelegationAssumption
    <3> QED
      BY <1>1, <2>2, <3>1
  <2>4. CASE Tool(c) = "manage" /\ Child(c) = runs[r].thread
    <3>1. CASE c \in runs[r].batch
      BY <1>1, <2>2, <3>1
    <3>2. CASE c \notin runs[r].batch
      <4>1. stage[c] = "waiting"
        BY <1>4 DEF Answered
      <4>2. (\A d \in runs[r].batch : stage[d] = "done") /\ GivenUp(c)
        BY <2>1, <2>4, <3>2, <4>1, OthersGaveUp
      <4> QED
        BY <1>2, <2>2, <4>2, GivenUpStays
    <3> QED
      BY <3>1, <3>2
  <2> QED
    BY <2>1, <2>3, <2>4
<1>5. CallMove(c)
  OBVIOUS
<1> QED
  BY <1>3, <1>4, <1>5 DEF CallMove, Stays, Advances, Fails, Sends, GivesUp

-----------------------------------------------------------------------------
\* What a step does to the links: it leaves them; it notes a child at the
\* latest event of the tool; it notes the status of a run where that run is
\* named; or it names a run that gets its row.
OneChild == {S \in SUBSET Children : Cardinality(S) <= 1}

Link == [child : OneChild, run : 0..Len(runs), status : {"none", "queued"} \cup RowStatus]

LinkTypes == events \in Seq(Calls) /\ link \in [Calls -> Link]

Queued(c) == [child |-> {Child(c)}, run |-> 0, status |-> "queued"]

OnlyRun(r) == \A q \in RunIds \ {r} : runs'[q].status = runs[q].status

LinksCall(c) ==
  /\ stage[c] = "link" /\ Quiet
  /\ link' = [d \in Calls |-> IF d \in ToolEvent(c) THEN Queued(c) ELSE link[d]]

NotesStatus(r) == OnlyRun(r) /\ StatusAt(r, runs'[r].status)

NamesRun(r) ==
  /\ runs[r].stage = "begin" /\ runs'[r].stage # "begin" /\ runs'[r].status = "running"
  /\ OnlyRun(r)
  /\ link' = [c \in Calls |->
                IF c \in ChildEvent(runs[r].thread)
                  THEN [link[c] EXCEPT !.run = r, !.status = "running"] ELSE link[c]]

LinkMoves ==
  \/ link' = link /\ Quiet
  \/ \E c \in Calls : LinksCall(c)
  \/ \E r \in RunIds : runs'[r] \in Run /\ (NotesStatus(r) \/ NamesRun(r))

\* No step does more to the links.
LEMMA NextLinks ==
  ASSUME WorkTypes, CallTypes, Next
  PROVE  LinkMoves
<1>1. ASSUME NEW c \in Calls, Begin(c) \/ LookUp(c) \/ Create(c) \/ TimeOut(c)
      PROVE  LinkMoves
  <2>1. link' = link /\ UNCHANGED workVars
    BY <1>1 DEF Begin, LookUp, Create, TimeOut, linkVars
  <2> QED
    BY <2>1, WorkSame DEF LinkMoves
<1>2. ASSUME NEW c \in Calls, LinkCall(c) PROVE LinkMoves
  <2>1. Quiet /\ stage[c] = "link"
    BY <1>2, WorkSame DEF LinkCall, Goes
  <2> QED
    BY <1>2, <2>1 DEF LinkCall, LinkMoves, LinksCall, Queued
<1>3. ASSUME NEW c \in Calls, NEW caller \in Calls \cup {NoCall}, Invoke(c, caller) PROVE Quiet
  <2>1. CASE Busy(Child(c))
    BY <1>3, <2>1 DEF Invoke, Quiet
  <2>2. CASE ~Busy(Child(c))
    <3>1. Child(c) \in Children
      BY SetupTypes DEF CallTypes
    <3> QED
      BY <1>3, <2>2, <3>1, AppendBegins DEF Invoke
  <2> QED
    BY <2>1, <2>2
<1>4. ASSUME NEW c \in Calls, SendMessage(c) \/ CallAgent(c) \/ Write(c) PROVE LinkMoves
  <2>1. link' = link /\ \E caller \in Calls \cup {NoCall} : Invoke(c, caller)
    <3>1. link' = link
      BY <1>4 DEF SendMessage, CallAgent, Write, linkVars
    <3>2. Invoke(c, NoCall) \/ Invoke(c, IF setup.sync THEN c ELSE NoCall)
      BY <1>4 DEF SendMessage, CallAgent, Write
    <3> QED
      BY <3>1, <3>2
  <2> QED
    BY <1>3, <2>1 DEF LinkMoves
<1>5. ASSUME NEW r \in RunIds, Invocation(r) PROVE LinkMoves
  <2>1. CASE RunMoves(r)
    <3>1. PICK x \in Run :
            /\ GoesOn(r, x) /\ runs' = [runs EXCEPT ![r] = x]
            /\ \/ UNCHANGED link /\ x.status = runs[r].status
               \/ StatusAt(r, x.status)
               \/ /\ runs[r].stage = "begin" /\ x.status = "running"
                  /\ link' = [c \in Calls |->
                       IF c \in ChildEvent(runs[r].thread)
                         THEN [link[c] EXCEPT !.run = r, !.status = "running"] ELSE link[c]]
      BY <2>1 DEF RunMoves
    <3>2. \A q \in RunIds : runs'[q] = IF q = r THEN x ELSE runs[q]
      BY <2>1, <3>1, GoesOnKeeps DEF RunMoves
    <3>3. runs'[r] = x /\ OnlyRun(r) /\ x.stage # "begin"
      BY <3>1, <3>2 DEF OnlyRun, GoesOn
    <3>4. CASE UNCHANGED link /\ x.status = runs[r].status
      BY <3>2, <3>4 DEF LinkMoves, Quiet
    <3>5. CASE StatusAt(r, x.status)
      BY <3>3, <3>5 DEF LinkMoves, NotesStatus
    <3>6. CASE /\ runs[r].stage = "begin" /\ x.status = "running"
               /\ link' = [c \in Calls |->
                    IF c \in ChildEvent(runs[r].thread)
                      THEN [link[c] EXCEPT !.run = r, !.status = "running"] ELSE link[c]]
      BY <3>3, <3>6 DEF LinkMoves, NamesRun
    <3> QED
      BY <3>1, <3>4, <3>5, <3>6
  <2>2. CASE BeginFails(r)
    <3>1. PICK x \in Run : /\ GoesOn(r, x) /\ x.status = runs[r].status
                          /\ runs' = [runs EXCEPT ![r] = x] /\ buffer' = buffer /\ link' = link
      BY <2>2 DEF BeginFails
    <3>2. \A q \in RunIds : runs'[q] = IF q = r THEN x ELSE runs[q]
      BY <3>1, GoesOnKeeps
    <3> QED
      BY <3>1, <3>2 DEF LinkMoves, Quiet
  <2>3. CASE RunEnds(r)
    BY <2>3, PassesWork DEF RunEnds, linkVars, LinkMoves
  <2> QED
    BY <1>5, <2>1, <2>2, <2>3, InvocationSteps DEF WorkTypes
<1> QED
  BY <1>1, <1>2, <1>4, <1>5 DEF Next, Call

\* What a step does to the events: a call of a tool begins with an event, or
\* without one; then the links of its tool are not to be relied on.
EventMoves ==
  \/ /\ events' = events
     /\ \A c \in Calls : stage[c] = "idle" /\ stage'[c] # "idle" /\ Tool(c) \in Tools =>
          \A d \in Calls : Tool(d) = Tool(c) => d \in muddled'
  \/ \E c \in Calls :
       /\ stage[c] = "idle" /\ stage'[c] = "lookup" /\ Tool(c) \in Tools
       /\ \A d \in Calls \ {c} : Stays(d)
       /\ events' = Append(events, c)
       /\ Unlinked(c) # {} => c \in muddled'

\* No step does more to the events.
LEMMA NextEvents ==
  ASSUME WorkTypes, CallTypes, WaitersOK, RunsOK, Next
  PROVE  EventMoves
<1>1. ASSUME events' = events, \A c \in Calls : stage[c] = "idle" /\ Tool(c) \in Tools => stage'[c] = "idle"
      PROVE  EventMoves
  BY <1>1 DEF EventMoves
<1>2. ASSUME NEW c \in Calls, NEW from, NEW to, Goes(c, from, to), events' = events,
             from # "idle" \/ Tool(c) \notin Tools
      PROVE  EventMoves
  <2>1. \A d \in Calls : stage[d] = "idle" /\ Tool(d) \in Tools => stage'[d] = "idle"
    BY <1>2 DEF Goes, CallTypes
  <2> QED
    BY <1>1, <1>2, <2>1
<1>3. ASSUME NEW c \in Calls, Begin(c) PROVE EventMoves
  <2>1. /\ Tool(c) \in Tools /\ stage[c] = "idle" /\ stage'[c] = "lookup" /\ UNCHANGED <<answer, by>>
        /\ \A d \in Calls \ {c} : stage'[d] = stage[d]
    BY <1>3 DEF Begin, Goes, CallTypes
  <2>2. CASE /\ events' = Append(events, c)
             /\ muddled' = muddled \cup (IF Unlinked(c) # {} THEN {c} \cup Unlinked(c) ELSE {})
    BY <2>1, <2>2 DEF EventMoves, Stays
  <2>3. CASE UNCHANGED events /\ muddled' = muddled \cup {c} \cup {d \in Calls : Tool(d) = Tool(c)}
    BY <2>1, <2>3 DEF EventMoves
  <2> QED
    BY <1>3, <2>2, <2>3 DEF Begin
<1>4. ASSUME NEW c \in Calls, LookUp(c) \/ Create(c) \/ LinkCall(c) PROVE EventMoves
  BY <1>2, <1>4 DEF LookUp, Create, LinkCall, Ends, linkVars
<1>5. ASSUME NEW c \in Calls, SendMessage(c) \/ CallAgent(c) PROVE EventMoves
  BY <1>2, <1>5 DEF SendMessage, CallAgent, AwaitChildResponse, Ends, linkVars
<1>6. ASSUME NEW c \in Calls, Write(c) PROVE EventMoves
  BY <1>2, <1>6 DEF Write, Ends, linkVars, Tools
<1>7. ASSUME NEW c \in Calls, TimeOut(c) PROVE EventMoves
  <2>1. stage[c] = "waiting" /\ stage' = [stage EXCEPT ![c] = "done"] /\ events' = events
    BY <1>7 DEF TimeOut, WaitersOK, linkVars
  <2> QED
    BY <1>2, <2>1 DEF Goes
<1>8. ASSUME NEW r \in RunIds, Invocation(r) PROVE EventMoves
  <2>1. events' = events
    <3>1. RunMoves(r) \/ BeginFails(r) \/ RunEnds(r)
      BY <1>8, InvocationSteps DEF WorkTypes
    <3>2. RunMoves(r) \/ BeginFails(r) => events' = events
      BY DEF RunMoves, BeginFails
    <3>3. RunEnds(r) => events' = events
      BY DEF RunEnds, linkVars
    <3> QED
      BY <3>1, <3>2, <3>3
  <2>2. \A c \in Calls : CallMove(c)
    BY <1>8, NextMoves DEF Next
  <2>3. \A c \in Calls : stage'[c] \in {stage[c], "done"}
    <3>1. RunMoves(r) \/ BeginFails(r) \/ RunEnds(r)
      BY <1>8, InvocationSteps DEF WorkTypes
    <3>2. CASE RunMoves(r)
      BY <3>2 DEF RunMoves, callVars
    <3>3. CASE BeginFails(r)
      BY <3>3 DEF BeginFails
    <3>4. CASE RunEnds(r)
      BY <3>4 DEF RunEnds, Tells
    <3> QED
      BY <3>1, <3>2, <3>3, <3>4
  <2>4. \A c \in Calls : stage[c] = "idle" /\ Tool(c) \in Tools => stage'[c] = "idle"
    BY <2>2, <2>3 DEF CallMove, Stays, Advances, Fails, Sends, GivesUp, Answered, Tools
  <2> QED
    BY <1>1, <2>1, <2>4
<1> QED
  BY <1>3, <1>4, <1>5, <1>6, <1>7, <1>8 DEF Next, Call

-----------------------------------------------------------------------------
\* The events are those of calls that have begun, each once.
LEMMA NextEventsOK ==
  ASSUME CallTypes, events \in Seq(Calls), EventsOK, EventMoves, setup' = setup,
         \A c \in Calls : CallMove(c)
  PROVE  events' \in Seq(Calls) /\ EventsOK'
<1>1. /\ Len(events) \in Nat /\ DOMAIN events = 1..Len(events)
      /\ \A i \in DOMAIN events : events[i] \in Calls
  OBVIOUS
<1>2. \A c \in Calls : stage[c] # "idle" => stage'[c] # "idle"
  BY DEF CallMove, Stays, Advances, Fails, Sends, GivesUp, Answered
<1>3. CASE events' = events
  BY <1>1, <1>2, <1>3 DEF EventsOK, Tool
<1>4. ASSUME NEW c \in Calls, stage[c] = "idle", stage'[c] = "lookup", Tool(c) \in Tools,
             events' = Append(events, c)
      PROVE  events' \in Seq(Calls) /\ EventsOK'
  <2>1. /\ events' \in Seq(Calls) /\ DOMAIN events' = 1..Len(events) + 1
        /\ events'[Len(events) + 1] = c
        /\ \A i \in DOMAIN events : events'[i] = events[i]
    BY <1>1, <1>4, AppendProperties
  <2>2. \A i \in DOMAIN events : events[i] # c
    BY <1>4 DEF EventsOK
  <2>3. \A i \in DOMAIN events' : i \in DOMAIN events \/ i = Len(events) + 1
    BY <1>1, <2>1
  <2>4. ASSUME NEW i \in DOMAIN events', NEW k \in DOMAIN events', i # k PROVE events'[i] # events'[k]
    BY <2>1, <2>2, <2>3, <2>4 DEF EventsOK
  <2>5. ASSUME NEW i \in DOMAIN events' PROVE stage'[events'[i]] # "idle" /\ Tool(events'[i]) \in Tools
    BY <1>1, <1>2, <1>4, <2>1, <2>3 DEF EventsOK
  <2> QED
    BY <2>1, <2>4, <2>5 DEF EventsOK, Tool
<1> QED
  BY <1>3, <1>4 DEF EventMoves

\* The calls whose link may be wrong are known.
LEMMA NextMuddleOK ==
  ASSUME CallTypes, events \in Seq(Calls), EventsOK, MuddleOK, EventMoves, setup' = setup,
         muddled \subseteq muddled', \A c \in Calls : CallMove(c)
  PROVE  MuddleOK'
<1> DEFINE Early == {"lookup", "create", "link"}
<1>1. /\ Len(events) \in Nat /\ DOMAIN events = 1..Len(events)
      /\ \A i \in DOMAIN events : events[i] \in Calls
  OBVIOUS
<1>2. \A c \in Calls : stage'[c] \in Early => stage[c] \in Early \/ stage[c] = "idle"
  BY DEF CallMove, Stays, Advances, Fails, Sends, GivesUp, Answered
<1>3. \A i \in DOMAIN events : stage'[events[i]] \in Early => stage[events[i]] \in Early
  BY <1>1, <1>2 DEF EventsOK
<1>4. CASE /\ events' = events
           /\ \A c \in Calls : stage[c] = "idle" /\ stage'[c] # "idle" /\ Tool(c) \in Tools =>
                \A d \in Calls : Tool(d) = Tool(c) => d \in muddled'
  <2>1. ASSUME NEW c \in Calls, NEW d \in Calls, Tool(c) \in Tools, Tool(d) = Tool(c),
               stage'[c] # "idle", ~HasEvent(c)'
        PROVE  d \in muddled'
    <3>1. ~HasEvent(c)
      BY <1>4, <2>1 DEF HasEvent
    <3> QED
      BY <1>4, <2>1, <3>1 DEF MuddleOK
  <2>2. ASSUME NEW i \in DOMAIN events', NEW k \in DOMAIN events', k < i,
               Tool(events'[i]) = Tool(events'[k]), stage'[events'[k]] \in Early
        PROVE  events'[i] \in muddled'
    BY <1>3, <1>4, <2>2 DEF MuddleOK
  <2> QED
    BY <2>1, <2>2 DEF MuddleOK, Tool
<1>5. ASSUME NEW e \in Calls, stage[e] = "idle", stage'[e] = "lookup", Tool(e) \in Tools,
             \A d \in Calls \ {e} : Stays(d), events' = Append(events, e),
             Unlinked(e) # {} => e \in muddled'
      PROVE  MuddleOK'
  <2>1. /\ DOMAIN events' = 1..Len(events) + 1 /\ events'[Len(events) + 1] = e
        /\ \A i \in DOMAIN events : i \in DOMAIN events' /\ events'[i] = events[i]
    BY <1>1, <1>5, AppendProperties
  <2>2. \A i \in DOMAIN events' : i \in DOMAIN events \/ i = Len(events) + 1
    BY <1>1, <2>1
  <2>3. ASSUME NEW c \in Calls, NEW d \in Calls, Tool(c) \in Tools, Tool(d) = Tool(c),
               stage'[c] # "idle", ~HasEvent(c)'
        PROVE  d \in muddled'
    <3>1. ~HasEvent(c) /\ c # e
      BY <1>1, <2>1, <2>3 DEF HasEvent
    <3>2. stage[c] # "idle"
      BY <1>5, <2>3, <3>1 DEF Stays
    <3> QED
      BY <2>3, <3>1, <3>2 DEF MuddleOK
  <2>4. ASSUME NEW i \in DOMAIN events', NEW k \in DOMAIN events', k < i,
               Tool(events'[i]) = Tool(events'[k]), stage'[events'[k]] \in Early
        PROVE  events'[i] \in muddled'
    <3>1. k \in DOMAIN events
      BY <1>1, <2>1, <2>2, <2>4
    <3>2. events'[k] = events[k] /\ stage[events[k]] \in Early /\ events[k] \in Calls
      BY <1>1, <1>3, <2>1, <2>4, <3>1
    <3>3. CASE i \in DOMAIN events
      BY <2>1, <2>4, <3>1, <3>2, <3>3 DEF MuddleOK
    <3>4. CASE i = Len(events) + 1
      <4>1. events[k] \in Unlinked(e)
        BY <1>5, <2>1, <2>4, <3>2, <3>4 DEF Unlinked
      <4> QED
        BY <1>5, <2>1, <3>4, <4>1
    <3> QED
      BY <2>2, <3>3, <3>4
  <2> QED
    BY <2>3, <2>4 DEF MuddleOK, Tool
<1> QED
  BY <1>4, <1>5 DEF EventMoves

\* One thread makes a link.
LEMMA OneChildFacts ==
  /\ {} \in OneChild
  /\ \A t \in Children : {t} \in OneChild
BY FS_EmptySet, FS_Singleton DEF OneChild

\* The run of a link is 0 or a run with its row, and its status that of the run.
LEMMA NextLinksOK ==
  ASSUME WorkTypes, CallTypes, LinkTypes, LinksOK, LinksFollowRuns, WorkMoves, LinkMoves
  PROVE  link' \in [Calls -> Link'] /\ LinksOK' /\ LinksFollowRuns'
<1>1. /\ Len(runs) \in Nat /\ Len(runs') \in Nat /\ RunIds \subseteq RunIds'
      /\ \A q \in RunIds' \ RunIds : q # 0
      /\ \A q \in RunIds : runs'[q].stage = "begin" => runs[q].stage = "begin"
  <2>1. runs' \in Seq(Run)
    BY DEF WorkTypes, WorkMoves, Kept, Accepted, Started, Drained, Begun
  <2>2. runs' = runs => RunIds' = RunIds
    BY DEF RunIds
  <2>3. RunIds \subseteq RunIds' /\ \A q \in RunIds : runs'[q].stage = "begin" => runs[q].stage = "begin"
    BY <2>2 DEF WorkMoves, Kept, Accepted, Started, Drained, Begun, Steady
  <2> QED
    BY <2>1, <2>3 DEF WorkTypes, RunIds
<1>2. 0..Len(runs) = RunIds \cup {0} /\ 0..Len(runs') = RunIds' \cup {0} /\ 0 \notin RunIds
  BY <1>1 DEF RunIds
<1>3. link \in [Calls -> [child : OneChild, run : RunIds \cup {0}, status : {"none", "queued"} \cup RowStatus]]
  BY <1>2 DEF LinkTypes, Link
<1>4. Link' = [child : OneChild, run : RunIds' \cup {0}, status : {"none", "queued"} \cup RowStatus]
  BY <1>2 DEF Link, OneChild
<1> DEFINE Ok(c) ==
      /\ link'[c] \in [child : OneChild, run : RunIds \cup {0}, status : {"none", "queued"} \cup RowStatus]
      /\ \A r \in RunIds : link'[c].run = r => runs'[r].stage # "begin"
      /\ IF link'[c].run = 0 THEN link'[c].status \in {"none", "queued"}
                             ELSE link'[c].status = runs'[link'[c].run].status
<1>5. SUFFICES link' = [c \in Calls |-> link'[c]] /\ \A c \in Calls : Ok(c)
  <2>1. ASSUME link' = [c \in Calls |-> link'[c]], \A c \in Calls : Ok(c)
        PROVE  link' \in [Calls -> Link'] /\ LinksOK' /\ LinksFollowRuns'
    <3>1. \A c \in Calls : link'[c] \in Link'
      BY <1>1, <1>4, <2>1
    <3>2. \A c \in Calls : \A r \in RunIds' : link'[c].run = r => runs'[r].stage # "begin"
      BY <1>1, <2>1
    <3> QED
      BY <2>1, <3>1, <3>2 DEF LinksOK, LinksFollowRuns
  <2> QED
    BY <2>1
<1>6. link' = [c \in Calls |-> link'[c]]
  BY <1>3 DEF LinkMoves, LinksCall, NotesStatus, StatusAt, NamesRun
<1>7. \A c \in Calls :
        /\ link[c] \in [child : OneChild, run : RunIds \cup {0}, status : {"none", "queued"} \cup RowStatus]
        /\ \A r \in RunIds : link[c].run = r => runs[r].stage # "begin"
        /\ link[c].run = 0 => link[c].status \in {"none", "queued"}
        /\ link[c].run # 0 => link[c].run \in RunIds /\ link[c].status = runs[link[c].run].status
  BY <1>3 DEF LinksOK, LinksFollowRuns
<1>8. ASSUME NEW c \in Calls, link'[c] = link[c],
             link[c].run # 0 => runs'[link[c].run].status = runs[link[c].run].status
      PROVE  Ok(c)
  BY <1>1, <1>7, <1>8
<1>9. CASE link' = link /\ Quiet
  BY <1>6, <1>7, <1>8, <1>9 DEF Quiet
<1>10. ASSUME NEW e \in Calls, LinksCall(e), NEW c \in Calls PROVE Ok(c)
  <2>1. CASE c \in ToolEvent(e)
    <3>1. link'[c] = Queued(e) /\ {Child(e)} \in OneChild
      BY <1>10, <2>1, SetupTypes, OneChildFacts DEF LinksCall, CallTypes
    <3> QED
      BY <1>2, <3>1 DEF Queued
  <2>2. CASE c \notin ToolEvent(e)
    BY <1>7, <1>8, <1>10, <2>2 DEF LinksCall, Quiet
  <2> QED
    BY <2>1, <2>2
<1>11. ASSUME NEW r \in RunIds, runs'[r] \in Run, NotesStatus(r), NEW c \in Calls PROVE Ok(c)
  <2>1. CASE link[c].run = r
    <3>1. PICK x : x = [link[c] EXCEPT !.status = runs'[r].status]
      OBVIOUS
    <3>2. link'[c] = x
      BY <1>11, <2>1, <3>1 DEF NotesStatus, StatusAt, RunEvent
    <3>3. runs'[r].status \in RowStatus
      BY <1>11 DEF Run
    <3>4. /\ x \in [child : OneChild, run : RunIds \cup {0}, status : {"none", "queued"} \cup RowStatus]
          /\ x.run = r /\ x.status = runs'[r].status
      BY <1>7, <2>1, <3>1, <3>3
    <3>5. runs'[r].stage # "begin"
      BY <1>1, <1>7, <2>1
    <3> QED
      BY <1>2, <3>2, <3>4, <3>5
  <2>2. CASE link[c].run # r
    <3>1. link'[c] = link[c]
      BY <1>11, <2>2 DEF NotesStatus, StatusAt, RunEvent
    <3> QED
      BY <1>7, <1>8, <1>11, <2>2, <3>1 DEF NotesStatus, OnlyRun
  <2> QED
    BY <2>1, <2>2
<1>12. ASSUME NEW r \in RunIds, runs'[r] \in Run, NamesRun(r), NEW c \in Calls PROVE Ok(c)
  <2>1. CASE c \in ChildEvent(runs[r].thread)
    <3>1. PICK x : x = [link[c] EXCEPT !.run = r, !.status = "running"]
      OBVIOUS
    <3>2. link'[c] = x
      BY <1>12, <2>1, <3>1 DEF NamesRun
    <3>3. /\ x \in [child : OneChild, run : RunIds \cup {0}, status : {"none", "queued"} \cup RowStatus]
          /\ x.run = r /\ x.status = "running"
      BY <1>7, <3>1 DEF RowStatus
    <3> QED
      BY <1>2, <1>12, <3>2, <3>3 DEF NamesRun
  <2>2. CASE c \notin ChildEvent(runs[r].thread)
    <3>1. link'[c] = link[c] /\ link[c].run # r
      BY <1>7, <1>12, <2>2 DEF NamesRun
    <3> QED
      BY <1>7, <1>8, <1>12, <3>1 DEF NamesRun, OnlyRun
  <2> QED
    BY <2>1, <2>2
<1> QED
  BY <1>6, <1>9, <1>10, <1>11, <1>12 DEF LinkMoves

\* The latest event of the tool is that of the call, if it had one of its own
\* and no other of the tool began before it was linked.
LEMMA NextLinksOwnChild ==
  ASSUME CallTypes, LinkTypes, CallsOK, MuddleOK, LinksOwnChild, LinkMoves, setup' = setup,
         muddled \subseteq muddled'
  PROVE  LinksOwnChild'
<1> SUFFICES ASSUME NEW c \in Calls, c \notin muddled PROVE link'[c].child \subseteq {Child(c)}
  BY DEF LinksOwnChild, Child
<1>1. link[c].child \subseteq {Child(c)} /\ link[c] \in Link
  BY DEF LinksOwnChild, LinkTypes
<1>2. ASSUME NEW e \in Calls, LinksCall(e) PROVE link'[c].child \subseteq {Child(c)}
  <2>1. CASE c \in ToolEvent(e)
    <3>1. PICK i \in DOMAIN events :
            /\ events[i] = c /\ Tool(c) = Tool(e)
            /\ \A j \in DOMAIN events : j > i => events[j] \notin {d \in Calls : Tool(d) = Tool(e)}
      BY <2>1 DEF ToolEvent, Latest
    <3>2. stage[e] = "link" /\ Tool(e) \in Tools
      BY <1>2 DEF LinksCall, CallsOK
    <3>3. HasEvent(e)
      BY <3>1, <3>2 DEF MuddleOK
    <3>4. PICK k \in DOMAIN events : events[k] = e
      BY <3>3 DEF HasEvent
    <3>5. i \in Int /\ k \in Int
      BY DEF LinkTypes
    <3>6. ~(k > i)
      BY <3>1, <3>4
    <3>7. ~(k < i)
      BY <3>1, <3>2, <3>4 DEF MuddleOK
    <3>8. c = e
      BY <3>1, <3>4, <3>5, <3>6, <3>7
    <3> QED
      BY <1>2, <2>1, <3>8 DEF LinksCall, Queued
  <2>2. CASE c \notin ToolEvent(e)
    BY <1>1, <1>2, <2>2 DEF LinksCall
  <2> QED
    BY <2>1, <2>2
<1>3. ASSUME NEW r \in RunIds, NotesStatus(r) \/ NamesRun(r) PROVE link'[c].child \subseteq {Child(c)}
  <2>1. link'[c].child = link[c].child
    BY <1>1, <1>3 DEF NotesStatus, StatusAt, NamesRun, Link
  <2> QED
    BY <1>1, <2>1
<1> QED
  BY <1>1, <1>2, <1>3 DEF LinkMoves

-----------------------------------------------------------------------------
\* The types in their parts.
LEMMA TypeParts == TypeOK <=> CallTypes /\ WorkTypes /\ WaitersOK /\ RestTypes /\ LinkTypes
BY DEF TypeOK, CallTypes, WorkTypes, WaitersOK, RestTypes, LinkTypes, Link, OneChild

\* The invariant holds at first.
LEMMA InitDelegationInv == Init => DelegationInv
<1> SUFFICES ASSUME Init PROVE DelegationInv
  OBVIOUS
<1>1. RunIds = {} /\ Len(runs) = 0 /\ runs \in Seq(Run)
  BY DEF Init, RunIds
<1>2. CallTypes
  BY <1>1 DEF Init, CallTypes
<1>3. WorkTypes
  BY <1>1 DEF Init, WorkTypes
<1>4. WaitersOK
  BY DelegationAssumption DEF Init, WaitersOK, DelegationAssumption
<1>5. RestTypes
  BY DEF Init, RestTypes
<1>6. LinkTypes
  BY <1>1, OneChildFacts DEF Init, LinkTypes, Link, NoLink
<1>7. CallsOK
  BY <1>1, <1>2, SetupTypes DEF Init, CallsOK, Sent, Taken, CallTypes
<1>8. SentOK /\ AnswersOK /\ RunsOK /\ BufferOK
  BY <1>1, <1>2, SetupTypes DEF Init, SentOK, Sent, Taken, AnswersOK, RunsOK, BufferOK, CallTypes
<1>9. EventsOK /\ MuddleOK
  BY DEF Init, EventsOK, MuddleOK
<1>10. LinksOK /\ LinksFollowRuns /\ LinksOwnChild
  BY <1>1 DEF Init, LinksOK, LinksFollowRuns, LinksOwnChild, NoLink
<1>11. AnswersOwn
  BY DEF Init, AnswersOwn
<1> QED
  BY <1>2, <1>3, <1>4, <1>5, <1>6, <1>7, <1>8, <1>9, <1>10, <1>11, TypeParts DEF DelegationInv

\* Every step keeps the invariant.
LEMMA StepDelegationInv == DelegationInv /\ Next => DelegationInv'
<1> SUFFICES ASSUME DelegationInv, Next PROVE DelegationInv'
  OBVIOUS
<1>1. /\ CallTypes /\ WorkTypes /\ WaitersOK /\ RestTypes /\ LinkTypes
      /\ CallsOK /\ SentOK /\ AnswersOK /\ RunsOK /\ BufferOK /\ EventsOK /\ MuddleOK
      /\ LinksOK /\ LinksFollowRuns /\ LinksOwnChild /\ AnswersOwn
  BY TypeParts DEF DelegationInv
<1>2. WorkMoves /\ (\A c \in Calls : CallMove(c)) /\ LinkMoves /\ EventMoves
  BY <1>1, NextMoves, NextLinks, NextEvents
<1>3. RestMoves
  BY <1>1, NextRest
<1>4. setup' = setup /\ muddled \subseteq muddled' /\ RestTypes'
  BY <1>3 DEF RestMoves
<1>5. CallTypes' /\ WorkTypes'
  BY <1>1, <1>2, <1>3, NextCallTypes, NextWorkTypes
<1>6. WaitersOK'
  BY <1>1, NextWaiters
<1>7. CallsOK' /\ SentOK'
  BY <1>1, <1>2, <1>3, NextCallsOK, NextSentOK
<1>8. AnswersOK' /\ RunsOK' /\ BufferOK'
  BY <1>1, <1>2, <1>4, NextAnswersOK, NextRunsOK, NextBufferOK
<1>9. AnswersOwn'
  BY <1>1, <1>2, <1>4, NextAnswersOwn
<1>10. events' \in Seq(Calls) /\ EventsOK'
  BY <1>1, <1>2, <1>4, NextEventsOK DEF LinkTypes
<1>11. MuddleOK'
  BY <1>1, <1>2, <1>4, NextMuddleOK DEF LinkTypes
<1>12. link' \in [Calls -> Link'] /\ LinksOK' /\ LinksFollowRuns'
  BY <1>1, <1>2, NextLinksOK
<1>13. LinksOwnChild'
  BY <1>1, <1>2, <1>4, NextLinksOwnChild
<1>14. LinkTypes'
  BY <1>10, <1>12 DEF LinkTypes
<1>15. TypeOK'
  <2>1. (TypeOK <=> CallTypes /\ WorkTypes /\ WaitersOK /\ RestTypes /\ LinkTypes)'
    BY TypeParts, PTL
  <2> QED
    BY <1>4, <1>5, <1>6, <1>14, <2>1
<1> QED
  BY <1>7, <1>8, <1>9, <1>10, <1>11, <1>12, <1>13, <1>15 DEF DelegationInv

\* So does a step of something else.
LEMMA NextDelegationInv == DelegationInv /\ [Next]_vars => DelegationInv'
<1> SUFFICES ASSUME DelegationInv, UNCHANGED vars PROVE DelegationInv'
  BY StepDelegationInv
<1> USE DEF vars, linkVars, callVars, nodeVars, workVars
<1>1. TypeOK'
  BY DEF DelegationInv, TypeOK, Tool, Child, RunIds
<1>2. CallsOK' /\ SentOK'
  BY DEF DelegationInv, CallsOK, SentOK, Settled, Sent, Taken, Tool, Child, RunIds
<1>3. AnswersOK' /\ RunsOK' /\ BufferOK'
  BY DEF DelegationInv, AnswersOK, RunsOK, BufferOK, Taken, Tool, Child, RunIds
<1>4. EventsOK' /\ MuddleOK'
  BY DEF DelegationInv, EventsOK, MuddleOK, HasEvent, Tool
<1>5. LinksOK' /\ LinksFollowRuns' /\ LinksOwnChild' /\ AnswersOwn'
  BY DEF DelegationInv, LinksOK, LinksFollowRuns, LinksOwnChild, AnswersOwn, GivenUp, Tool, Child, RunIds
<1> QED
  BY <1>1, <1>2, <1>3, <1>4, <1>5 DEF DelegationInv

\* CallAgentLinkingService finds the event of a call by the name of its tool
\* and the run of a link by the thread: whatever calls and runs come in
\* between, the status shown at an event is that of the run it names, and a
\* call that began alone, with an event of its own, shows its own child.
THEOREM LinksStayRight == Spec => []LinksRight
<1>1. DelegationInv => LinksRight
  BY DEF DelegationInv, LinksRight
<1> QED
  BY <1>1, InitDelegationInv, NextDelegationInv, PTL DEF Spec

\* What ManageToolNode and call_agent return to a call was made of its own
\* message, or of one that a user wrote or whose call timed out or was refused
\* a waiter; and never does a waiter outlive its call or a timer its waiter,
\* though a text is matched to a waiter by the thread alone.
THEOREM AnswersStayFit == Spec => []AnswersFit
<1>1. DelegationInv => AnswersFit
  BY DEF DelegationInv, AnswersFit, AnswersOwn, GivenUp
<1> QED
  BY <1>1, InitDelegationInv, NextDelegationInv, PTL DEF Spec
=============================================================================
