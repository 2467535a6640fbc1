------------------------- MODULE AgentThreadsProofs -------------------------
(***************************************************************************)
(* Proofs about AgentThreads for any threads, messages, configurations,    *)
(* number of invocations and set of faults.                                *)
(***************************************************************************)
EXTENDS AgentThreads, SequenceTheorems, TLAPS

\* The outcome a run is about to record has been decided.
OutcomeDecided == \A r \in RunIds : pc[r] = "complete" => outcome[r] \in Terminal

TypeInv == TypeOK /\ OutcomeDecided

\* The buffer operations keep to sequences of messages.
LEMMA BufferTypes ==
  ASSUME TypeOK, NEW t \in Threads, NEW mode \in ProcessBuffer, queue[t] # <<>>
  PROVE  Drained(t, mode) \in Seq(Messages) /\ Undrained(t, mode) \in Seq(Messages)
<1>1. queue[t] \in Seq(Messages)
  BY DEF TypeOK
<1>2. Head(queue[t]) \in Messages /\ Tail(queue[t]) \in Seq(Messages)
  BY <1>1, HeadTailProperties
<1>3. <<Head(queue[t])>> \in Seq(Messages) /\ <<>> \in Seq(Messages)
  BY <1>2
<1> QED
  BY <1>1, <1>2, <1>3 DEF Drained, Undrained

\* The types hold at first.
LEMMA InitTypeInv == Init => TypeInv
<1> SUFFICES ASSUME Init PROVE TypeInv
  OBVIOUS
<1> USE ConstantsAssumption
<1>1. (CHOOSE t \in Threads : TRUE) \in Threads
  BY DEF ConstantsAssumption
<1>2. DefaultBehavior \in Behavior
  BY DEF DefaultBehavior, Behavior, WhenBusy, ProcessBuffer
<1>3. started \in 0 .. MaxRuns
  BY DEF Init, ConstantsAssumption
<1>4. <<>> \in Seq(Messages)
  OBVIOUS
<1>5. TypeOK
  BY <1>1, <1>2, <1>3, <1>4 DEF Init, TypeOK, LiveStages, Terminal
<1> QED
  BY <1>5 DEF Init, TypeInv, OutcomeDecided

\* An invocation starts with a fresh number; its messages are a sequence.
LEMMA StartTypes ==
  ASSUME TypeInv, NEW t \in Threads, NEW msgs \in Seq(Messages), StartInvocation(t, msgs)
  PROVE  /\ started + 1 \in RunIds
         /\ started' \in 0 .. MaxRuns
         /\ runningThreads' \subseteq Threads
         /\ thread' \in [RunIds -> Threads]
         /\ batch' \in [RunIds -> Seq(Messages)]
<1> USE ConstantsAssumption DEF ConstantsAssumption
<1> QED
  BY DEF TypeInv, TypeOK, StartInvocation, RunIds

\* Every step keeps the types.
LEMMA NextTypeInv == TypeInv /\ [Next]_vars => TypeInv'
<1> SUFFICES ASSUME TypeInv, [Next]_vars PROVE TypeInv'
  OBVIOUS
<1> USE ConstantsAssumption DEF ConstantsAssumption, TypeInv, TypeOK, OutcomeDecided, LiveStages, Terminal,
        dbVars, bufferVars, localVars, invocationVars, signalVars, controlVars
<1>1. ASSUME NEW m \in Messages, ReadThread(m) PROVE TypeInv'
  BY <1>1 DEF ReadThread
<1>2. ASSUME NEW m \in Messages, Invoke(m) PROVE TypeInv'
  <2>0. To[m] \in Threads /\ <<m>> \in Seq(Messages)
    OBVIOUS
  <2>1. CASE Busy(To[m])
    <3>1. Append(queue[To[m]], m) \in Seq(Messages)
      BY <2>0, AppendProperties
    <3>2. queue' \in [Threads -> Seq(Messages)] /\ settled' \in [Threads -> BOOLEAN]
      BY <1>2, <2>0, <2>1, <3>1 DEF Invoke, Enqueue
    <3> QED
      BY <1>2, <2>1, <3>2 DEF Invoke
  <2>2. CASE ~Busy(To[m])
    <3>1. StartInvocation(To[m], <<m>>)
      BY <1>2, <2>2 DEF Invoke
    <3>2. /\ started + 1 \in RunIds /\ started' \in 0 .. MaxRuns
          /\ runningThreads' \subseteq Threads /\ thread' \in [RunIds -> Threads]
          /\ batch' \in [RunIds -> Seq(Messages)]
      BY <2>0, <3>1, StartTypes
    <3> QED
      BY <1>2, <2>2, <3>2 DEF Invoke, GoTo
  <2> QED
    BY <2>1, <2>2
<1>3. ASSUME NEW r \in RunIds, BeginRun(r) PROVE TypeInv'
  BY <1>3 DEF BeginRun, GoTo
<1>4. ASSUME NEW r \in RunIds, AssignAgent(r) PROVE TypeInv'
  BY <1>4 DEF AssignAgent, GoTo
<1>5. ASSUME NEW r \in RunIds, EnsureModel(r) PROVE TypeInv'
  BY <1>5 DEF EnsureModel, GoTo, Register
<1>6. ASSUME NEW r \in RunIds, PrepareLoop(r) PROVE TypeInv'
  BY <1>6 DEF PrepareLoop, GoTo
<1>7. ASSUME NEW r \in RunIds, RecordInjected(r) PROVE TypeInv'
  BY <1>7 DEF RecordInjected, GoTo
<1>8. ASSUME NEW r \in RunIds, LoopReturns(r) PROVE TypeInv'
  BY <1>8 DEF LoopReturns, GoTo, LoopOutcome
<1>9. ASSUME NEW r \in RunIds, CompleteRun(r) PROVE TypeInv'
  BY <1>9 DEF CompleteRun, GoTo
<1>10. ASSUME NEW r \in RunIds, FailRun(r) PROVE TypeInv'
  BY <1>10 DEF FailRun, GoTo, FailedStatus
<1>11. ASSUME NEW r \in RunIds, Finish(r) PROVE TypeInv'
  <2> DEFINE t == thread[r]
             mode == behavior[r].processBuffer
  <2>1. t \in Threads /\ mode \in ProcessBuffer
    BY DEF Behavior
  <2>2. entries' \subseteq RunIds /\ raised' \subseteq entries'
    BY <1>11 DEF Finish, ClearSignal
  <2>3. CASE Drainable(t)
    <3>1. Drained(t, mode) \in Seq(Messages) /\ Undrained(t, mode) \in Seq(Messages)
      BY <2>1, <2>3, BufferTypes DEF Drainable
    <3>2. StartInvocation(t, Drained(t, mode))
      BY <1>11, <2>3 DEF Finish
    <3>3. /\ started + 1 \in RunIds /\ started' \in 0 .. MaxRuns
          /\ runningThreads' \subseteq Threads /\ thread' \in [RunIds -> Threads]
          /\ batch' \in [RunIds -> Seq(Messages)]
      BY <2>1, <3>1, <3>2, StartTypes
    <3>4. queue' \in [Threads -> Seq(Messages)] /\ settled' = settled
      <4>1. queue' = [queue EXCEPT ![t] = Undrained(t, mode)] /\ settled' = settled
        BY <1>11, <2>3 DEF Finish
      <4> QED
        BY <2>1, <3>1, <4>1
    <3>5. pc' = [pc EXCEPT ![r] = "done", ![started + 1] = "begin"]
      BY <1>11, <2>3 DEF Finish
    <3> QED
      BY <1>11, <2>2, <3>3, <3>4, <3>5 DEF Finish
  <2>4. CASE ~Drainable(t)
    BY <1>11, <2>2, <2>4 DEF Finish, GoTo
  <2> QED
    BY <2>3, <2>4
<1>12. ASSUME NEW r \in RunIds, FinishFailed(r) PROVE TypeInv'
  BY <1>12 DEF FinishFailed, GoTo, ClearSignal
<1>13. ASSUME NEW r \in RunIds, InjectAfterTools(r) PROVE TypeInv'
  <2> DEFINE t == thread[r]
             mode == behavior[r].processBuffer
  <2>1. t \in Threads /\ mode \in ProcessBuffer
    BY DEF Behavior
  <2>2. queue[t] # <<>>
    BY <1>13 DEF InjectAfterTools, Drainable
  <2>3. Drained(t, mode) \in Seq(Messages) /\ Undrained(t, mode) \in Seq(Messages)
    BY <2>1, <2>2, BufferTypes
  <2> QED
    BY <1>13, <2>1, <2>3 DEF InjectAfterTools, GoTo
<1>14. ASSUME NEW r \in RunIds, BeginFails(r) PROVE TypeInv'
  BY <1>14 DEF BeginFails, GoTo
<1>15. ASSUME NEW r \in RunIds, Throw(r) PROVE TypeInv'
  BY <1>15 DEF Throw, GoTo
<1>16. ASSUME NEW r \in RunIds, FailRunFails(r) PROVE TypeInv'
  BY <1>16 DEF FailRunFails, GoTo
<1>17. ASSUME NEW r \in RunIds, ReadRun(r) PROVE TypeInv'
  BY <1>17 DEF ReadRun
<1>18. ASSUME NEW r \in RunIds, TerminateRun(r) PROVE TypeInv'
  BY <1>18 DEF TerminateRun, ActivateTerminate
<1>19. ASSUME NEW t \in Threads, Settle(t) PROVE TypeInv'
  BY <1>19 DEF Settle
<1>20. ASSUME NEW t \in Threads, ClearQueuedMessages(t) PROVE TypeInv'
  BY <1>20 DEF ClearQueuedMessages
<1>21. ASSUME NEW t \in Threads, PatchThread(t) PROVE TypeInv'
  <2>1. threadStatus' \in [Threads -> {"open", "closed"}]
    <3>1. \E s \in {"open", "closed"} : threadStatus' = [threadStatus EXCEPT ![t] = s]
      BY <1>21 DEF PatchThread
    <3> QED
      BY <3>1
  <2>2. closing' \in [Threads -> {"no", "collect", "list"}]
    BY <1>21 DEF PatchThread
  <2> QED
    BY <1>21, <2>1, <2>2 DEF PatchThread
<1>22. ASSUME NEW t \in Threads, CascadeCloses(t) PROVE TypeInv'
  BY <1>22 DEF CascadeCloses
<1>23. ASSUME NEW t \in Threads, CascadeListsRuns(t) PROVE TypeInv'
  BY <1>23 DEF CascadeListsRuns
<1>24. CASE Crash
  <2>1. \A r \in RunIds : pc'[r] \in {"done", pc[r]}
    BY <1>24 DEF Crash
  <2>2. pc' \in [RunIds -> LiveStages \union {"none", "done"}]
    BY <1>24 DEF Crash
  <2>3. OutcomeDecided'
    BY <1>24, <2>1 DEF Crash
  <2>4. queue' \in [Threads -> Seq(Messages)] /\ batch' \in [RunIds -> Seq(Messages)]
    BY <1>24 DEF Crash
  <2>5. request' \in [Messages -> {"unsent", "admitted", "accepted", "refused", "lost"}]
    BY <1>24 DEF Crash
  <2>6. closing' \in [Threads -> {"no", "collect", "list"}] /\ settled' \in [Threads -> BOOLEAN]
    BY <1>24 DEF Crash
  <2> QED
    BY <1>24, <2>2, <2>3, <2>4, <2>5, <2>6 DEF Crash
<1>25. CASE Recover
  BY <1>25 DEF Recover, RecoveredStatus
<1>26. CASE UNCHANGED vars
  BY <1>26 DEF vars
<1>27. ASSUME NEW m \in Messages, PostMessage(m) \/ InvokeFromTool(m) PROVE TypeInv'
  BY <1>2, <1>27 DEF PostMessage, InvokeFromTool
<1>28. ASSUME NEW r \in RunIds, InvocationStep(r) PROVE TypeInv'
  BY <1>28, <1>3, <1>4, <1>5, <1>6, <1>7, <1>8, <1>9, <1>10, <1>11, <1>12 DEF InvocationStep
<1> HIDE DEF ConstantsAssumption, TypeInv, TypeOK, OutcomeDecided
<1> QED
  BY <1>1, <1>13, <1>14, <1>15, <1>16, <1>17, <1>18, <1>19, <1>20, <1>21, <1>22,
     <1>23, <1>24, <1>25, <1>26, <1>27, <1>28 DEF Next

\* Every variable keeps its type, whatever fails and however steps interleave.
THEOREM TypeCorrect == Spec => []TypeOK
<1>1. Init => TypeInv
  BY InitTypeInv
<1>2. TypeInv /\ [Next]_vars => TypeInv'
  BY NextTypeInv
<1>3. TypeInv => TypeOK
  BY DEF TypeInv
<1> QED
  BY <1>1, <1>2, <1>3, PTL DEF Spec
-----------------------------------------------------------------------------
(***************************************************************************)
(* One invocation per thread.  Invocations are numbered in order, so that  *)
(* the number the next one gets is that of no invocation in progress.      *)
(***************************************************************************)
Fresh == \A r \in RunIds : r > started => pc[r] = "none"

OneInv == OneInvocationPerThread /\ Fresh

progress == <<runningThreads, started, thread>>

\* A step between two awaits of an invocation.
LEMMA StageStep ==
  ASSUME TypeInv, OneInv, NEW r \in RunIds, NEW s \in LiveStages, Live(r),
         GoTo(r, s), UNCHANGED progress
  PROVE  OneInv'
<1> USE DEF TypeInv, TypeOK, progress, GoTo
<1>1. \A x \in RunIds : (Live(x))' <=> Live(x)
  BY DEF Live
<1>2. OneInvocationPerThread'
  BY <1>1 DEF OneInv, OneInvocationPerThread, Busy
<1>3. Fresh'
  BY DEF OneInv, Fresh, Live, LiveStages
<1> QED
  BY <1>2, <1>3 DEF OneInv

\* A step that is not one of an invocation.
LEMMA OtherStep ==
  ASSUME OneInv, UNCHANGED <<pc, progress>>
  PROVE  OneInv'
BY DEF OneInv, OneInvocationPerThread, Fresh, Live, Busy, progress

\* An invocation ends and releases its thread.
LEMMA EndStep ==
  ASSUME TypeInv, OneInv, NEW r \in RunIds, Live(r), GoTo(r, "done"),
         runningThreads' = runningThreads \ {thread[r]}, UNCHANGED <<started, thread>>
  PROVE  OneInv'
<1> USE DEF TypeInv, TypeOK, GoTo
<1>1. \A x \in RunIds : (Live(x))' <=> Live(x) /\ x # r
  BY DEF Live, LiveStages
<1>2. OneInvocationPerThread'
  BY <1>1 DEF OneInv, OneInvocationPerThread, Busy
<1>3. Fresh'
  BY DEF OneInv, Fresh, Live, LiveStages
<1> QED
  BY <1>2, <1>3 DEF OneInv

\* An invocation starts on a thread that has none ...
LEMMA StartStep ==
  ASSUME TypeInv, OneInv, NEW t \in Threads, NEW msgs, ~Busy(t),
         StartInvocation(t, msgs), GoTo(started + 1, "begin")
  PROVE  OneInv'
<1> USE ConstantsAssumption DEF ConstantsAssumption, TypeInv, TypeOK, GoTo, StartInvocation
<1> DEFINE n == started + 1
<1>1. n \in RunIds /\ pc[n] = "none"
  BY DEF OneInv, Fresh, RunIds
<1>2. ~Live(n) /\ \A x \in RunIds : Live(x) => thread[x] # t
  BY <1>1 DEF Live, LiveStages, OneInv, OneInvocationPerThread
<1>3. \A x \in RunIds : (Live(x))' <=> Live(x) \/ x = n
  BY <1>1 DEF Live, LiveStages
<1>4. \A x \in RunIds : thread'[x] = IF x = n THEN t ELSE thread[x]
  BY <1>1
<1>5. OneInvocationPerThread'
  BY <1>1, <1>2, <1>3, <1>4 DEF OneInv, OneInvocationPerThread, Busy
<1>6. Fresh'
  BY <1>1 DEF OneInv, Fresh, RunIds
<1> QED
  BY <1>5, <1>6 DEF OneInv

\* ... or on the thread of the one that ends in the same step.
LEMMA RestartStep ==
  ASSUME TypeInv, OneInv, NEW r \in RunIds, NEW msgs, Live(r),
         StartInvocation(thread[r], msgs),
         pc' = [pc EXCEPT ![r] = "done", ![started + 1] = "begin"]
  PROVE  OneInv'
<1> USE ConstantsAssumption DEF ConstantsAssumption, TypeInv, TypeOK, StartInvocation
<1> DEFINE n == started + 1
           t == thread[r]
<1>1. n \in RunIds /\ pc[n] = "none" /\ t \in Threads
  BY DEF OneInv, Fresh, RunIds
<1>2. ~Live(n) /\ n # r /\ \A x \in RunIds : Live(x) /\ thread[x] = t => x = r
  BY <1>1 DEF Live, LiveStages, OneInv, OneInvocationPerThread
<1>3. \A x \in RunIds : (Live(x))' <=> (Live(x) /\ x # r) \/ x = n
  BY <1>1, <1>2 DEF Live, LiveStages
<1>4. \A x \in RunIds : thread'[x] = IF x = n THEN t ELSE thread[x]
  BY <1>1
<1>5. OneInvocationPerThread'
  <2>1. \A x, y \in RunIds : (Live(x))' /\ (Live(y))' /\ thread'[x] = thread'[y] => x = y
    BY <1>1, <1>2, <1>3, <1>4 DEF OneInv, OneInvocationPerThread
  <2>2. runningThreads' = runningThreads /\ t \in runningThreads
    BY <1>1 DEF OneInv, OneInvocationPerThread, Busy
  <2>3. \A u \in Threads : u \in runningThreads <=>
          \E x \in RunIds : (Live(x))' /\ thread'[x] = u
    <3>1. ASSUME NEW u \in Threads, u # t
          PROVE  (\E x \in RunIds : Live(x) /\ thread[x] = u) <=>
                 \E x \in RunIds : (Live(x))' /\ thread'[x] = u
      BY <1>1, <1>2, <1>3, <1>4, <3>1
    <3>2. \E x \in RunIds : (Live(x))' /\ thread'[x] = t
      BY <1>1, <1>3, <1>4
    <3> QED
      BY <1>1, <2>2, <3>1, <3>2 DEF OneInv, OneInvocationPerThread, Busy
  <2> QED
    BY <2>1, <2>2, <2>3 DEF OneInvocationPerThread, Busy
<1>6. Fresh'
  BY <1>1, <1>2 DEF OneInv, Fresh, RunIds, Live, LiveStages
<1> QED
  BY <1>5, <1>6 DEF OneInv

\* No thread has an invocation at first.
LEMMA InitOneInv == Init => OneInv
BY DEF Init, OneInv, OneInvocationPerThread, Fresh, Busy, Live, LiveStages

\* Every step keeps one invocation for each thread.
LEMMA NextOneInv == TypeInv /\ OneInv /\ [Next]_vars => OneInv'
<1> SUFFICES ASSUME TypeInv, OneInv, [Next]_vars PROVE OneInv'
  OBVIOUS
<1> USE DEF dbVars, bufferVars, localVars, invocationVars, signalVars, controlVars, progress
<1>1. ASSUME NEW m \in Messages, Invoke(m) PROVE OneInv'
  <2>1. To[m] \in Threads
    BY ConstantsAssumption DEF ConstantsAssumption
  <2>2. CASE Busy(To[m])
    BY <1>1, <2>2, OtherStep DEF Invoke
  <2>3. CASE ~Busy(To[m])
    BY <1>1, <2>1, <2>3, StartStep DEF Invoke
  <2> QED
    BY <2>2, <2>3
<1>2. ASSUME NEW r \in RunIds, InvocationStep(r) PROVE OneInv'
  <2>1. CASE BeginRun(r)
    BY <2>1, StageStep DEF BeginRun, Live, LiveStages
  <2>2. CASE AssignAgent(r)
    BY <2>2, StageStep DEF AssignAgent, Live, LiveStages
  <2>3. CASE EnsureModel(r)
    BY <2>3, StageStep DEF EnsureModel, Live, LiveStages
  <2>4. CASE PrepareLoop(r)
    BY <2>4, StageStep DEF PrepareLoop, Live, LiveStages
  <2>5. CASE RecordInjected(r)
    BY <2>5, StageStep DEF RecordInjected, Live, LiveStages
  <2>6. CASE LoopReturns(r)
    BY <2>6, StageStep DEF LoopReturns, Live, LiveStages
  <2>7. CASE CompleteRun(r)
    BY <2>7, StageStep DEF CompleteRun, Live, LiveStages
  <2>8. CASE FailRun(r)
    BY <2>8, StageStep DEF FailRun, Live, LiveStages
  <2>9. CASE FinishFailed(r)
    BY <2>9, EndStep DEF FinishFailed, Live, LiveStages
  <2>10. CASE Finish(r)
    <3>1. Live(r)
      BY <2>10 DEF Finish, Live, LiveStages
    <3>2. CASE Drainable(thread[r])
      BY <2>10, <3>1, <3>2, RestartStep DEF Finish
    <3>3. CASE ~Drainable(thread[r])
      BY <2>10, <3>1, <3>3, EndStep DEF Finish
    <3> QED
      BY <3>2, <3>3
  <2> QED
    BY <1>2, <2>1, <2>2, <2>3, <2>4, <2>5, <2>6, <2>7, <2>8, <2>9, <2>10 DEF InvocationStep
<1>3. ASSUME NEW r \in RunIds, InjectAfterTools(r) \/ Throw(r) \/ FailRunFails(r) PROVE OneInv'
  <2>1. CASE InjectAfterTools(r)
    BY <2>1, StageStep DEF InjectAfterTools, Live, LiveStages
  <2>2. CASE Throw(r)
    BY <2>2, StageStep DEF Throw, Live, LiveStages
  <2>3. CASE FailRunFails(r)
    BY <2>3, StageStep DEF FailRunFails, Live, LiveStages
  <2> QED
    BY <1>3, <2>1, <2>2, <2>3
<1>4. ASSUME NEW r \in RunIds, BeginFails(r) PROVE OneInv'
  BY <1>4, EndStep DEF BeginFails, Live, LiveStages
<1>5. ASSUME NEW m \in Messages, ReadThread(m) PROVE OneInv'
  BY <1>5, OtherStep DEF ReadThread
<1>6. ASSUME NEW r \in RunIds, ReadRun(r) \/ TerminateRun(r) PROVE OneInv'
  BY <1>6, OtherStep DEF ReadRun, TerminateRun
<1>7. ASSUME NEW t \in Threads, Settle(t) \/ ClearQueuedMessages(t) PROVE OneInv'
  BY <1>7, OtherStep DEF Settle, ClearQueuedMessages
<1>8. ASSUME NEW t \in Threads, PatchThread(t) \/ CascadeCloses(t) \/ CascadeListsRuns(t)
      PROVE  OneInv'
  BY <1>8, OtherStep DEF PatchThread, CascadeCloses, CascadeListsRuns
<1>9. CASE Crash
  <2>1. \A r \in RunIds : ~(Live(r))' /\ ((pc'[r] = "done" /\ Live(r)) \/ pc'[r] = pc[r])
    BY <1>9 DEF Crash, Live, LiveStages
  <2>2. OneInvocationPerThread'
    BY <1>9, <2>1 DEF Crash, OneInvocationPerThread, Busy
  <2>3. Fresh'
    BY <1>9, <2>1 DEF Crash, OneInv, Fresh, Live, LiveStages
  <2> QED
    BY <2>2, <2>3 DEF OneInv
<1>10. CASE Recover
  BY <1>10, OtherStep DEF Recover
<1>11. CASE UNCHANGED vars
  BY <1>11, OtherStep DEF vars
<1> QED
  BY <1>1, <1>2, <1>3, <1>4, <1>5, <1>6, <1>7, <1>8, <1>9, <1>10, <1>11
     DEF Next, PostMessage, InvokeFromTool

\* A thread never has two invocations in progress, and the busy flag tells
\* exactly which threads have one.
THEOREM OneInvocation == Spec => []OneInvocationPerThread
<1>1. Init => TypeInv /\ OneInv
  BY InitTypeInv, InitOneInv
<1>2. TypeInv /\ OneInv /\ [Next]_vars => TypeInv' /\ OneInv'
  BY NextTypeInv, NextOneInv
<1>3. OneInv => OneInvocationPerThread
  BY DEF OneInv
<1> QED
  BY <1>1, <1>2, <1>3, PTL DEF Spec
-----------------------------------------------------------------------------
(***************************************************************************)
(* The run row follows the invocation: none before the transaction of      *)
(* beginRunThread, "running" until completeRun, and nothing in progress    *)
(* while the process is down.                                              *)
(***************************************************************************)
Working == {"assign", "model", "prepare", "loop", "inject", "complete", "failing"}

NoRowYet == \A r \in RunIds : pc[r] \in {"none", "begin"} => runStatus[r] = "absent"
RowWhileWorking == \A r \in RunIds : pc[r] \in Working => runStatus[r] = "running"
DownIsIdle == ~up => \A r \in RunIds : ~Live(r)

RowInv == NoRowYet /\ RowWhileWorking /\ DownIsIdle /\ RunningRowsOwned

\* A completed row is left as it is by a step.
RowsStay == \A r \in RunIds : runStatus[r] \in Terminal => runStatus'[r] = runStatus[r]

\* A step that moves no invocation and writes no row.
LEMMA RowOtherStep ==
  ASSUME RowInv, UNCHANGED <<pc, runStatus, up, abandoned>>
  PROVE  RowInv' /\ RowsStay
BY DEF RowInv, NoRowYet, RowWhileWorking, DownIsIdle, RunningRowsOwned, Live, RowsStay

\* An invocation moves on with its row running.
LEMMA RowStageStep ==
  ASSUME TypeInv, RowInv, up, NEW r \in RunIds, NEW s \in Working,
         pc[r] \in Working, GoTo(r, s), UNCHANGED <<runStatus, up, abandoned>>
  PROVE  RowInv' /\ RowsStay
<1> USE DEF TypeInv, TypeOK, RowInv, GoTo, Working
<1>1. NoRowYet' /\ RowWhileWorking'
  BY DEF NoRowYet, RowWhileWorking
<1>2. DownIsIdle' /\ RunningRowsOwned' /\ RowsStay
  BY DEF DownIsIdle, RunningRowsOwned, RowsStay
<1> QED
  BY <1>1, <1>2

\* An invocation writes the end of its row.
LEMMA RowEndStep ==
  ASSUME TypeInv, RowInv, up, NEW r \in RunIds, NEW s \in LiveStages \ Working,
         NEW status \in Terminal, pc[r] \in Working, s # "begin", GoTo(r, s),
         runStatus' = [runStatus EXCEPT ![r] = status], UNCHANGED <<up, abandoned>>
  PROVE  RowInv' /\ RowsStay
<1> USE DEF TypeInv, TypeOK, RowInv, GoTo, Working, LiveStages, Terminal
<1>1. NoRowYet' /\ RowWhileWorking'
  BY DEF NoRowYet, RowWhileWorking
<1>2. DownIsIdle' /\ RunningRowsOwned'
  BY DEF DownIsIdle, RunningRowsOwned
<1>3. RowsStay
  BY DEF RowWhileWorking, RowsStay
<1> QED
  BY <1>1, <1>2, <1>3

\* An invocation leaves without a word to its row, which is not running or is
\* given up in this step ...
LEMMA RowLeaveStep ==
  ASSUME TypeInv, RowInv, up, NEW r \in RunIds, NEW s \in {"done", "failsend"},
         pc[r] # "none", GoTo(r, s), runStatus[r] = "running" => r \in abandoned',
         abandoned \subseteq abandoned', UNCHANGED <<runStatus, up>>
  PROVE  RowInv' /\ RowsStay
<1> USE DEF TypeInv, TypeOK, RowInv, GoTo, Working, LiveStages
<1>1. NoRowYet' /\ RowWhileWorking'
  BY DEF NoRowYet, RowWhileWorking
<1>2. DownIsIdle' /\ RunningRowsOwned' /\ RowsStay
  BY DEF DownIsIdle, RunningRowsOwned, NoRowYet, RowsStay
<1> QED
  BY <1>1, <1>2

\* ... and another may begin in the same step.
LEMMA RowRestartStep ==
  ASSUME TypeInv, RowInv, up, NEW r \in RunIds, NEW n \in RunIds,
         pc[r] = "send", pc[n] = "none",
         pc' = [pc EXCEPT ![r] = "done", ![n] = "begin"],
         runStatus[r] = "running" => r \in abandoned,
         UNCHANGED <<runStatus, up, abandoned>>
  PROVE  RowInv' /\ RowsStay
<1> USE DEF TypeInv, TypeOK, RowInv, Working
<1>1. NoRowYet' /\ RowWhileWorking'
  BY DEF NoRowYet, RowWhileWorking
<1>2. DownIsIdle' /\ RunningRowsOwned' /\ RowsStay
  BY DEF DownIsIdle, RunningRowsOwned, NoRowYet, RowsStay
<1> QED
  BY <1>1, <1>2

\* No run has a row at first.
LEMMA InitRowInv == Init => RowInv
BY DEF Init, RowInv, NoRowYet, RowWhileWorking, DownIsIdle, RunningRowsOwned, Working

\* Every step keeps the rows in step with the invocations, and completed rows as they are.
LEMMA NextRowInv == TypeInv /\ OneInv /\ RowInv /\ [Next]_vars => RowInv' /\ RowsStay
<1> SUFFICES ASSUME TypeInv, OneInv, RowInv, [Next]_vars PROVE RowInv' /\ RowsStay
  OBVIOUS
<1> USE DEF dbVars, bufferVars, localVars, invocationVars, signalVars, controlVars
<1>1. started < MaxRuns => started + 1 \in RunIds /\ pc[started + 1] = "none"
  BY ConstantsAssumption DEF ConstantsAssumption, OneInv, Fresh, RunIds, TypeInv, TypeOK
<1>2. ASSUME NEW m \in Messages, up, Invoke(m) PROVE RowInv' /\ RowsStay
  <2>1. CASE Busy(To[m])
    BY <1>2, <2>1, RowOtherStep DEF Invoke
  <2>2. CASE ~Busy(To[m])
    <3>1. /\ started + 1 \in RunIds /\ pc[started + 1] = "none"
          /\ pc' = [pc EXCEPT ![started + 1] = "begin"]
          /\ UNCHANGED <<runStatus, up, abandoned>>
      BY <1>1, <1>2, <2>2 DEF Invoke, StartInvocation, GoTo
    <3>2. PICK n \in RunIds : n = started + 1
      BY <3>1
    <3>3. NoRowYet' /\ RowWhileWorking'
      BY <3>1, <3>2 DEF RowInv, NoRowYet, RowWhileWorking, Working, TypeInv, TypeOK
    <3>4. DownIsIdle' /\ RunningRowsOwned' /\ RowsStay
      BY <1>2, <3>1, <3>2 DEF RowInv, NoRowYet, DownIsIdle, RunningRowsOwned, RowsStay, TypeInv, TypeOK
    <3> QED
      BY <3>3, <3>4 DEF RowInv
  <2> QED
    BY <2>1, <2>2
<1>3. ASSUME NEW r \in RunIds, InvocationStep(r) PROVE RowInv' /\ RowsStay
  <2>1. CASE BeginRun(r)
    <3> USE <2>1 DEF BeginRun, GoTo, TypeInv, TypeOK, RowInv
    <3>1. NoRowYet' /\ RowWhileWorking'
      BY DEF NoRowYet, RowWhileWorking, Working
    <3>2. DownIsIdle' /\ RunningRowsOwned' /\ RowsStay
      BY DEF DownIsIdle, RunningRowsOwned, RowsStay, NoRowYet, Terminal
    <3> QED
      BY <3>1, <3>2
  <2>2. CASE AssignAgent(r)
    BY <2>2, RowStageStep DEF AssignAgent, Working
  <2>3. CASE EnsureModel(r)
    BY <2>3, RowStageStep DEF EnsureModel, Working
  <2>4. CASE PrepareLoop(r)
    BY <2>4, RowStageStep DEF PrepareLoop, Working
  <2>5. CASE RecordInjected(r)
    BY <2>5, RowStageStep DEF RecordInjected, Working
  <2>6. CASE LoopReturns(r)
    BY <2>6, RowStageStep DEF LoopReturns, Working
  <2>7. CASE CompleteRun(r)
    <3>1. outcome[r] \in Terminal
      BY <2>7 DEF CompleteRun, TypeInv, OutcomeDecided
    <3> QED
      BY <2>7, <3>1, RowEndStep DEF CompleteRun, Working, LiveStages
  <2>8. CASE FailRun(r)
    BY <2>8, RowEndStep DEF FailRun, FailedStatus, Terminal, Working, LiveStages
  <2>9. CASE Finish(r)
    <3>1. up /\ pc[r] = "send" /\ (runStatus[r] = "running" => r \in abandoned)
      BY <2>9 DEF Finish, RowInv, RunningRowsOwned
    <3>2. UNCHANGED <<runStatus, up, abandoned>>
      BY <2>9 DEF Finish
    <3>3. CASE Drainable(thread[r])
      <4>1. /\ started + 1 \in RunIds /\ pc[started + 1] = "none"
            /\ pc' = [pc EXCEPT ![r] = "done", ![started + 1] = "begin"]
        BY <1>1, <2>9, <3>3 DEF Finish, StartInvocation
      <4>2. PICK n \in RunIds : n = started + 1
        BY <4>1
      <4> QED
        BY <3>1, <3>2, <4>1, <4>2, RowRestartStep
    <3>4. CASE ~Drainable(thread[r])
      <4>1. GoTo(r, "done")
        BY <2>9, <3>4 DEF Finish
      <4> QED
        BY <3>1, <3>2, <4>1, RowLeaveStep
    <3> QED
      BY <3>3, <3>4
  <2>10. CASE FinishFailed(r)
    <3>1. GoTo(r, "done")
      BY <2>10 DEF FinishFailed
    <3>2. up /\ pc[r] = "failsend" /\ (runStatus[r] = "running" => r \in abandoned)
      BY <2>10 DEF FinishFailed, RowInv, RunningRowsOwned
    <3>3. UNCHANGED <<runStatus, up, abandoned>>
      BY <2>10 DEF FinishFailed
    <3> QED
      BY <3>1, <3>2, <3>3, RowLeaveStep
  <2> QED
    BY <1>3, <2>1, <2>2, <2>3, <2>4, <2>5, <2>6, <2>7, <2>8, <2>9, <2>10 DEF InvocationStep
<1>4. ASSUME NEW r \in RunIds, InjectAfterTools(r) PROVE RowInv' /\ RowsStay
  BY <1>4, RowStageStep DEF InjectAfterTools, Working
<1>5. ASSUME NEW r \in RunIds, Throw(r) PROVE RowInv' /\ RowsStay
  BY <1>5, RowStageStep DEF Throw, Working
<1>6. ASSUME NEW r \in RunIds, FailRunFails(r) PROVE RowInv' /\ RowsStay
  <2>1. GoTo(r, "failsend")
    BY <1>6 DEF FailRunFails
  <2>2. up /\ pc[r] = "failing" /\ abandoned' = abandoned \union {r} /\ UNCHANGED <<runStatus, up>>
    BY <1>6 DEF FailRunFails
  <2> QED
    BY <2>1, <2>2, RowLeaveStep
<1>7. ASSUME NEW r \in RunIds, BeginFails(r) PROVE RowInv' /\ RowsStay
  <2>1. GoTo(r, "done")
    BY <1>7 DEF BeginFails
  <2>2. /\ up /\ pc[r] # "none" /\ abandoned \subseteq abandoned'
        /\ runStatus[r] = "running" => r \in abandoned'
        /\ UNCHANGED <<runStatus, up>>
    BY <1>7 DEF BeginFails
  <2> QED
    BY <2>1, <2>2, RowLeaveStep
<1>8. ASSUME NEW m \in Messages, ReadThread(m) PROVE RowInv' /\ RowsStay
  BY <1>8, RowOtherStep DEF ReadThread
<1>9. ASSUME NEW r \in RunIds, ReadRun(r) \/ TerminateRun(r) PROVE RowInv' /\ RowsStay
  BY <1>9, RowOtherStep DEF ReadRun, TerminateRun
<1>10. ASSUME NEW t \in Threads, Settle(t) \/ ClearQueuedMessages(t) PROVE RowInv' /\ RowsStay
  BY <1>10, RowOtherStep DEF Settle, ClearQueuedMessages
<1>11. ASSUME NEW t \in Threads, PatchThread(t) \/ CascadeCloses(t) \/ CascadeListsRuns(t)
       PROVE  RowInv' /\ RowsStay
  BY <1>11, RowOtherStep DEF PatchThread, CascadeCloses, CascadeListsRuns
<1>12. CASE Crash
  <2>1. \A r \in RunIds : pc'[r] = IF Live(r) THEN "done" ELSE pc[r]
    BY <1>12 DEF Crash
  <2>2. ~up' /\ UNCHANGED <<runStatus, abandoned>>
    BY <1>12 DEF Crash
  <2>3. NoRowYet' /\ RowWhileWorking'
    BY <2>1, <2>2 DEF RowInv, NoRowYet, RowWhileWorking, Working, Live, LiveStages
  <2>4. DownIsIdle' /\ RunningRowsOwned' /\ RowsStay
    BY <2>1, <2>2 DEF DownIsIdle, RunningRowsOwned, RowsStay, Live, LiveStages
  <2> QED
    BY <2>3, <2>4 DEF RowInv
<1>13. CASE Recover
  <2>1. /\ ~up /\ UNCHANGED pc
        /\ runStatus' = [r \in RunIds |-> RecoveredStatus(r)]
    BY <1>13 DEF Recover
  <2>2. NoRowYet' /\ RowWhileWorking'
    BY <2>1 DEF RowInv, NoRowYet, RowWhileWorking, DownIsIdle, RecoveredStatus, Working,
                Live, LiveStages
  <2>3. DownIsIdle' /\ RunningRowsOwned' /\ RowsStay
    BY <2>1 DEF RowInv, DownIsIdle, RunningRowsOwned, RowsStay, RecoveredStatus, Live, Terminal
  <2> QED
    BY <2>2, <2>3 DEF RowInv
<1>14. CASE UNCHANGED vars
  BY <1>14, RowOtherStep DEF vars
<1> QED
  BY <1>2, <1>3, <1>4, <1>5, <1>6, <1>7, <1>8, <1>9, <1>10, <1>11, <1>12, <1>13, <1>14
     DEF Next, PostMessage, InvokeFromTool

\* The strengthened invariants hold together.
LEMMA Inductive ==
  /\ Init => TypeInv /\ OneInv /\ RowInv
  /\ TypeInv /\ OneInv /\ RowInv /\ [Next]_vars => (TypeInv /\ OneInv /\ RowInv)' /\ RowsStay
BY InitTypeInv, NextTypeInv, InitOneInv, NextOneInv, InitRowInv, NextRowInv

\* A row says "running" only while an invocation works on it, or after the
\* invocation failed to write its end: no path through AgentNode.invoke and no
\* crash leaves any other behind.
THEOREM RunningOwned == Spec => []RunningRowsOwned
<1>1. RowInv => RunningRowsOwned
  BY DEF RowInv
<1> QED
  BY <1>1, Inductive, PTL DEF Spec

\* The status of a completed run never changes, although completeRun itself
\* does not look at the status it overwrites.
THEOREM CompletedStay == Spec => CompletedRunsStay
<1>1. TypeInv /\ OneInv /\ RowInv /\ [Next]_vars =>
        [\A r \in RunIds : runStatus[r] \in Terminal => runStatus'[r] = runStatus[r]]_vars
  BY Inductive DEF RowsStay
<1> QED
  BY <1>1, Inductive, PTL DEF Spec, CompletedRunsStay
-----------------------------------------------------------------------------
(***************************************************************************)
(* Messages are handed out once.  What an invocation holds and what waits  *)
(* behind it is a sequence, Pending, that steps only append to, take from  *)
(* the front of, or discard a part of.                                     *)
(***************************************************************************)
Distinct(s) == \A i, j \in DOMAIN s : i # j => s[i] # s[j]

\* A concatenation repeats nothing when neither part does and they share nothing.
LEMMA DistinctConcat ==
  ASSUME NEW S, NEW s \in Seq(S), NEW u \in Seq(S)
  PROVE  Distinct(s \o u) <=>
           /\ Distinct(s) /\ Distinct(u)
           /\ \A i \in DOMAIN s, j \in DOMAIN u : s[i] # u[j]
<1> DEFINE c == s \o u
<1>1. /\ c \in Seq(S) /\ Len(c) = Len(s) + Len(u)
      /\ \A i \in 1 .. Len(s) + Len(u) : c[i] = IF i <= Len(s) THEN s[i] ELSE u[i - Len(s)]
  BY ConcatProperties
<1>2. /\ DOMAIN c = 1 .. Len(s) + Len(u) /\ DOMAIN s = 1 .. Len(s) /\ DOMAIN u = 1 .. Len(u)
      /\ Len(s) \in Nat /\ Len(u) \in Nat
  BY <1>1, LenProperties
<1>3. \A i \in DOMAIN s : i \in DOMAIN c /\ c[i] = s[i]
  BY <1>1, <1>2
<1>4. \A j \in DOMAIN u : j + Len(s) \in DOMAIN c /\ c[j + Len(s)] = u[j] /\ j + Len(s) \notin DOMAIN s
  BY <1>1, <1>2
<1>5. \A k \in DOMAIN c : k \in DOMAIN s \/ k - Len(s) \in DOMAIN u
  BY <1>2
<1>6. \A k \in DOMAIN c : k \notin DOMAIN s => c[k] = u[k - Len(s)]
  BY <1>1, <1>2
<1> HIDE DEF c
<1>7. ASSUME Distinct(c)
      PROVE  Distinct(s) /\ Distinct(u) /\ \A i \in DOMAIN s, j \in DOMAIN u : s[i] # u[j]
  <2>1. Distinct(s)
    BY <1>3, <1>7 DEF Distinct
  <2>2. Distinct(u)
    <3> SUFFICES ASSUME NEW i \in DOMAIN u, NEW j \in DOMAIN u, i # j PROVE u[i] # u[j]
      BY DEF Distinct
    <3>1. i + Len(s) # j + Len(s)
      BY <1>2
    <3> QED
      BY <1>4, <1>7, <3>1 DEF Distinct
  <2>3. ASSUME NEW i \in DOMAIN s, NEW j \in DOMAIN u PROVE s[i] # u[j]
    BY <1>3, <1>4, <1>7 DEF Distinct
  <2> QED
    BY <2>1, <2>2, <2>3
<1>8. ASSUME Distinct(s), Distinct(u), \A i \in DOMAIN s, j \in DOMAIN u : s[i] # u[j]
      PROVE  Distinct(c)
  <2> SUFFICES ASSUME NEW i \in DOMAIN c, NEW j \in DOMAIN c, i # j PROVE c[i] # c[j]
    BY DEF Distinct
  <2>1. CASE i \in DOMAIN s /\ j \in DOMAIN s
    BY <1>3, <1>8, <2>1 DEF Distinct
  <2>2. CASE i \in DOMAIN s /\ j \notin DOMAIN s
    BY <1>3, <1>5, <1>6, <1>8, <2>2
  <2>3. CASE i \notin DOMAIN s /\ j \in DOMAIN s
    BY <1>3, <1>5, <1>6, <1>8, <2>3
  <2>4. CASE i \notin DOMAIN s /\ j \notin DOMAIN s
    <3>1. i - Len(s) # j - Len(s)
      BY <1>2
    <3> QED
      BY <1>5, <1>6, <1>8, <2>4, <3>1 DEF Distinct
  <2> QED
    BY <2>1, <2>2, <2>3, <2>4
<1> QED
  BY <1>7, <1>8 DEF c

\* A part of a sequence that repeats nothing repeats nothing.
LEMMA DistinctSubSeq ==
  ASSUME NEW S, NEW s \in Seq(S), NEW i \in Nat \ {0}, NEW j \in Nat, j <= Len(s), Distinct(s)
  PROVE  /\ SubSeq(s, i, j) \in Seq(S) /\ Distinct(SubSeq(s, i, j))
         /\ \A k \in DOMAIN SubSeq(s, i, j) : \E l \in DOMAIN s : SubSeq(s, i, j)[k] = s[l]
<1> DEFINE u == SubSeq(s, i, j)
<1>1. Len(s) \in Nat /\ DOMAIN s = 1 .. Len(s) /\ \A k \in DOMAIN s : s[k] \in S
  BY LenProperties, ElementOfSeq
<1>2. \A k \in i .. j : s[k] \in S
  BY <1>1
<1>3. /\ u \in Seq(S) /\ Len(u) = IF i <= j THEN j - i + 1 ELSE 0
      /\ \A k \in 1 .. j - i + 1 : u[k] = s[i + k - 1]
  BY <1>2, SubSeqProperties
<1>4. DOMAIN u = 1 .. Len(u)
  BY <1>3, LenProperties
<1> HIDE DEF u
<1>5. \A k \in DOMAIN u : i + k - 1 \in DOMAIN s /\ u[k] = s[i + k - 1]
  BY <1>1, <1>3, <1>4
<1>6. Distinct(u)
  <2> SUFFICES ASSUME NEW k \in DOMAIN u, NEW l \in DOMAIN u, k # l PROVE u[k] # u[l]
    BY DEF Distinct
  <2>1. i + k - 1 # i + l - 1
    BY <1>3, <1>4
  <2> QED
    BY <1>5, <2>1 DEF Distinct
<1> QED
  BY <1>3, <1>5, <1>6 DEF u
-----------------------------------------------------------------------------
\* An invocation holds messages while its transaction or the recording of what
\* was injected is under way, and at no other time.
BatchHeld == \A r \in RunIds : batch[r] # <<>> <=> pc[r] \in {"begin", "inject"}

\* What a step does to the messages of the threads: it leaves them; it accepts
\* one, at the end or, when nothing is in progress, ahead of what was left
\* behind; it puts the first of them into a run; the user discards all that no
\* run has taken; or some are lost.
Same == delivered' = delivered /\ \A t \in Threads : (Pending(t))' = Pending(t)

Accepts(m) ==
  /\ delivered' = delivered
  /\ (Pending(To[m]))' = IF Busy(To[m]) THEN Append(Pending(To[m]), m)
                                        ELSE <<m>> \o Pending(To[m])
  /\ \A t \in Threads \ {To[m]} : (Pending(t))' = Pending(t)

Delivers(t) ==
  \E n \in 1 .. Len(Pending(t)) :
    /\ delivered' = [delivered EXCEPT ![t] = @ \o SubSeq(Pending(t), 1, n)]
    /\ (Pending(t))' = SubSeq(Pending(t), n + 1, Len(Pending(t)))
    /\ \A u \in Threads \ {t} : (Pending(u))' = Pending(u)

Clears(t) ==
  /\ delivered' = delivered
  /\ \E n \in 0 .. Len(Pending(t)) : (Pending(t))' = SubSeq(Pending(t), 1, n)
  /\ \A u \in Threads \ {t} : (Pending(u))' = Pending(u)

Loses ==
  /\ delivered' = delivered
  /\ \A t \in Threads : \E i \in Nat \ {0}, j \in 0 .. Len(Pending(t)) :
       (Pending(t))' = SubSeq(Pending(t), i, j)

\* With one invocation per thread, what is pending is its batch and the queue.
PendingIs ==
  \A t \in Threads :
    /\ Pending(t) \in Seq(Messages)
    /\ ~Busy(t) => Pending(t) = queue[t]
    /\ \A r \in RunIds : Live(r) /\ thread[r] = t => Pending(t) = batch[r] \o queue[t]

\* What a thread has pending is what its invocation holds, then what its buffer holds.
LEMMA PendingOf == TypeInv /\ OneInv => PendingIs
<1> SUFFICES ASSUME TypeOK, OneInvocationPerThread, NEW t \in Threads
             PROVE  /\ Pending(t) \in Seq(Messages)
                    /\ ~Busy(t) => Pending(t) = queue[t]
                    /\ \A r \in RunIds : Live(r) /\ thread[r] = t => Pending(t) = batch[r] \o queue[t]
  BY DEF TypeInv, OneInv, PendingIs
<1>1. queue[t] \in Seq(Messages) /\ \A r \in RunIds : batch[r] \in Seq(Messages)
  BY DEF TypeOK
<1>2. CASE ~Busy(t)
  <2>1. InFlight(t) = {}
    BY <1>2 DEF OneInvocationPerThread, InFlight
  <2>2. Pending(t) = queue[t]
    BY <2>1 DEF Pending
  <2>3. \A r \in RunIds : ~(Live(r) /\ thread[r] = t)
    BY <1>2 DEF OneInvocationPerThread
  <2> QED
    BY <1>1, <2>2, <2>3
<1>3. CASE Busy(t)
  <2>1. PICK r \in RunIds : Live(r) /\ thread[r] = t
    BY <1>3 DEF OneInvocationPerThread
  <2>2. InFlight(t) = {r}
    BY <2>1 DEF OneInvocationPerThread, InFlight
  <2>3. (CHOOSE x \in InFlight(t) : TRUE) = r
    BY <2>2
  <2>4. Pending(t) = batch[r] \o queue[t]
    BY <2>2, <2>3 DEF Pending
  <2>5. \A x \in RunIds : Live(x) /\ thread[x] = t => x = r
    BY <2>1 DEF OneInvocationPerThread
  <2>6. Pending(t) \in Seq(Messages)
    BY <1>1, <2>4, ConcatProperties
  <2> QED
    BY <1>3, <2>4, <2>5, <2>6
<1> QED
  BY <1>2, <1>3

\* The thread of no invocation that moves keeps what is pending ...
LEMMA OtherThread ==
  ASSUME OneInv, OneInv', PendingIs, PendingIs', NEW t \in Threads, queue'[t] = queue[t],
         \A x \in RunIds : Live(x) /\ thread[x] = t <=> (Live(x))' /\ thread'[x] = t,
         \A x \in RunIds : Live(x) /\ thread[x] = t => batch'[x] = batch[x]
  PROVE  (Pending(t))' = Pending(t)
<1>1. CASE Busy(t)
  <2>1. PICK x \in RunIds : Live(x) /\ thread[x] = t
    BY <1>1 DEF OneInv, OneInvocationPerThread
  <2>2. Pending(t) = batch[x] \o queue[t]
    BY <2>1 DEF PendingIs
  <2>3. (Pending(t))' = batch'[x] \o queue'[t]
    BY <2>1 DEF PendingIs
  <2> QED
    BY <2>1, <2>2, <2>3
<1>2. CASE ~Busy(t)
  <2>1. ~(Busy(t))'
    BY <1>2 DEF OneInv, OneInvocationPerThread
  <2> QED
    BY <1>2, <2>1 DEF PendingIs
<1> QED
  BY <1>1, <1>2

\* ... and so does every thread when invocations move on or end empty-handed.
LEMMA SameStep ==
  ASSUME TypeInv, OneInv, OneInv', PendingIs, PendingIs',
         UNCHANGED <<queue, batch, thread, delivered>>,
         \A x \in RunIds : (Live(x))' => Live(x),
         \A x \in RunIds : Live(x) => (Live(x))' \/ batch[x] = <<>>
  PROVE  Same
<1> SUFFICES ASSUME NEW t \in Threads PROVE (Pending(t))' = Pending(t)
  BY DEF Same
<1>1. CASE \A x \in RunIds : Live(x) /\ thread[x] = t => (Live(x))'
  BY <1>1, OtherThread
<1>2. CASE \E x \in RunIds : Live(x) /\ thread[x] = t /\ ~(Live(x))'
  <2>1. PICK x \in RunIds : Live(x) /\ thread[x] = t /\ ~(Live(x))'
    BY <1>2
  <2>2. batch[x] = <<>> /\ queue[t] \in Seq(Messages)
    BY <2>1 DEF TypeInv, TypeOK
  <2>3. Pending(t) = queue[t]
    <3>1. Pending(t) = batch[x] \o queue[t]
      BY <2>1 DEF PendingIs
    <3>2. <<>> \o queue[t] = queue[t]
      BY <2>2, ConcatEmptySeq
    <3> QED
      BY <2>2, <3>1, <3>2
  <2>4. \A y \in RunIds : (Live(y))' /\ thread'[y] = t => y = x
    BY <2>1 DEF OneInv, OneInvocationPerThread
  <2>5. ~(Busy(t))'
    BY <2>1, <2>4 DEF OneInv, OneInvocationPerThread
  <2> QED
    BY <2>3, <2>5 DEF PendingIs
<1> QED
  BY <1>1, <1>2

\* What an invocation takes from the queue and what it leaves make up the queue.
LEMMA DrainedUndrained ==
  ASSUME NEW t \in Threads, NEW mode, queue[t] \in Seq(Messages), queue[t] # <<>>
  PROVE  /\ Drained(t, mode) \in Seq(Messages) /\ Undrained(t, mode) \in Seq(Messages)
         /\ Drained(t, mode) # <<>>
         /\ Drained(t, mode) \o Undrained(t, mode) = queue[t]
<1> DEFINE q == queue[t]
<1>1. /\ Head(q) \in Messages /\ Tail(q) \in Seq(Messages)
      /\ <<Head(q)>> \o Tail(q) = q /\ q \o <<>> = q
      /\ <<Head(q)>> \in Seq(Messages) /\ <<Head(q)>> # <<>>
  <2>1. Head(q) \in Messages /\ Tail(q) \in Seq(Messages) /\ q \o <<>> = q
    BY HeadTailProperties, ConcatEmptySeq
  <2>2. Len(q) \in Nat \ {0}
    BY EmptySeq
  <2>3. SubSeq(q, 1, Len(q)) = <<q[1]>> \o SubSeq(q, 2, Len(q))
    BY <2>2, SubSeqRecursiveFirst
  <2>4. SubSeq(q, 1, Len(q)) = q /\ Tail(q) = SubSeq(q, 2, Len(q)) /\ Head(q) = q[1]
    BY SubSeqFull, TailIsSubSeq
  <2>5. <<Head(q)>> \in Seq(Messages) /\ <<Head(q)>> # <<>>
    BY <2>1
  <2> QED
    BY <2>1, <2>3, <2>4, <2>5
<1> QED
  BY <1>1 DEF Drained, Undrained

\* Nothing is held at first, and every stage takes or gives up its batch as it
\* enters or leaves "begin" and "inject".
LEMMA InitBatchHeld == Init => BatchHeld
BY DEF Init, BatchHeld

\* Every step keeps the messages of a batch with the invocation that works on them.
LEMMA NextBatchHeld == TypeInv /\ OneInv /\ BatchHeld /\ [Next]_vars => BatchHeld'
<1> SUFFICES ASSUME TypeInv, OneInv, BatchHeld, [Next]_vars PROVE BatchHeld'
  OBVIOUS
<1> USE DEF dbVars, bufferVars, localVars, invocationVars, signalVars, controlVars, GoTo
<1>1. /\ pc \in [RunIds -> LiveStages \union {"none", "done"}]
      /\ batch \in [RunIds -> Seq(Messages)] /\ thread \in [RunIds -> Threads]
      /\ queue \in [Threads -> Seq(Messages)]
  BY DEF TypeInv, TypeOK
<1>2. started < MaxRuns => started + 1 \in RunIds /\ pc[started + 1] = "none"
  BY ConstantsAssumption DEF ConstantsAssumption, OneInv, Fresh, RunIds, TypeInv, TypeOK
<1>3. ASSUME NEW r \in RunIds, NEW s, pc' = [pc EXCEPT ![r] = s], batch' = batch,
             s \in {"begin", "inject"} <=> pc[r] \in {"begin", "inject"}
      PROVE  BatchHeld'
  BY <1>1, <1>3 DEF BatchHeld
<1>4. ASSUME NEW r \in RunIds, NEW s, s \notin {"begin", "inject"},
             pc' = [pc EXCEPT ![r] = s], batch' = [batch EXCEPT ![r] = <<>>]
      PROVE  BatchHeld'
  BY <1>1, <1>4 DEF BatchHeld
<1>5. ASSUME NEW m \in Messages, Invoke(m) PROVE BatchHeld'
  <2>1. CASE Busy(To[m])
    BY <1>5, <2>1 DEF Invoke, BatchHeld
  <2>2. CASE ~Busy(To[m])
    <3>1. /\ started + 1 \in RunIds
          /\ pc' = [pc EXCEPT ![started + 1] = "begin"] /\ batch' = [batch EXCEPT ![started + 1] = <<m>>]
      BY <1>2, <1>5, <2>2 DEF Invoke, StartInvocation
    <3>2. <<m>> # <<>>
      OBVIOUS
    <3>3. batch'[started + 1] = <<m>> /\ pc'[started + 1] = "begin"
      BY <1>1, <3>1
    <3>4. \A x \in RunIds : x # started + 1 => batch'[x] = batch[x] /\ pc'[x] = pc[x]
      BY <1>1, <3>1
    <3> QED
      BY <3>2, <3>3, <3>4 DEF BatchHeld
  <2> QED
    BY <2>1, <2>2
<1>6. ASSUME NEW r \in RunIds, BeginRun(r) PROVE BatchHeld'
  BY <1>4, <1>6 DEF BeginRun
<1>7. ASSUME NEW r \in RunIds, AssignAgent(r) PROVE BatchHeld'
  BY <1>3, <1>7 DEF AssignAgent
<1>8. ASSUME NEW r \in RunIds, BeginFails(r) PROVE BatchHeld'
  BY <1>4, <1>8 DEF BeginFails
<1>9. ASSUME NEW r \in RunIds, EnsureModel(r) PROVE BatchHeld'
  BY <1>3, <1>9 DEF EnsureModel
<1>10. ASSUME NEW r \in RunIds, PrepareLoop(r) PROVE BatchHeld'
  BY <1>3, <1>10 DEF PrepareLoop
<1>11. ASSUME NEW r \in RunIds, InjectAfterTools(r) PROVE BatchHeld'
  <2>1. queue[thread[r]] \in Seq(Messages) /\ queue[thread[r]] # <<>>
    BY <1>1, <1>11 DEF InjectAfterTools, Drainable
  <2>2. Drained(thread[r], behavior[r].processBuffer) # <<>>
    BY <1>1, <2>1, DrainedUndrained
  <2> QED
    BY <1>1, <1>11, <2>2 DEF InjectAfterTools, BatchHeld
<1>12. ASSUME NEW r \in RunIds, RecordInjected(r) PROVE BatchHeld'
  BY <1>4, <1>12 DEF RecordInjected
<1>13. ASSUME NEW r \in RunIds, LoopReturns(r) PROVE BatchHeld'
  BY <1>3, <1>13 DEF LoopReturns
<1>14. ASSUME NEW r \in RunIds, CompleteRun(r) PROVE BatchHeld'
  BY <1>3, <1>14 DEF CompleteRun
<1>15. ASSUME NEW r \in RunIds, Throw(r) PROVE BatchHeld'
  BY <1>4, <1>15 DEF Throw
<1>16. ASSUME NEW r \in RunIds, FailRun(r) PROVE BatchHeld'
  BY <1>3, <1>16 DEF FailRun
<1>17. ASSUME NEW r \in RunIds, FailRunFails(r) PROVE BatchHeld'
  BY <1>3, <1>17 DEF FailRunFails
<1>18. ASSUME NEW r \in RunIds, Finish(r) PROVE BatchHeld'
  <2>1. CASE Drainable(thread[r])
    <3>1. queue[thread[r]] \in Seq(Messages) /\ queue[thread[r]] # <<>>
      BY <1>1, <2>1 DEF Drainable
    <3>2. Drained(thread[r], behavior[r].processBuffer) # <<>>
      BY <1>1, <3>1, DrainedUndrained
    <3>3. /\ pc[r] = "send" /\ StartInvocation(thread[r], Drained(thread[r], behavior[r].processBuffer))
          /\ pc' = [pc EXCEPT ![r] = "done", ![started + 1] = "begin"]
      BY <1>18, <2>1 DEF Finish
    <3> QED
      BY <1>1, <1>2, <3>2, <3>3 DEF StartInvocation, BatchHeld
  <2>2. CASE ~Drainable(thread[r])
    BY <1>3, <1>18, <2>2 DEF Finish
  <2> QED
    BY <2>1, <2>2
<1>19. ASSUME NEW r \in RunIds, FinishFailed(r) PROVE BatchHeld'
  BY <1>3, <1>19 DEF FinishFailed
<1>20. ASSUME UNCHANGED <<pc, batch>> PROVE BatchHeld'
  BY <1>20 DEF BatchHeld
<1>21. CASE Crash
  BY <1>21 DEF Crash, BatchHeld, Live, LiveStages
<1>22. CASE \/ \E m \in Messages : ReadThread(m)
            \/ \E r \in RunIds : ReadRun(r) \/ TerminateRun(r)
            \/ \E t \in Threads : Settle(t) \/ ClearQueuedMessages(t)
            \/ \E t \in Threads : PatchThread(t) \/ CascadeCloses(t) \/ CascadeListsRuns(t)
            \/ Recover \/ UNCHANGED vars
  BY <1>20, <1>22 DEF ReadThread, ReadRun, TerminateRun, Settle, ClearQueuedMessages, PatchThread,
     CascadeCloses, CascadeListsRuns, Recover, vars
<1> QED
  BY <1>5, <1>6, <1>7, <1>8, <1>9, <1>10, <1>11, <1>12, <1>13, <1>14, <1>15, <1>16, <1>17, <1>18,
     <1>19, <1>21, <1>22 DEF Next, InvocationStep, PostMessage, InvokeFromTool

\* Two parts of a sequence, taken apart again.
LEMMA Parts ==
  ASSUME NEW S, NEW b \in Seq(S), NEW q \in Seq(S)
  PROVE  /\ b \o q \in Seq(S) /\ Len(b) \in 0 .. Len(b \o q)
         /\ SubSeq(b \o q, 1, Len(b)) = b
         /\ SubSeq(b \o q, Len(b) + 1, Len(b \o q)) = q
         /\ b # <<>> => Len(b) \in 1 .. Len(b \o q)
<1>1. /\ b \o q \in Seq(S) /\ Len(b \o q) = Len(b) + Len(q)
      /\ Len(b) \in Nat /\ Len(q) \in Nat
  BY ConcatProperties, LenProperties
<1>2. b # <<>> => Len(b) # 0
  BY EmptySeq
<1>3. SubSeq(b \o q, 1, Len(b)) = b
  <2>1. CASE Len(b) = 0
    BY <1>2, <2>1, SubSeqEmpty
  <2>2. CASE Len(b) # 0
    <3>1. SubSeq(b \o q, 1, Len(b)) = SubSeq(b, 1, Len(b))
      BY <1>1, <2>2, SubSeqOfConcat1
    <3> QED
      BY <3>1, SubSeqFull
  <2> QED
    BY <2>1, <2>2
<1>4. SubSeq(b \o q, Len(b) + 1, Len(b) + Len(q)) = q
  <2>1. CASE Len(q) = 0
    <3>1. q = <<>>
      BY <2>1, EmptySeq
    <3> QED
      BY <1>1, <2>1, <3>1, SubSeqEmpty
  <2>2. CASE Len(q) # 0
    <3>1. SubSeq(b \o q, Len(b) + 1, Len(b) + Len(q))
            = SubSeq(q, Len(b) + 1 - Len(b), Len(b) + Len(q) - Len(b))
      BY <1>1, <2>2, SubSeqOfConcat2
    <3>2. Len(b) + 1 - Len(b) = 1 /\ Len(b) + Len(q) - Len(b) = Len(q)
      BY <1>1
    <3> QED
      BY <3>1, <3>2, SubSeqFull
  <2> QED
    BY <2>1, <2>2
<1> QED
  BY <1>1, <1>2, <1>3, <1>4

\* Before and after a step, what the lemmas below rest on.
Before == TypeInv /\ OneInv /\ BatchHeld /\ PendingIs
Steady == Before /\ TypeInv' /\ OneInv' /\ PendingIs'

\* One invocation puts its batch into the run.
LEMMA DeliverStep ==
  ASSUME Steady, NEW r \in RunIds, NEW s \in LiveStages, pc[r] \in {"begin", "inject"}, GoTo(r, s),
         delivered' = [delivered EXCEPT ![thread[r]] = @ \o batch[r]],
         batch' = [batch EXCEPT ![r] = <<>>], UNCHANGED <<queue, thread>>
  PROVE  Delivers(thread[r])
<1> DEFINE t == thread[r]
           b == batch[r]
           q == queue[t]
<1> USE DEF Steady, Before
<1>1. /\ t \in Threads /\ b \in Seq(Messages) /\ q \in Seq(Messages) /\ b # <<>>
      /\ pc \in [RunIds -> LiveStages \union {"none", "done"}]
      /\ batch \in [RunIds -> Seq(Messages)]
  BY DEF TypeInv, TypeOK, BatchHeld
<1>2. \A x \in RunIds : (Live(x))' <=> Live(x)
  BY <1>1 DEF Live, LiveStages, GoTo
<1>3. Pending(t) = b \o q
  BY <1>1 DEF PendingIs, Live, LiveStages
<1>4. (Pending(t))' = <<>> \o q
  <2>1. (Live(r))' /\ thread'[r] = t /\ batch'[r] = <<>> /\ queue'[t] = q
    BY <1>1, <1>2 DEF Live, LiveStages
  <2> QED
    BY <1>1, <2>1 DEF PendingIs
<1>5. \A u \in Threads \ {t} : (Pending(u))' = Pending(u)
  <2> SUFFICES ASSUME NEW u \in Threads, u # t PROVE (Pending(u))' = Pending(u)
    OBVIOUS
  <2>1. \A x \in RunIds : thread[x] = u => batch'[x] = batch[x]
    BY <1>1
  <2> QED
    BY <1>2, <2>1, OtherThread
<1>6. /\ Len(b) \in 1 .. Len(Pending(t)) /\ SubSeq(Pending(t), 1, Len(b)) = b
      /\ (Pending(t))' = SubSeq(Pending(t), Len(b) + 1, Len(Pending(t)))
  BY <1>1, <1>3, <1>4, Parts, ConcatEmptySeq
<1> QED
  BY <1>5, <1>6 DEF Delivers

\* One invocation gives up its batch.
LEMMA LoseStep ==
  ASSUME Steady, NEW r \in RunIds, NEW s, Live(r), GoTo(r, s),
         batch' = [batch EXCEPT ![r] = <<>>], UNCHANGED <<queue, thread, delivered>>
  PROVE  Loses
<1> DEFINE t == thread[r]
           b == batch[r]
           q == queue[t]
<1> USE DEF Steady, Before
<1>1. /\ t \in Threads /\ b \in Seq(Messages) /\ q \in Seq(Messages)
      /\ pc \in [RunIds -> LiveStages \union {"none", "done"}]
      /\ batch \in [RunIds -> Seq(Messages)]
  BY DEF TypeInv, TypeOK
<1>2. \A x \in RunIds \ {r} : (Live(x))' <=> Live(x)
  BY <1>1 DEF Live, LiveStages, GoTo
<1>3. Pending(t) = b \o q
  BY <1>1 DEF PendingIs
<1>4. (Pending(t))' = q
  <2>1. CASE (Live(r))'
    <3>1. (Pending(t))' = batch'[r] \o queue'[t] /\ batch'[r] = <<>>
      BY <1>1, <2>1 DEF PendingIs
    <3> QED
      BY <1>1, <3>1, ConcatEmptySeq
  <2>2. CASE ~(Live(r))'
    <3>1. \A x \in RunIds : Live(x) /\ thread[x] = t => x = r
      BY DEF OneInv, OneInvocationPerThread
    <3>2. ~(Busy(t))'
      <4>1. \A x \in RunIds : ~((Live(x))' /\ thread'[x] = t)
        BY <1>2, <2>2, <3>1
      <4> QED
        BY <1>1, <4>1 DEF OneInv, OneInvocationPerThread
    <3> QED
      BY <1>1, <3>2 DEF PendingIs
  <2> QED
    BY <2>1, <2>2
<1>5. \A u \in Threads \ {t} : (Pending(u))' = Pending(u) /\ Pending(u) \in Seq(Messages)
  <2> SUFFICES ASSUME NEW u \in Threads, u # t PROVE (Pending(u))' = Pending(u)
    BY DEF PendingIs
  <2>1. \A x \in RunIds : thread[x] = u => batch'[x] = batch[x]
    BY <1>1
  <2>2. \A x \in RunIds : Live(x) /\ thread[x] = u <=> (Live(x))' /\ thread'[x] = u
    BY <1>2
  <2> QED
    BY <2>1, <2>2, OtherThread
<1>6. /\ Len(b) + 1 \in Nat \ {0} /\ Len(Pending(t)) \in 0 .. Len(Pending(t))
      /\ (Pending(t))' = SubSeq(Pending(t), Len(b) + 1, Len(Pending(t)))
  BY <1>1, <1>3, <1>4, Parts, LenProperties
<1>7. \A u \in Threads \ {t} :
        /\ Len(Pending(u)) \in 0 .. Len(Pending(u))
        /\ (Pending(u))' = SubSeq(Pending(u), 1, Len(Pending(u)))
  BY <1>5, SubSeqFull, LenProperties
<1>8. ASSUME NEW u \in Threads
      PROVE  \E i \in Nat \ {0}, j \in 0 .. Len(Pending(u)) : (Pending(u))' = SubSeq(Pending(u), i, j)
  <2>1. CASE u = t
    BY <1>6, <2>1
  <2>2. CASE u # t
    BY <1>7, <2>2
  <2> QED
    BY <2>1, <2>2
<1> QED
  BY <1>8 DEF Loses

\* To append to the second part is to append to the whole.
LEMMA AppendToConcat ==
  ASSUME NEW S, NEW b \in Seq(S), NEW q \in Seq(S), NEW e \in S
  PROVE  b \o Append(q, e) = Append(b \o q, e)
<1>1. <<e>> \in Seq(S) /\ b \o q \in Seq(S)
  BY ConcatProperties
<1>2. Append(q, e) = q \o <<e>> /\ Append(b \o q, e) = (b \o q) \o <<e>>
  BY <1>1, AppendIsConcat
<1>3. (b \o q) \o <<e>> = b \o (q \o <<e>>)
  BY <1>1, ConcatAssociative
<1> QED
  BY <1>2, <1>3

\* A message joins the queue of a busy thread, or is the batch of a new
\* invocation ahead of what its predecessor left in the queue.
LEMMA AcceptStep ==
  ASSUME Steady, NEW m \in Messages, Invoke(m)
  PROVE  Accepts(m)
<1> DEFINE t == To[m]
           q == queue[t]
<1> USE DEF Steady, Before, dbVars, bufferVars
<1>1. /\ t \in Threads /\ q \in Seq(Messages)
      /\ pc \in [RunIds -> LiveStages \union {"none", "done"}] /\ thread \in [RunIds -> Threads]
      /\ batch \in [RunIds -> Seq(Messages)] /\ queue \in [Threads -> Seq(Messages)]
  BY ConstantsAssumption DEF ConstantsAssumption, TypeInv, TypeOK
<1>2. delivered' = delivered
  BY DEF Invoke
<1>3. CASE Busy(t)
  <2>1. queue' = [queue EXCEPT ![t] = Append(q, m)] /\ UNCHANGED <<pc, thread, batch>>
    BY <1>3 DEF Invoke, Enqueue
  <2>2. \A x \in RunIds : (Live(x))' <=> Live(x)
    BY <2>1 DEF Live
  <2>3. PICK x \in RunIds : Live(x) /\ thread[x] = t
    BY <1>1, <1>3 DEF OneInv, OneInvocationPerThread
  <2>4. Pending(t) = batch[x] \o q
    BY <1>1, <2>3 DEF PendingIs
  <2>5. (Pending(t))' = batch[x] \o Append(q, m)
    <3>1. (Live(x))' /\ thread'[x] = t /\ batch'[x] = batch[x] /\ queue'[t] = Append(q, m)
      BY <1>1, <2>1, <2>2, <2>3
    <3> QED
      BY <1>1, <3>1 DEF PendingIs
  <2>6. (Pending(t))' = Append(Pending(t), m)
    BY <1>1, <2>4, <2>5, AppendToConcat
  <2>7. \A u \in Threads \ {t} : (Pending(u))' = Pending(u)
    BY <1>1, <2>1, <2>2, OtherThread
  <2> QED
    BY <1>2, <1>3, <2>6, <2>7 DEF Accepts
<1>4. CASE ~Busy(t)
  <2>0. started + 1 \in RunIds
    BY <1>4, ConstantsAssumption
       DEF ConstantsAssumption, Invoke, StartInvocation, RunIds, TypeInv, TypeOK
  <2> PICK n \in RunIds : n = started + 1
    BY <2>0
  <2>1. /\ pc[n] = "none"
        /\ pc' = [pc EXCEPT ![n] = "begin"] /\ thread' = [thread EXCEPT ![n] = t]
        /\ batch' = [batch EXCEPT ![n] = <<m>>] /\ queue' = queue
    BY <1>4, ConstantsAssumption
       DEF ConstantsAssumption, Invoke, StartInvocation, GoTo, OneInv, Fresh, RunIds, TypeInv, TypeOK
  <2>2. ~Live(n) /\ (Live(n))' /\ \A x \in RunIds \ {n} : (Live(x))' <=> Live(x)
    BY <1>1, <2>1 DEF Live, LiveStages
  <2>3. (Pending(t))' = <<m>> \o q
    <3>1. thread'[n] = t /\ batch'[n] = <<m>> /\ queue'[t] = q
      BY <1>1, <2>1
    <3> QED
      BY <1>1, <2>1, <2>2, <3>1 DEF PendingIs
  <2>4. Pending(t) = q
    BY <1>1, <1>4 DEF PendingIs
  <2>5. \A u \in Threads \ {t} : (Pending(u))' = Pending(u)
    <3> SUFFICES ASSUME NEW u \in Threads, u # t PROVE (Pending(u))' = Pending(u)
      OBVIOUS
    <3>1. \A x \in RunIds : Live(x) /\ thread[x] = u <=> (Live(x))' /\ thread'[x] = u
      BY <1>1, <2>1, <2>2
    <3>2. \A x \in RunIds : Live(x) => batch'[x] = batch[x]
      BY <1>1, <2>1, <2>2
    <3> QED
      BY <2>1, <3>1, <3>2, OtherThread
  <2> QED
    BY <1>2, <1>4, <2>3, <2>4, <2>5 DEF Accepts
<1> QED
  BY <1>3, <1>4

\* An invocation with no batch is left with a part of the queue, or hands it to
\* its successor: what is pending is divided differently.
LEMMA TakeStep ==
  ASSUME Steady, NEW r \in RunIds, NEW n \in RunIds, NEW mode, Live(r), pc[r] \notin {"begin", "inject"},
         queue[thread[r]] # <<>>, n = r \/ (~Live(n) /\ ~(Live(r))'),
         (Live(n))', thread' = [thread EXCEPT ![n] = thread[r]],
         \A x \in RunIds \ {r, n} : (Live(x))' <=> Live(x),
         batch' = [batch EXCEPT ![n] = Drained(thread[r], mode)],
         queue' = [queue EXCEPT ![thread[r]] = Undrained(thread[r], mode)],
         delivered' = delivered
  PROVE  Same
<1> DEFINE t == thread[r]
           q == queue[t]
<1> USE DEF Steady, Before
<1>1. /\ t \in Threads /\ q \in Seq(Messages) /\ thread \in [RunIds -> Threads]
      /\ batch \in [RunIds -> Seq(Messages)] /\ queue \in [Threads -> Seq(Messages)]
  BY DEF TypeInv, TypeOK
<1>2. Pending(t) = q
  <2>1. batch[r] = <<>>
    BY DEF BatchHeld
  <2>2. Pending(t) = batch[r] \o q
    BY <1>1 DEF PendingIs
  <2> QED
    BY <1>1, <2>1, <2>2, ConcatEmptySeq
<1>3. (Pending(t))' = Drained(t, mode) \o Undrained(t, mode)
  <2>1. thread'[n] = t /\ batch'[n] = Drained(t, mode) /\ queue'[t] = Undrained(t, mode)
    BY <1>1
  <2> QED
    BY <1>1, <2>1 DEF PendingIs
<1>4. (Pending(t))' = Pending(t)
  BY <1>1, <1>2, <1>3, DrainedUndrained
<1>5. ASSUME NEW u \in Threads, u # t PROVE (Pending(u))' = Pending(u)
  <2>1. queue'[u] = queue[u]
    BY <1>1, <1>5
  <2>2. \A x \in RunIds : Live(x) /\ thread[x] = u => batch'[x] = batch[x]
    BY <1>1, <1>5
  <2>3. \A x \in RunIds : Live(x) /\ thread[x] = u <=> (Live(x))' /\ thread'[x] = u
    BY <1>1, <1>5
  <2> QED
    BY <2>1, <2>2, <2>3, OtherThread
<1> QED
  BY <1>4, <1>5 DEF Same

\* The user empties a queue; the batch of the invocation stays.
LEMMA ClearStep ==
  ASSUME Steady, NEW t \in Threads, queue' = [queue EXCEPT ![t] = <<>>],
         UNCHANGED <<pc, batch, thread, delivered>>
  PROVE  Clears(t)
<1> DEFINE q == queue[t]
<1> USE DEF Steady, Before
<1>1. /\ q \in Seq(Messages) /\ queue \in [Threads -> Seq(Messages)]
      /\ batch \in [RunIds -> Seq(Messages)]
  BY DEF TypeInv, TypeOK
<1>2. \A x \in RunIds : (Live(x))' <=> Live(x)
  BY DEF Live
<1>3. \A u \in Threads \ {t} : (Pending(u))' = Pending(u)
  BY <1>1, <1>2, OtherThread
<1>4. \E n \in 0 .. Len(Pending(t)) : (Pending(t))' = SubSeq(Pending(t), 1, n)
  <2>1. CASE Busy(t)
    <3>1. PICK x \in RunIds : Live(x) /\ thread[x] = t
      BY <2>1 DEF OneInv, OneInvocationPerThread
    <3>2. Pending(t) = batch[x] \o q
      BY <3>1 DEF PendingIs
    <3>3. (Pending(t))' = batch[x] \o <<>>
      <4>1. (Live(x))' /\ thread'[x] = t /\ batch'[x] = batch[x] /\ queue'[t] = <<>>
        BY <1>1, <1>2, <3>1
      <4> QED
        BY <4>1 DEF PendingIs
    <3>4. batch[x] \in Seq(Messages) /\ batch[x] \o <<>> = batch[x]
      BY <1>1, ConcatEmptySeq
    <3> QED
      BY <1>1, <3>2, <3>3, <3>4, Parts
  <2>2. CASE ~Busy(t)
    <3>1. ~(Busy(t))' /\ queue'[t] = <<>>
      BY <1>1, <1>2, <2>2 DEF OneInv, OneInvocationPerThread
    <3>2. (Pending(t))' = <<>> /\ Pending(t) = q
      BY <2>2, <3>1 DEF PendingIs
    <3>3. SubSeq(q, 1, 0) = <<>> /\ 0 \in 0 .. Len(q)
      BY <1>1, SubSeqEmpty, LenProperties
    <3> QED
      BY <3>2, <3>3
  <2> QED
    BY <2>1, <2>2
<1> QED
  BY <1>3, <1>4 DEF Clears

\* A crash loses all that is in memory.
LEMMA CrashStep ==
  ASSUME Steady, Crash
  PROVE  Loses
<1> USE DEF Steady, Before
<1>1. delivered' = delivered
  BY DEF Crash, dbVars
<1>2. ASSUME NEW t \in Threads
      PROVE  \E i \in Nat \ {0}, j \in 0 .. Len(Pending(t)) : (Pending(t))' = SubSeq(Pending(t), i, j)
  <2>1. (Pending(t))' = <<>>
    <3>1. ~(Busy(t))' /\ queue'[t] = <<>>
      BY DEF Crash, Busy
    <3> QED
      BY <3>1 DEF PendingIs
  <2>2. SubSeq(Pending(t), 1, 0) = <<>> /\ 0 \in 0 .. Len(Pending(t)) /\ 1 \in Nat \ {0}
    BY SubSeqEmpty, LenProperties DEF PendingIs
  <2> QED
    BY <2>1, <2>2
<1> QED
  BY <1>1, <1>2 DEF Loses

\* Every step does one of these things to the messages.
Handles ==
  \/ Same
  \/ \E m \in Messages : /\ request[m] \in {"unsent", "admitted"} /\ request'[m] = "accepted"
                         /\ Accepts(m)
  \/ \E t \in Threads : Delivers(t) \/ Clears(t)
  \/ Faults # {} /\ Loses

\* Each action by its effect on what is pending.
LEMMA NextHandles == Steady /\ [Next]_vars => Handles
<1> SUFFICES ASSUME Steady, [Next]_vars PROVE Handles
  OBVIOUS
<1> USE DEF dbVars, bufferVars, localVars, invocationVars, signalVars, controlVars, GoTo
<1>1. /\ TypeInv /\ OneInv /\ BatchHeld
      /\ OneInv' /\ PendingIs /\ PendingIs'
      /\ pc \in [RunIds -> LiveStages \union {"none", "done"}]
      /\ batch \in [RunIds -> Seq(Messages)] /\ thread \in [RunIds -> Threads]
      /\ request \in [Messages -> {"unsent", "admitted", "accepted", "refused", "lost"}]
  BY DEF Steady, Before, TypeInv, TypeOK
<1>2. started < MaxRuns => started + 1 \in RunIds /\ pc[started + 1] = "none"
  BY <1>1, ConstantsAssumption DEF ConstantsAssumption, OneInv, Fresh, RunIds, TypeInv, TypeOK
\* the steps of an invocation that move no message
<1>3. ASSUME NEW r \in RunIds, NEW s \in LiveStages \union {"done"}, Live(r), GoTo(r, s),
             s = "done" => batch[r] = <<>>,
             UNCHANGED <<queue, batch, thread, delivered>>
      PROVE  Handles
  <2>1. \A x \in RunIds : (Live(x))' => Live(x)
    BY <1>1, <1>3 DEF Live, LiveStages
  <2>2. \A x \in RunIds : Live(x) => (Live(x))' \/ batch[x] = <<>>
    BY <1>1, <1>3 DEF Live, LiveStages
  <2> QED
    BY <1>1, <1>3, <2>1, <2>2, SameStep DEF Handles
\* the steps that are not those of an invocation
<1>4. ASSUME UNCHANGED <<pc, queue, batch, thread, delivered>> PROVE Handles
  <2>1. \A x \in RunIds : (Live(x))' <=> Live(x)
    BY <1>4 DEF Live
  <2> QED
    BY <1>1, <1>4, <2>1, SameStep DEF Handles
<1>5. ASSUME NEW m \in Messages, PostMessage(m) \/ InvokeFromTool(m) PROVE Handles
  <2>1. Invoke(m) /\ request[m] \in {"unsent", "admitted"}
    BY <1>5 DEF PostMessage, InvokeFromTool
  <2>2. request'[m] = "accepted"
    BY <1>1, <2>1 DEF Invoke
  <2> QED
    BY <2>1, <2>2, AcceptStep DEF Handles
<1>6. ASSUME NEW r \in RunIds, BeginRun(r) PROVE Handles
  <2>1. "assign" \in LiveStages
    BY DEF LiveStages
  <2>2. Delivers(thread[r])
    BY <1>6, <2>1, DeliverStep DEF BeginRun
  <2> QED
    BY <1>1, <2>2 DEF Handles
<1>7. ASSUME NEW r \in RunIds, RecordInjected(r) PROVE Handles
  <2>1. "loop" \in LiveStages
    BY DEF LiveStages
  <2>2. Delivers(thread[r])
    BY <1>7, <2>1, DeliverStep DEF RecordInjected
  <2> QED
    BY <1>1, <2>2 DEF Handles
<1>8. ASSUME NEW r \in RunIds, AssignAgent(r) PROVE Handles
  BY <1>3, <1>8 DEF AssignAgent, Live, LiveStages
<1>9. ASSUME NEW r \in RunIds, EnsureModel(r) PROVE Handles
  BY <1>3, <1>9 DEF EnsureModel, Live, LiveStages
<1>10. ASSUME NEW r \in RunIds, PrepareLoop(r) PROVE Handles
  BY <1>3, <1>10 DEF PrepareLoop, Live, LiveStages
<1>11. ASSUME NEW r \in RunIds, LoopReturns(r) PROVE Handles
  BY <1>3, <1>11 DEF LoopReturns, Live, LiveStages
<1>12. ASSUME NEW r \in RunIds, CompleteRun(r) PROVE Handles
  BY <1>3, <1>12 DEF CompleteRun, Live, LiveStages
<1>13. ASSUME NEW r \in RunIds, FailRun(r) PROVE Handles
  BY <1>3, <1>13 DEF FailRun, Live, LiveStages
<1>14. ASSUME NEW r \in RunIds, FailRunFails(r) PROVE Handles
  BY <1>3, <1>14 DEF FailRunFails, Live, LiveStages
<1>15. ASSUME NEW r \in RunIds, FinishFailed(r) PROVE Handles
  <2>1. batch[r] = <<>>
    BY <1>1, <1>15 DEF FinishFailed, BatchHeld
  <2> QED
    BY <1>3, <1>15, <2>1 DEF FinishFailed, Live, LiveStages
<1>16. ASSUME NEW r \in RunIds, BeginFails(r) PROVE Handles
  <2>1. Live(r) /\ Faults # {}
    BY <1>16 DEF BeginFails, Live, LiveStages
  <2>2. Loses
    BY <1>16, <2>1, LoseStep DEF BeginFails
  <2> QED
    BY <2>1, <2>2 DEF Handles
<1>17. ASSUME NEW r \in RunIds, Throw(r) PROVE Handles
  <2>1. Live(r) /\ Faults # {}
    BY <1>17 DEF Throw, Live, LiveStages
  <2>2. Loses
    BY <1>17, <2>1, LoseStep DEF Throw
  <2> QED
    BY <2>1, <2>2 DEF Handles
<1>18. ASSUME NEW r \in RunIds, InjectAfterTools(r) PROVE Handles
  <2> PICK mode : mode = behavior[r].processBuffer
    OBVIOUS
  <2>1. /\ pc[r] = "loop" /\ queue[thread[r]] # <<>>
        /\ pc' = [pc EXCEPT ![r] = "inject"] /\ UNCHANGED <<thread, delivered>>
        /\ batch' = [batch EXCEPT ![r] = Drained(thread[r], mode)]
        /\ queue' = [queue EXCEPT ![thread[r]] = Undrained(thread[r], mode)]
    BY <1>18 DEF InjectAfterTools, Drainable
  <2>2. Live(r) /\ (Live(r))' /\ \A x \in RunIds \ {r, r} : (Live(x))' <=> Live(x)
    BY <1>1, <2>1 DEF Live, LiveStages
  <2>3. thread' = [thread EXCEPT ![r] = thread[r]]
    BY <1>1, <2>1
  <2>4. Same
    BY <2>1, <2>2, <2>3, TakeStep
  <2> QED
    BY <2>4 DEF Handles
<1>19. ASSUME NEW r \in RunIds, Finish(r) PROVE Handles
  <2> PICK mode : mode = behavior[r].processBuffer
    OBVIOUS
  <2>1. pc[r] = "send" /\ Live(r) /\ batch[r] = <<>> /\ delivered' = delivered
    BY <1>1, <1>19 DEF Finish, Live, LiveStages, BatchHeld
  <2>2. CASE Drainable(thread[r])
    <3>0. started < MaxRuns
      BY <1>19, <2>2 DEF Finish, StartInvocation
    <3> PICK n \in RunIds : n = started + 1
      BY <1>2, <3>0
    <3>1. /\ pc[n] = "none" /\ queue[thread[r]] # <<>>
          /\ pc' = [pc EXCEPT ![r] = "done", ![n] = "begin"]
          /\ thread' = [thread EXCEPT ![n] = thread[r]]
          /\ batch' = [batch EXCEPT ![n] = Drained(thread[r], mode)]
          /\ queue' = [queue EXCEPT ![thread[r]] = Undrained(thread[r], mode)]
      BY <1>2, <1>19, <2>2, <3>0 DEF Finish, StartInvocation, Drainable
    <3>2. /\ ~Live(n) /\ (Live(n))' /\ ~(Live(r))'
          /\ \A x \in RunIds \ {r, n} : (Live(x))' <=> Live(x)
      BY <1>1, <2>1, <3>1 DEF Live, LiveStages
    <3>3. Same
      BY <2>1, <3>1, <3>2, TakeStep
    <3> QED
      BY <3>3 DEF Handles
  <2>3. CASE ~Drainable(thread[r])
    BY <1>3, <1>19, <2>1, <2>3 DEF Finish
  <2> QED
    BY <2>2, <2>3
<1>20. ASSUME NEW t \in Threads, ClearQueuedMessages(t) PROVE Handles
  <2>1. Clears(t)
    BY <1>20, ClearStep DEF ClearQueuedMessages
  <2> QED
    BY <2>1 DEF Handles
<1>21. CASE Crash
  <2>1. Faults # {}
    BY <1>21 DEF Crash
  <2> QED
    BY <1>21, <2>1, CrashStep DEF Handles
<1>22. CASE \/ \E m \in Messages : ReadThread(m)
            \/ \E r \in RunIds : ReadRun(r) \/ TerminateRun(r)
            \/ \E t \in Threads : Settle(t)
            \/ \E t \in Threads : PatchThread(t) \/ CascadeCloses(t) \/ CascadeListsRuns(t)
            \/ Recover \/ UNCHANGED vars
  BY <1>4, <1>22 DEF ReadThread, ReadRun, TerminateRun, Settle, PatchThread,
     CascadeCloses, CascadeListsRuns, Recover, vars
<1> QED
  BY <1>5, <1>6, <1>7, <1>8, <1>9, <1>10, <1>11, <1>12, <1>13, <1>14, <1>15, <1>16, <1>17, <1>18,
     <1>19, <1>20, <1>21, <1>22 DEF Next, InvocationStep

\* An accepted message stays accepted.
LEMMA AcceptedStays ==
  TypeInv /\ [Next]_vars => \A m \in Messages : request[m] = "accepted" => request'[m] = "accepted"
<1> SUFFICES ASSUME TypeInv, [Next]_vars, NEW m \in Messages, request[m] = "accepted"
             PROVE  request'[m] = "accepted"
  OBVIOUS
<1> USE DEF TypeInv, TypeOK, controlVars
<1>1. ASSUME NEW n \in Messages, ReadThread(n) \/ PostMessage(n) \/ InvokeFromTool(n)
      PROVE  request'[m] = "accepted"
  BY <1>1 DEF ReadThread, PostMessage, InvokeFromTool, Invoke
<1>2. CASE Crash
  BY <1>2 DEF Crash
<1>3. ASSUME UNCHANGED request PROVE request'[m] = "accepted"
  BY <1>3
<1>4. ASSUME NEW r \in RunIds, InvocationStep(r) \/ InjectAfterTools(r) PROVE UNCHANGED request
  BY <1>4 DEF InvocationStep, BeginRun, AssignAgent, EnsureModel, PrepareLoop, RecordInjected,
     LoopReturns, CompleteRun, FailRun, Finish, FinishFailed, InjectAfterTools
<1>5. ASSUME NEW r \in RunIds, BeginFails(r) \/ Throw(r) \/ FailRunFails(r) \/ ReadRun(r) \/ TerminateRun(r)
      PROVE  UNCHANGED request
  BY <1>5 DEF BeginFails, Throw, FailRunFails, ReadRun, TerminateRun
<1>6. CASE \/ \E t \in Threads : Settle(t) \/ ClearQueuedMessages(t)
           \/ \E t \in Threads : PatchThread(t) \/ CascadeCloses(t) \/ CascadeListsRuns(t)
           \/ Recover \/ UNCHANGED vars
  BY <1>6 DEF Settle, ClearQueuedMessages, PatchThread, CascadeCloses, CascadeListsRuns, Recover, vars
<1> QED
  BY <1>1, <1>2, <1>3, <1>4, <1>5, <1>6 DEF Next
-----------------------------------------------------------------------------
\* The elements of a concatenation are those of its parts.
LEMMA ConcatElements ==
  ASSUME NEW S, NEW s \in Seq(S), NEW u \in Seq(S), NEW k \in DOMAIN (s \o u)
  PROVE  \/ \E i \in DOMAIN s : (s \o u)[k] = s[i]
         \/ \E j \in DOMAIN u : (s \o u)[k] = u[j]
<1>1. /\ k \in 1 .. Len(s) + Len(u) /\ (s \o u)[k] = IF k <= Len(s) THEN s[k] ELSE u[k - Len(s)]
      /\ Len(s) \in Nat /\ Len(u) \in Nat /\ DOMAIN s = 1 .. Len(s) /\ DOMAIN u = 1 .. Len(u)
  BY ConcatProperties, LenProperties
<1>2. CASE k <= Len(s)
  BY <1>1, <1>2
<1>3. CASE ~(k <= Len(s))
  <2>1. k - Len(s) \in DOMAIN u
    BY <1>1, <1>3
  <2> QED
    BY <1>1, <1>3, <2>1
<1> QED
  BY <1>2, <1>3

\* A message ahead of or behind a sequence without it leaves nothing repeated.
LEMMA DistinctInsert ==
  ASSUME NEW S, NEW d \in Seq(S), NEW p \in Seq(S), Distinct(d \o p), NEW m, m \notin S
  PROVE  /\ Distinct(d \o (<<m>> \o p)) /\ Distinct(d \o (p \o <<m>>))
         /\ <<m>> \o p \in Seq(S \union {m}) /\ p \o <<m>> \in Seq(S \union {m})
<1> DEFINE T == S \union {m}
<1>1. d \in Seq(T) /\ p \in Seq(T) /\ <<m>> \in Seq(T)
  BY SeqMonotonic
<1>2. Distinct(d) /\ Distinct(p) /\ \A i \in DOMAIN d, j \in DOMAIN p : d[i] # p[j]
  BY DistinctConcat
<1>3. /\ \A i \in DOMAIN d : d[i] # m
      /\ \A j \in DOMAIN p : p[j] # m
  BY ElementOfSeq, LenProperties
<1>4. Distinct(<<m>>) /\ \A i \in DOMAIN <<m>> : <<m>>[i] = m
  BY DEF Distinct
<1>5. /\ Distinct(d \o <<m>>) /\ d \o <<m>> \in Seq(T)
      /\ \A k \in DOMAIN (d \o <<m>>) : (d \o <<m>>)[k] = m \/ \E i \in DOMAIN d : (d \o <<m>>)[k] = d[i]
  <2>1. \A i \in DOMAIN d, j \in DOMAIN <<m>> : d[i] # <<m>>[j]
    BY <1>3, <1>4
  <2> QED
    <3>1. Distinct(d \o <<m>>)
      BY <1>1, <1>2, <1>4, <2>1, DistinctConcat
    <3>2. d \o <<m>> \in Seq(T)
      BY <1>1, ConcatProperties
    <3>3. \A k \in DOMAIN (d \o <<m>>) :
            \/ \E i \in DOMAIN d : (d \o <<m>>)[k] = d[i]
            \/ \E j \in DOMAIN <<m>> : (d \o <<m>>)[k] = <<m>>[j]
      BY <1>1, ConcatElements
    <3> QED
      BY <1>4, <3>1, <3>2, <3>3
<1>6. Distinct((d \o <<m>>) \o p)
  <2>1. \A k \in DOMAIN (d \o <<m>>), j \in DOMAIN p : (d \o <<m>>)[k] # p[j]
    BY <1>2, <1>3, <1>5
  <2> QED
    BY <1>1, <1>2, <1>5, <2>1, DistinctConcat
<1>7. d \o p \in Seq(T) /\ \A k \in DOMAIN (d \o p) : (d \o p)[k] # m
  <2>1. d \o p \in Seq(S)
    BY ConcatProperties
  <2> QED
    BY <2>1, SeqMonotonic, ElementOfSeq, LenProperties
<1>8. Distinct((d \o p) \o <<m>>)
  <2>1. \A i \in DOMAIN (d \o p), j \in DOMAIN <<m>> : (d \o p)[i] # <<m>>[j]
    BY <1>4, <1>7
  <2> QED
    BY <1>1, <1>4, <1>7, <2>1, DistinctConcat
<1>9. (d \o <<m>>) \o p = d \o (<<m>> \o p) /\ (d \o p) \o <<m>> = d \o (p \o <<m>>)
  <2>1. (d \o <<m>>) \o p = d \o (<<m>> \o p)
    BY ONLY <1>1, ConcatAssociative
  <2>2. (d \o p) \o <<m>> = d \o (p \o <<m>>)
    BY ONLY <1>1, ConcatAssociative
  <2> QED
    BY <2>1, <2>2
<1> QED
  BY <1>1, <1>6, <1>8, <1>9, ConcatProperties

\* The first elements of p may move behind d.
LEMMA MoveFirst ==
  ASSUME NEW S, NEW d \in Seq(S), NEW p \in Seq(S), NEW n \in 1 .. Len(p)
  PROVE  /\ (d \o SubSeq(p, 1, n)) \o SubSeq(p, n + 1, Len(p)) = d \o p
         /\ d \o SubSeq(p, 1, n) \in Seq(S) /\ SubSeq(p, n + 1, Len(p)) \in Seq(S)
<1>1. Len(p) \in Nat /\ \A k \in 1 .. Len(p) : p[k] \in S
  BY LenProperties, ElementOfSeq
<1>2. SubSeq(p, 1, n) \in Seq(S)
  BY <1>1, SubSeqProperties
<1>3. SubSeq(p, n + 1, Len(p)) \in Seq(S)
  <2>1. n + 1 \in Int /\ Len(p) \in Int /\ \A k \in n + 1 .. Len(p) : p[k] \in S
    BY <1>1
  <2> QED
    BY <2>1, SubSeqProperties
<1>4. SubSeq(p, 1, n) \o SubSeq(p, n + 1, Len(p)) = p
  <2>1. 1 \in 1 .. Len(p) + 1 /\ n \in 1 - 1 .. Len(p) /\ Len(p) \in n .. Len(p)
    BY <1>1
  <2>2. SubSeq(p, 1, n) \o SubSeq(p, n + 1, Len(p)) = SubSeq(p, 1, Len(p))
    BY <2>1, ConcatAdjacentSubSeq
  <2> QED
    BY <2>2, SubSeqFull
<1>5. d \o SubSeq(p, 1, n) \in Seq(S)
  BY <1>2, ConcatProperties
<1>6. (d \o SubSeq(p, 1, n)) \o SubSeq(p, n + 1, Len(p))
        = d \o (SubSeq(p, 1, n) \o SubSeq(p, n + 1, Len(p)))
  <2> DEFINE a == SubSeq(p, 1, n)
             b == SubSeq(p, n + 1, Len(p))
  <2>1. d \in Seq(S) /\ a \in Seq(S) /\ b \in Seq(S)
    BY <1>2, <1>3
  <2> HIDE DEF a, b
  <2>2. (d \o a) \o b = d \o (a \o b)
    BY ONLY <2>1, ConcatAssociative, SMTT(30)
  <2> QED
    BY <2>2, Zenon DEF a, b
<1> QED
  BY <1>3, <1>4, <1>5, <1>6

\* A part of p may be kept.
LEMMA DistinctCut ==
  ASSUME NEW S, NEW d \in Seq(S), NEW p \in Seq(S), Distinct(d \o p),
         NEW i \in Nat \ {0}, NEW j \in 0 .. Len(p)
  PROVE  SubSeq(p, i, j) \in Seq(S) /\ Distinct(d \o SubSeq(p, i, j))
<1>1. Len(p) \in Nat /\ j \in Nat /\ j <= Len(p)
  BY LenProperties
<1>2. Distinct(d) /\ Distinct(p) /\ \A k \in DOMAIN d, l \in DOMAIN p : d[k] # p[l]
  BY DistinctConcat
<1>3. /\ SubSeq(p, i, j) \in Seq(S) /\ Distinct(SubSeq(p, i, j))
      /\ \A k \in DOMAIN SubSeq(p, i, j) : \E l \in DOMAIN p : SubSeq(p, i, j)[k] = p[l]
  <2>1. i \in Nat \ {0} /\ j \in Nat /\ j <= Len(p) /\ Distinct(p)
    BY <1>1, <1>2
  <2> QED
    BY <2>1, DistinctSubSeq
<1>4. \A k \in DOMAIN d, l \in DOMAIN SubSeq(p, i, j) : d[k] # SubSeq(p, i, j)[l]
  BY <1>2, <1>3
<1> QED
  BY <1>2, <1>3, <1>4, DistinctConcat

\* What a thread has handed out or holds is accepted, and each message is there
\* once: NoMessageTwice with what makes it inductive.
Accepted == {m \in Messages : request[m] = "accepted"}

OnceIn(t) == /\ Distinct(HandedOut(t))
             /\ delivered[t] \in Seq(Accepted) /\ Pending(t) \in Seq(Accepted)
OnceInv == \A t \in Threads : OnceIn(t)

\* Accepted messages stay accepted, also those of a sequence.
LEMMA AcceptedMonotonic ==
  ASSUME TypeInv, [Next]_vars
  PROVE  /\ Accepted \subseteq Accepted' /\ \A s \in Seq(Accepted) : s \in Seq(Accepted')
<1>1. Accepted \subseteq Accepted'
  BY AcceptedStays DEF Accepted
<1> QED
  BY <1>1, SeqMonotonic

\* No thread has messages at first ...
LEMMA InitOnceInv == Init => OnceInv
<1> SUFFICES ASSUME Init, NEW t \in Threads PROVE OnceIn(t)
  BY DEF OnceInv
<1>1. Pending(t) = <<>> /\ delivered[t] = <<>>
  BY DEF Init, Pending, InFlight, Live, LiveStages
<1>2. <<>> \o <<>> = <<>> /\ <<>> \in Seq(Accepted)
  BY ConcatEmptySeq
<1> QED
  BY <1>1, <1>2 DEF OnceIn, HandedOut, Distinct

\* ... and each effect keeps those of a thread apart.
LEMMA NextOnceInv == Steady /\ OnceInv /\ [Next]_vars => OnceInv'
<1> SUFFICES ASSUME Steady, OnceInv, [Next]_vars, NEW t \in Threads PROVE (OnceIn(t))'
  BY DEF OnceInv
<1>1. /\ TypeInv /\ delivered[t] \in Seq(Accepted) /\ Pending(t) \in Seq(Accepted)
      /\ Distinct(delivered[t] \o Pending(t))
      /\ delivered \in [Threads -> Seq(Messages)]
  BY DEF Steady, Before, OnceInv, OnceIn, HandedOut, TypeInv, TypeOK
<1>2. \A s \in Seq(Accepted) : s \in Seq(Accepted')
  BY <1>1, AcceptedMonotonic
<1>3. PICK d, p : d = delivered[t] /\ p = Pending(t)
  OBVIOUS
<1>4. ASSUME NEW e, NEW q, delivered'[t] = e, (Pending(t))' = q,
             e \in Seq(Accepted'), q \in Seq(Accepted'), Distinct(e \o q)
      PROVE  (OnceIn(t))'
  BY <1>4 DEF OnceIn, HandedOut, Distinct
<1>5. ASSUME delivered'[t] = d, (Pending(t))' = p PROVE (OnceIn(t))'
  BY <1>1, <1>2, <1>3, <1>4, <1>5
<1>6. ASSUME delivered'[t] = d, NEW i \in Nat \ {0}, NEW j \in 0 .. Len(p), (Pending(t))' = SubSeq(p, i, j)
      PROVE  (OnceIn(t))'
  <2>1. SubSeq(p, i, j) \in Seq(Accepted) /\ Distinct(d \o SubSeq(p, i, j))
    BY <1>1, <1>3, DistinctCut
  <2> QED
    BY <1>1, <1>2, <1>3, <1>4, <1>6, <2>1
<1>7. CASE Same
  BY <1>3, <1>5, <1>7 DEF Same
<1>8. ASSUME NEW m \in Messages, request[m] \in {"unsent", "admitted"}, request'[m] = "accepted", Accepts(m)
      PROVE  (OnceIn(t))'
  <2>1. CASE t = To[m]
    <3>1. m \notin Accepted /\ Accepted \union {m} \subseteq Accepted'
      BY <1>1, <1>8, AcceptedMonotonic DEF Accepted
    <3>2. p \in Seq(Messages) /\ Append(p, m) = p \o <<m>>
      BY <1>3, AppendIsConcat DEF Steady, Before, PendingIs
    <3>3. /\ delivered'[t] = d
          /\ (Pending(t))' = <<m>> \o p \/ (Pending(t))' = p \o <<m>>
      BY <1>3, <1>8, <2>1, <3>2 DEF Accepts
    <3>4. /\ Distinct(d \o (<<m>> \o p)) /\ Distinct(d \o (p \o <<m>>))
          /\ <<m>> \o p \in Seq(Accepted \union {m}) /\ p \o <<m>> \in Seq(Accepted \union {m})
      BY <1>1, <1>3, <3>1, DistinctInsert
    <3>5. <<m>> \o p \in Seq(Accepted') /\ p \o <<m>> \in Seq(Accepted') /\ d \in Seq(Accepted')
      BY <1>1, <1>2, <1>3, <3>1, <3>4, SeqMonotonic
    <3> QED
      BY <1>4, <3>3, <3>4, <3>5
  <2>2. CASE t # To[m]
    BY <1>3, <1>5, <1>8, <2>2 DEF Accepts
  <2> QED
    BY <2>1, <2>2
<1>9. ASSUME NEW u \in Threads, Delivers(u) PROVE (OnceIn(t))'
  <2>1. CASE t = u
    <3>1. PICK n \in 1 .. Len(p) :
            /\ delivered'[t] = d \o SubSeq(p, 1, n)
            /\ (Pending(t))' = SubSeq(p, n + 1, Len(p))
      BY <1>1, <1>3, <1>9, <2>1 DEF Delivers
    <3>2. /\ (d \o SubSeq(p, 1, n)) \o SubSeq(p, n + 1, Len(p)) = d \o p
          /\ d \o SubSeq(p, 1, n) \in Seq(Accepted) /\ SubSeq(p, n + 1, Len(p)) \in Seq(Accepted)
      <4>1. d \in Seq(Accepted) /\ p \in Seq(Accepted) /\ n \in 1 .. Len(p)
        BY <1>1, <1>3, <3>1
      <4> QED
        BY <4>1, MoveFirst
    <3> QED
      BY <1>1, <1>2, <1>3, <1>4, <3>1, <3>2
  <2>2. CASE t # u
    BY <1>1, <1>3, <1>5, <1>9, <2>2 DEF Delivers
  <2> QED
    BY <2>1, <2>2
<1>10. ASSUME NEW u \in Threads, Clears(u) PROVE (OnceIn(t))'
  <2>1. CASE t = u
    BY <1>3, <1>6, <1>10, <2>1 DEF Clears
  <2>2. CASE t # u
    BY <1>3, <1>5, <1>10, <2>2 DEF Clears
  <2> QED
    BY <2>1, <2>2
<1>11. CASE Loses
  BY <1>3, <1>6, <1>11 DEF Loses
<1> QED
  BY <1>7, <1>8, <1>9, <1>10, <1>11, NextHandles DEF Handles

\* A message is in a run once, and if it waits or is about to be put into one it
\* is nowhere else, whatever fails or crashes: tryDrain, the injection after
\* tools and the re-invocation of AgentNode.invoke never hand one out twice.
THEOREM MessagesOnce == Spec => []NoMessageTwice
<1> DEFINE Inv == TypeInv /\ OneInv /\ BatchHeld /\ OnceInv
<1>1. Init => Inv
  BY InitTypeInv, InitOneInv, InitBatchHeld, InitOnceInv
<1>2. TypeInv /\ OneInv => PendingIs
  BY PendingOf
<1>3. (TypeInv /\ OneInv => PendingIs)'
  BY PendingOf, PTL
<1>4. Inv /\ [Next]_vars => Inv'
  BY <1>2, <1>3, NextTypeInv, NextOneInv, NextBatchHeld, NextOnceInv DEF Steady, Before
<1>5. Inv => NoMessageTwice
  BY DEF OnceInv, OnceIn, Distinct, NoMessageTwice
<1> QED
  BY <1>1, <1>4, <1>5, PTL DEF Spec
-----------------------------------------------------------------------------
(***************************************************************************)
(* Without debouncing and failures the agent is a first-in first-out       *)
(* mailbox: an idle thread leaves nothing in its queue, so that a message  *)
(* that finds it idle comes behind all others too.                         *)
(***************************************************************************)
Settled == \A t \in Threads : settled[t]
NoFailure == \A r \in RunIds : pc[r] \notin {"failing", "failsend"}
QueueServed == \A t \in Threads : queue[t] # <<>> => Busy(t)

QuietInv == Settled /\ NoFailure /\ QueueServed

\* At first nothing waits and nothing has failed.
LEMMA InitQuietInv == Init => QuietInv
BY DEF Init, QuietInv, Settled, NoFailure, QueueServed

\* An invocation that ends takes what is in the queue, whose window is over.
LEMMA NextQuietInv ==
  ASSUME ~Debounced, Faults = {}
  PROVE  TypeInv /\ OneInv /\ QuietInv /\ [Next]_vars => QuietInv'
<1> SUFFICES ASSUME TypeInv, OneInv, QuietInv, [Next]_vars PROVE QuietInv'
  OBVIOUS
<1> USE DEF dbVars, bufferVars, localVars, invocationVars, signalVars, controlVars, GoTo
<1>1. /\ pc \in [RunIds -> LiveStages \union {"none", "done"}]
      /\ queue \in [Threads -> Seq(Messages)] /\ settled \in [Threads -> BOOLEAN]
      /\ thread \in [RunIds -> Threads] /\ To \in [Messages -> Threads]
  BY ConstantsAssumption DEF ConstantsAssumption, TypeInv, TypeOK
<1>2. ASSUME NEW r \in RunIds, NEW s \in {"assign", "model", "prepare", "loop", "inject", "complete", "send"},
             GoTo(r, s), UNCHANGED <<queue, settled, runningThreads>>
      PROVE  QuietInv'
  BY <1>1, <1>2 DEF QuietInv, Settled, NoFailure, QueueServed, Busy
<1>3. ASSUME UNCHANGED <<pc, queue, settled, runningThreads>> PROVE QuietInv'
  BY <1>3 DEF QuietInv, Settled, NoFailure, QueueServed, Busy
<1>4. ASSUME NEW m \in Messages, Invoke(m) PROVE QuietInv'
  <2>1. CASE Busy(To[m])
    BY <1>1, <1>4, <2>1 DEF Invoke, Enqueue, QuietInv, Settled, NoFailure, QueueServed, Busy
  <2>2. CASE ~Busy(To[m])
    BY <1>1, <1>4, <2>2 DEF Invoke, StartInvocation, QuietInv, Settled, NoFailure, QueueServed, Busy
  <2> QED
    BY <2>1, <2>2
<1>5. ASSUME NEW r \in RunIds, InvocationStep(r) PROVE QuietInv'
  <2>1. CASE BeginRun(r)
    BY <1>2, <2>1 DEF BeginRun
  <2>2. CASE AssignAgent(r)
    BY <1>2, <2>2 DEF AssignAgent
  <2>3. CASE EnsureModel(r)
    BY <1>2, <2>3 DEF EnsureModel
  <2>4. CASE PrepareLoop(r)
    BY <1>2, <2>4 DEF PrepareLoop
  <2>5. CASE RecordInjected(r)
    BY <1>2, <2>5 DEF RecordInjected
  <2>6. CASE LoopReturns(r)
    BY <1>2, <2>6 DEF LoopReturns
  <2>7. CASE CompleteRun(r)
    BY <1>2, <2>7 DEF CompleteRun
  <2>8. CASE FailRun(r)
    BY <2>8 DEF FailRun, QuietInv, NoFailure
  <2>9. CASE FinishFailed(r)
    BY <2>9 DEF FinishFailed, QuietInv, NoFailure
  <2>10. CASE Finish(r)
    <3>1. CASE Drainable(thread[r])
      <4>1. /\ \A t \in Threads : t # thread[r] => queue'[t] = queue[t]
            /\ runningThreads' = runningThreads \union {thread[r]} /\ settled' = settled
            /\ pc' = [pc EXCEPT ![r] = "done", ![started + 1] = "begin"]
        BY <1>1, <2>10, <3>1 DEF Finish, StartInvocation
      <4> QED
        BY <1>1, <4>1 DEF QuietInv, Settled, NoFailure, QueueServed, Busy
    <3>2. CASE ~Drainable(thread[r])
      <4>1. queue[thread[r]] = <<>>
        BY <1>1, <3>2 DEF Drainable, QuietInv, Settled
      <4> QED
        BY <1>1, <2>10, <3>2, <4>1 DEF Finish, QuietInv, Settled, NoFailure, QueueServed, Busy
    <3> QED
      BY <3>1, <3>2
  <2> QED
    BY <1>5, <2>1, <2>2, <2>3, <2>4, <2>5, <2>6, <2>7, <2>8, <2>9, <2>10 DEF InvocationStep
<1>6. ASSUME NEW r \in RunIds, InjectAfterTools(r) PROVE QuietInv'
  <2>1. Live(r)
    BY <1>6 DEF InjectAfterTools, Live, LiveStages
  <2>2. Busy(thread[r]) /\ runningThreads' = runningThreads /\ settled' = settled
    BY <1>1, <1>6, <2>1 DEF InjectAfterTools, OneInv, OneInvocationPerThread
  <2>3. \A t \in Threads : t # thread[r] => queue'[t] = queue[t]
    BY <1>1, <1>6 DEF InjectAfterTools
  <2>4. pc' = [pc EXCEPT ![r] = "inject"]
    BY <1>6 DEF InjectAfterTools
  <2> QED
    BY <1>1, <2>2, <2>3, <2>4 DEF QuietInv, Settled, NoFailure, QueueServed, Busy
<1>7. ASSUME NEW r \in RunIds PROVE ~(BeginFails(r) \/ Throw(r) \/ FailRunFails(r))
  BY DEF BeginFails, Throw, FailRunFails
<1>8. ASSUME NEW t \in Threads, Settle(t) \/ ClearQueuedMessages(t) PROVE QuietInv'
  BY <1>1, <1>8 DEF Settle, ClearQueuedMessages, QuietInv, Settled, NoFailure, QueueServed, Busy
<1>9. CASE \/ \E m \in Messages : ReadThread(m)
           \/ \E r \in RunIds : ReadRun(r) \/ TerminateRun(r)
           \/ \E t \in Threads : PatchThread(t) \/ CascadeCloses(t) \/ CascadeListsRuns(t)
           \/ Recover \/ UNCHANGED vars
  BY <1>3, <1>9 DEF ReadThread, ReadRun, TerminateRun, PatchThread, CascadeCloses, CascadeListsRuns,
     Recover, vars
<1>10. ~Crash
  BY DEF Crash
<1> QED
  BY <1>4, <1>5, <1>6, <1>7, <1>8, <1>9, <1>10 DEF Next, PostMessage, InvokeFromTool

\* What waits in the mailbox is what is pending.
LEMMA InitMailbox == Init => Mailbox!Init
<1> SUFFICES ASSUME Init PROVE Mailbox!Init
  OBVIOUS
<1>1. \A t \in Threads : Pending(t) = <<>>
  BY DEF Init, Pending, InFlight, Live, LiveStages
<1> QED
  BY <1>1 DEF Init, Mailbox!Init

\* Each effect of a step that is possible without failures is one of the mailbox.
LEMMA StepMailbox ==
  ASSUME Faults = {}, ~Debounced
  PROVE  Steady /\ QuietInv /\ [Next]_vars => [Mailbox!Next]_Mailbox!vars
<1> SUFFICES ASSUME Steady, QuietInv, [Next]_vars PROVE [Mailbox!Next]_Mailbox!vars
  OBVIOUS
<1> DEFINE waiting == [t \in Threads |-> Pending(t)]
           waiting1 == [t \in Threads |-> (Pending(t))']
<1>1. \A t \in Threads : Pending(t) \in Seq(Messages) /\ Len(Pending(t)) \in Nat
  BY LenProperties DEF Steady, Before, PendingIs
<1>2. CASE Same
  <2>1. waiting1 = waiting
    BY <1>2 DEF Same
  <2> QED
    BY <1>2, <2>1 DEF Same, Mailbox!vars
<1>3. ASSUME NEW m \in Messages, Accepts(m) PROVE Mailbox!Next
  <2>1. To[m] \in Threads
    BY ConstantsAssumption DEF ConstantsAssumption
  <2>2. (Pending(To[m]))' = Append(Pending(To[m]), m)
    <3>1. CASE Busy(To[m])
      BY <1>3, <3>1 DEF Accepts
    <3>2. CASE ~Busy(To[m])
      <4>1. Pending(To[m]) = <<>>
        BY <2>1, <3>2 DEF Steady, Before, PendingIs, QuietInv, QueueServed
      <4>2. <<m>> \o <<>> = <<m>> /\ Append(<<>>, m) = <<m>>
        OBVIOUS
      <4> QED
        BY <1>3, <3>2, <4>1, <4>2 DEF Accepts
    <3> QED
      BY <3>1, <3>2
  <2>3. waiting1 = [waiting EXCEPT ![To[m]] = Append(@, m)]
    BY <1>3, <2>1, <2>2 DEF Accepts
  <2>4. Mailbox!Accept(m)
    BY <1>3, <2>3 DEF Accepts, Mailbox!Accept
  <2> QED
    BY <2>4 DEF Mailbox!Next
<1>4. ASSUME NEW t \in Threads, Delivers(t) PROVE Mailbox!Next
  <2>1. PICK n \in 1 .. Len(Pending(t)) :
          /\ delivered' = [delivered EXCEPT ![t] = @ \o SubSeq(Pending(t), 1, n)]
          /\ (Pending(t))' = SubSeq(Pending(t), n + 1, Len(Pending(t)))
          /\ \A u \in Threads \ {t} : (Pending(u))' = Pending(u)
    BY <1>4 DEF Delivers
  <2>2. waiting[t] = Pending(t) /\ n > 0 /\ n \in 0 .. Len(waiting[t])
    BY <1>1, <2>1
  <2>3. waiting1 = [waiting EXCEPT ![t] = SubSeq(@, n + 1, Len(@))]
    BY <2>1
  <2>4. Mailbox!Deliver(t, n)
    BY <2>1, <2>2, <2>3 DEF Mailbox!Deliver
  <2> QED
    BY <2>2, <2>4 DEF Mailbox!Next
<1>5. ASSUME NEW t \in Threads, Clears(t) PROVE Mailbox!Next
  <2>1. PICK n \in 0 .. Len(Pending(t)) : (Pending(t))' = SubSeq(Pending(t), 1, n)
    BY <1>5 DEF Clears
  <2>2. waiting[t] = Pending(t) /\ n \in 0 .. Len(waiting[t])
    BY <2>1
  <2>3. waiting1 = [waiting EXCEPT ![t] = SubSeq(@, 1, n)]
    BY <1>5, <2>1 DEF Clears
  <2>4. Mailbox!Clear(t, n)
    BY <1>5, <2>3 DEF Clears, Mailbox!Clear
  <2> QED
    BY <2>2, <2>4 DEF Mailbox!Next
<1> QED
  BY <1>2, <1>3, <1>4, <1>5, NextHandles DEF Handles

\* Without debouncing and failures, a thread is the mailbox of ThreadMailbox:
\* messages enter runs in the order they were accepted, also where a run injects
\* after tools and where one ends and its successor takes the queue.
THEOREM FirstInFirstOut ==
  ASSUME ~Debounced, Faults = {}
  PROVE  Spec => ImplementsMailbox
<1> DEFINE Inv == TypeInv /\ OneInv /\ BatchHeld /\ QuietInv
<1>1. Init => Inv /\ Mailbox!Init
  BY InitTypeInv, InitOneInv, InitBatchHeld, InitQuietInv, InitMailbox
<1>2. TypeInv /\ OneInv => PendingIs
  BY PendingOf
<1>3. (TypeInv /\ OneInv => PendingIs)'
  BY PendingOf, PTL
<1>4. Inv /\ [Next]_vars => Inv' /\ [Mailbox!Next]_Mailbox!vars
  BY <1>2, <1>3, NextTypeInv, NextOneInv, NextBatchHeld, NextQuietInv, StepMailbox DEF Steady, Before
<1> QED
  BY <1>1, <1>4, PTL DEF Spec, ImplementsMailbox, Mailbox!Spec
=============================================================================
