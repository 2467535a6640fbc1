-------------------------- MODULE RemindersProofs --------------------------
(***************************************************************************)
(* Proofs about Reminders, for any threads, calls, cap, requests and       *)
(* faults.                                                                 *)
(***************************************************************************)
EXTENDS Reminders, TLAPS

\* What is known of the reminder of one call.  Nothing has happened to it before
\* its timer is set, and its timer, the running callback and its delivery
\* exclude one another, in this order.
OneShot(r) ==
  /\ call[r] # "over" => r \notin armed /\ firing[r] = "no" /\ deliveries[r] = 0
  /\ r \in armed => firing[r] = "no" /\ deliveries[r] = 0
  /\ firing[r] # "no" => deliveries[r] = 0
  /\ deliveries[r] <= 1

\* Timers, callbacks and cancellations exist for reminders with a row only.
HasRow(r) ==
  call[r] = "created" \/ r \in armed \/ firing[r] # "no" \/ cancelling[r] = "update"
    => r \in created

\* A callback that goes on to the delivery has completed the row.
Recorded(r) ==
  /\ firing[r] = "settled" => r \in completed
  /\ deliveries[r] > 0 => r \in completed \union unserved

IInv ==
  /\ TypeOK
  /\ RegistryExact
  /\ \A r \in Calls : OneShot(r)
  /\ \A r \in Calls : HasRow(r)
  /\ \A r \in Calls : Recorded(r)

\* The two stage assignments are expanded everywhere below.
USE DEF Goes, Cancelling

\* Initially nothing was asked for.
LEMMA InitIInv == Init => IInv
<1> SUFFICES ASSUME Init PROVE IInv
  OBVIOUS
<1>1. TypeOK BY RemindersAssumption DEF Init, TypeOK
<1>2. RegistryExact BY DEF Init, RegistryExact
<1>3. \A r \in Calls : OneShot(r) BY DEF Init, OneShot
<1>4. \A r \in Calls : HasRow(r) BY DEF Init, HasRow
<1>5. \A r \in Calls : Recorded(r) BY DEF Init, Recorded
<1> QED BY <1>1, <1>2, <1>3, <1>4, <1>5 DEF IInv

\* Steps of a call.
LEMMA CallKeeps ==
  ASSUME IInv, NEW r \in Calls, CallStep(r) PROVE IInv'
<1>1. CASE Execute(r)
  <2>1. TypeOK'
    BY <1>1 DEF Execute, IInv, TypeOK, threadVars, rowVars, toolVars, nodeVars,
         historyVars
  <2>2. RegistryExact' BY <1>1 DEF Execute, IInv, TypeOK, RegistryExact, toolVars
  <2>3. \A q \in Calls : OneShot(q)'
    BY <1>1 DEF Execute, IInv, TypeOK, OneShot, toolVars, historyVars
  <2>4. \A q \in Calls : HasRow(q)'
    BY <1>1 DEF Execute, IInv, TypeOK, HasRow, rowVars, toolVars
  <2>5. \A q \in Calls : Recorded(q)'
    BY <1>1 DEF Execute, IInv, TypeOK, Recorded, rowVars, historyVars
  <2> QED BY <2>1, <2>2, <2>3, <2>4, <2>5 DEF IInv
<1>2. CASE CheckThread(r)
  <2>1. TypeOK'
    BY <1>2 DEF CheckThread, IInv, TypeOK, threadVars, rowVars, toolVars, nodeVars,
         historyVars
  <2>2. RegistryExact' BY <1>2 DEF CheckThread, IInv, TypeOK, RegistryExact, toolVars
  <2>3. \A q \in Calls : OneShot(q)'
    BY <1>2 DEF CheckThread, IInv, TypeOK, OneShot, toolVars, historyVars
  <2>4. \A q \in Calls : HasRow(q)'
    BY <1>2 DEF CheckThread, IInv, TypeOK, HasRow, rowVars, toolVars
  <2>5. \A q \in Calls : Recorded(q)'
    BY <1>2 DEF CheckThread, IInv, TypeOK, Recorded, rowVars, historyVars
  <2> QED BY <2>1, <2>2, <2>3, <2>4, <2>5 DEF IInv
<1>3. CASE CreateRow(r)
  <2>1. TypeOK'
    BY <1>3 DEF CreateRow, IInv, TypeOK, threadVars, toolVars, nodeVars, historyVars
  <2>2. RegistryExact' BY <1>3 DEF CreateRow, IInv, TypeOK, RegistryExact, toolVars
  <2>3. \A q \in Calls : OneShot(q)'
    BY <1>3 DEF CreateRow, IInv, TypeOK, OneShot, toolVars, historyVars
  <2>4. \A q \in Calls : HasRow(q)'
    BY <1>3 DEF CreateRow, IInv, TypeOK, HasRow, toolVars
  <2>5. \A q \in Calls : Recorded(q)'
    BY <1>3 DEF CreateRow, IInv, TypeOK, Recorded, historyVars
  <2> QED BY <2>1, <2>2, <2>3, <2>4, <2>5 DEF IInv
<1>4. CASE SetTimer(r)
  <2>1. TypeOK'
    BY <1>4 DEF SetTimer, IInv, TypeOK, threadVars, rowVars, nodeVars, historyVars
  <2>2. RegistryExact' BY <1>4 DEF SetTimer, IInv, TypeOK, RegistryExact
  <2>3. \A q \in Calls : OneShot(q)'
    BY <1>4 DEF SetTimer, IInv, TypeOK, OneShot, historyVars
  <2>4. \A q \in Calls : HasRow(q)' BY <1>4 DEF SetTimer, IInv, TypeOK, HasRow, rowVars
  <2>5. \A q \in Calls : Recorded(q)'
    BY <1>4 DEF SetTimer, IInv, TypeOK, Recorded, rowVars, historyVars
  <2> QED BY <2>1, <2>2, <2>3, <2>4, <2>5 DEF IInv
<1>5. CASE CallFails(r)
  <2>1. TypeOK'
    BY <1>5 DEF CallFails, IInv, TypeOK, threadVars, rowVars, toolVars, nodeVars,
         historyVars
  <2>2. RegistryExact' BY <1>5 DEF CallFails, IInv, TypeOK, RegistryExact, toolVars
  <2>3. \A q \in Calls : OneShot(q)'
    BY <1>5 DEF CallFails, IInv, TypeOK, OneShot, toolVars, historyVars
  <2>4. \A q \in Calls : HasRow(q)'
    BY <1>5 DEF CallFails, IInv, TypeOK, HasRow, rowVars, toolVars
  <2>5. \A q \in Calls : Recorded(q)'
    BY <1>5 DEF CallFails, IInv, TypeOK, Recorded, rowVars, historyVars
  <2> QED BY <2>1, <2>2, <2>3, <2>4, <2>5 DEF IInv
<1> QED BY <1>1, <1>2, <1>3, <1>4, <1>5 DEF CallStep

\* The end of the callback frees a slot whose timer is not set.
LEMMA DeliverKeeps ==
  ASSUME IInv, NEW r \in Calls, firing[r] # "no", Deliver(r),
         unserved \subseteq unserved', unserved' \subseteq Calls,
         r \in completed \union unserved'
  PROVE  IInv'
<1>1. TypeOK' BY DEF Deliver, IInv, TypeOK, threadVars, rowVars, nodeVars
<1>2. RegistryExact' BY DEF Deliver, IInv, TypeOK, RegistryExact, OneShot
<1>3. \A q \in Calls : OneShot(q)' BY DEF Deliver, IInv, TypeOK, OneShot
<1>4. \A q \in Calls : HasRow(q)' BY DEF Deliver, IInv, TypeOK, HasRow, rowVars
<1>5. \A q \in Calls : Recorded(q)' BY DEF Deliver, IInv, TypeOK, Recorded, rowVars
<1> QED BY <1>1, <1>2, <1>3, <1>4, <1>5 DEF IInv

\* Steps of the callback of a timer.
LEMMA TimerKeeps ==
  ASSUME IInv, NEW r \in Calls, TimerStep(r) PROVE IInv'
<1>1. CASE Fire(r)
  <2>1. TypeOK'
    BY <1>1 DEF Fire, IInv, TypeOK, threadVars, rowVars, nodeVars, historyVars
  <2>2. RegistryExact' BY <1>1 DEF Fire, IInv, TypeOK, RegistryExact
  <2>3. \A q \in Calls : OneShot(q)'
    BY <1>1 DEF Fire, IInv, TypeOK, OneShot, historyVars
  <2>4. \A q \in Calls : HasRow(q)' BY <1>1 DEF Fire, IInv, TypeOK, HasRow, rowVars
  <2>5. \A q \in Calls : Recorded(q)'
    BY <1>1 DEF Fire, IInv, TypeOK, Recorded, rowVars, historyVars
  <2> QED BY <2>1, <2>2, <2>3, <2>4, <2>5 DEF IInv
<1>2. CASE CompleteRow(r)
  <2>1. TypeOK'
    BY <1>2 DEF CompleteRow, IInv, TypeOK, HasRow, threadVars, toolVars, nodeVars,
         historyVars
  <2>2. RegistryExact' BY <1>2 DEF CompleteRow, IInv, TypeOK, RegistryExact, toolVars
  <2>3. \A q \in Calls : OneShot(q)'
    BY <1>2 DEF CompleteRow, IInv, TypeOK, OneShot, toolVars, historyVars
  <2>4. \A q \in Calls : HasRow(q)'
    BY <1>2 DEF CompleteRow, IInv, TypeOK, HasRow, toolVars
  <2>5. \A q \in Calls : Recorded(q)'
    BY <1>2 DEF CompleteRow, IInv, TypeOK, Recorded, historyVars
  <2> QED BY <2>1, <2>2, <2>3, <2>4, <2>5 DEF IInv
<1>3. CASE DeliverReminder(r)
  BY <1>3, DeliverKeeps DEF DeliverReminder, IInv, TypeOK, Recorded
<1>4. CASE CompletionFails(r)
  BY <1>4, DeliverKeeps DEF CompletionFails, IInv, TypeOK
<1> QED BY <1>1, <1>2, <1>3, <1>4 DEF TimerStep

\* Steps of a cancellation by id.
LEMMA CancelKeeps ==
  ASSUME IInv, NEW r \in Calls, RequestCancel(r) \/ CancelStep(r) PROVE IInv'
<1>1. CASE RequestCancel(r)
  <2>1. TypeOK'
    BY <1>1 DEF RequestCancel, IInv, TypeOK, threadVars, rowVars, toolVars, nodeVars,
         historyVars
  <2>2. RegistryExact' BY <1>1 DEF RequestCancel, IInv, TypeOK, RegistryExact, toolVars
  <2>3. \A q \in Calls : OneShot(q)'
    BY <1>1 DEF RequestCancel, IInv, TypeOK, OneShot, toolVars, historyVars
  <2>4. \A q \in Calls : HasRow(q)'
    BY <1>1 DEF RequestCancel, IInv, TypeOK, HasRow, rowVars, toolVars
  <2>5. \A q \in Calls : Recorded(q)'
    BY <1>1 DEF RequestCancel, IInv, TypeOK, Recorded, rowVars, historyVars
  <2> QED BY <2>1, <2>2, <2>3, <2>4, <2>5 DEF IInv
<1>2. CASE ReadReminder(r)
  <2>1. TypeOK'
    BY <1>2 DEF ReadReminder, IInv, TypeOK, Pending, threadVars, rowVars, toolVars,
         nodeVars, historyVars
  <2>2. RegistryExact' BY <1>2 DEF ReadReminder, IInv, TypeOK, RegistryExact, toolVars
  <2>3. \A q \in Calls : OneShot(q)'
    BY <1>2 DEF ReadReminder, IInv, TypeOK, OneShot, toolVars, historyVars
  <2>4. \A q \in Calls : HasRow(q)'
    BY <1>2 DEF ReadReminder, IInv, TypeOK, HasRow, rowVars, toolVars
  <2>5. \A q \in Calls : Recorded(q)'
    BY <1>2 DEF ReadReminder, IInv, TypeOK, Recorded, Pending, rowVars, historyVars
  <2> QED BY <2>1, <2>2, <2>3, <2>4, <2>5 DEF IInv
<1>3. CASE CancelRow(r)
  <2>1. TypeOK'
    BY <1>3 DEF CancelRow, IInv, TypeOK, HasRow, threadVars, toolVars, nodeVars,
         historyVars
  <2>2. RegistryExact' BY <1>3 DEF CancelRow, IInv, TypeOK, RegistryExact, toolVars
  <2>3. \A q \in Calls : OneShot(q)'
    BY <1>3 DEF CancelRow, IInv, TypeOK, OneShot, toolVars, historyVars
  <2>4. \A q \in Calls : HasRow(q)'
    BY <1>3 DEF CancelRow, IInv, TypeOK, HasRow, toolVars
  <2>5. \A q \in Calls : Recorded(q)'
    BY <1>3 DEF CancelRow, IInv, TypeOK, Recorded, historyVars
  <2> QED BY <2>1, <2>2, <2>3, <2>4, <2>5 DEF IInv
<1>4. CASE ClearReminder(r)
  <2>1. TypeOK'
    BY <1>4 DEF ClearReminder, ClearTimers, IInv, TypeOK, Pending, threadVars,
         rowVars, nodeVars
  <2>2. RegistryExact'
    BY <1>4 DEF ClearReminder, ClearTimers, IInv, TypeOK, RegistryExact
  <2>3. \A q \in Calls : OneShot(q)'
    BY <1>4 DEF ClearReminder, ClearTimers, IInv, TypeOK, OneShot
  <2>4. \A q \in Calls : HasRow(q)'
    BY <1>4 DEF ClearReminder, ClearTimers, IInv, TypeOK, HasRow, rowVars
  <2>5. \A q \in Calls : Recorded(q)'
    BY <1>4 DEF ClearReminder, ClearTimers, IInv, TypeOK, Recorded, Pending, rowVars
  <2> QED BY <2>1, <2>2, <2>3, <2>4, <2>5 DEF IInv
<1> QED BY <1>1, <1>2, <1>3, <1>4 DEF CancelStep

\* Steps of the closing of a thread.
LEMMA CascadeKeeps ==
  ASSUME IInv, NEW t \in Threads, PatchThread(t) \/ CascadeStep(t) PROVE IInv'
<1>1. CASE PatchThread(t)
  <2>1. TypeOK'
    BY <1>1 DEF PatchThread, IInv, TypeOK, rowVars, toolVars, nodeVars, historyVars
  <2>2. RegistryExact' BY <1>1 DEF PatchThread, IInv, TypeOK, RegistryExact, toolVars
  <2>3. \A q \in Calls : OneShot(q)'
    BY <1>1 DEF PatchThread, IInv, TypeOK, OneShot, toolVars, historyVars
  <2>4. \A q \in Calls : HasRow(q)'
    BY <1>1 DEF PatchThread, IInv, TypeOK, HasRow, rowVars, toolVars
  <2>5. \A q \in Calls : Recorded(q)'
    BY <1>1 DEF PatchThread, IInv, TypeOK, Recorded, rowVars, historyVars
  <2> QED BY <2>1, <2>2, <2>3, <2>4, <2>5 DEF IInv
<1>2. CASE CascadeCloses(t)
  <2>1. TypeOK'
    BY <1>2 DEF CascadeCloses, IInv, TypeOK, rowVars, toolVars, nodeVars, historyVars
  <2>2. RegistryExact' BY <1>2 DEF CascadeCloses, IInv, TypeOK, RegistryExact, toolVars
  <2>3. \A q \in Calls : OneShot(q)'
    BY <1>2 DEF CascadeCloses, IInv, TypeOK, OneShot, toolVars, historyVars
  <2>4. \A q \in Calls : HasRow(q)'
    BY <1>2 DEF CascadeCloses, IInv, TypeOK, HasRow, rowVars, toolVars
  <2>5. \A q \in Calls : Recorded(q)'
    BY <1>2 DEF CascadeCloses, IInv, TypeOK, Recorded, rowVars, historyVars
  <2> QED BY <2>1, <2>2, <2>3, <2>4, <2>5 DEF IInv
<1>3. CASE CancelThreadRows(t)
  <2>1. TypeOK'
    BY <1>3 DEF CancelThreadRows, IInv, TypeOK, Pending, toolVars, nodeVars,
         historyVars
  <2>2. RegistryExact'
    BY <1>3 DEF CancelThreadRows, IInv, TypeOK, RegistryExact, toolVars
  <2>3. \A q \in Calls : OneShot(q)'
    BY <1>3 DEF CancelThreadRows, IInv, TypeOK, OneShot, toolVars, historyVars
  <2>4. \A q \in Calls : HasRow(q)'
    BY <1>3 DEF CancelThreadRows, IInv, TypeOK, HasRow, toolVars
  <2>5. \A q \in Calls : Recorded(q)'
    BY <1>3 DEF CancelThreadRows, IInv, TypeOK, Recorded, Pending, historyVars
  <2> QED BY <2>1, <2>2, <2>3, <2>4, <2>5 DEF IInv
<1>4. CASE ClearThread(t)
  <2>1. TypeOK'
    BY <1>4 DEF ClearThread, ClearTimers, IInv, TypeOK, Pending, rowVars, nodeVars
  <2>2. RegistryExact' BY <1>4 DEF ClearThread, ClearTimers, IInv, TypeOK, RegistryExact
  <2>3. \A q \in Calls : OneShot(q)'
    BY <1>4 DEF ClearThread, ClearTimers, IInv, TypeOK, OneShot
  <2>4. \A q \in Calls : HasRow(q)'
    BY <1>4 DEF ClearThread, ClearTimers, IInv, TypeOK, HasRow, rowVars
  <2>5. \A q \in Calls : Recorded(q)'
    BY <1>4 DEF ClearThread, ClearTimers, IInv, TypeOK, Recorded, Pending, rowVars
  <2> QED BY <2>1, <2>2, <2>3, <2>4, <2>5 DEF IInv
<1> QED BY <1>1, <1>2, <1>3, <1>4 DEF CascadeStep

\* The lifecycle of the node and of the process.
LEMMA LifecycleKeeps ==
  ASSUME IInv, Deprovision \/ Provision \/ Crash \/ Recover PROVE IInv'
<1>1. CASE Deprovision
  <2>1. TypeOK'
    BY <1>1 DEF Deprovision, DestroyTool, IInv, TypeOK, Pending, threadVars, rowVars,
         toolVars
  <2>2. RegistryExact'
    BY <1>1 DEF Deprovision, DestroyTool, IInv, TypeOK, RegistryExact, toolVars
  <2>3. \A q \in Calls : OneShot(q)'
    BY <1>1 DEF Deprovision, DestroyTool, IInv, TypeOK, OneShot, toolVars
  <2>4. \A q \in Calls : HasRow(q)'
    BY <1>1 DEF Deprovision, DestroyTool, IInv, TypeOK, HasRow, rowVars, toolVars
  <2>5. \A q \in Calls : Recorded(q)'
    BY <1>1 DEF Deprovision, DestroyTool, IInv, TypeOK, Recorded, Pending, rowVars
  <2> QED BY <2>1, <2>2, <2>3, <2>4, <2>5 DEF IInv
<1>2. CASE Provision
  <2>1. TypeOK'
    BY <1>2 DEF Provision, IInv, TypeOK, threadVars, rowVars, toolVars, historyVars
  <2>2. RegistryExact' BY <1>2 DEF Provision, IInv, TypeOK, RegistryExact, toolVars
  <2>3. \A q \in Calls : OneShot(q)'
    BY <1>2 DEF Provision, IInv, TypeOK, OneShot, toolVars, historyVars
  <2>4. \A q \in Calls : HasRow(q)'
    BY <1>2 DEF Provision, IInv, TypeOK, HasRow, rowVars, toolVars
  <2>5. \A q \in Calls : Recorded(q)'
    BY <1>2 DEF Provision, IInv, TypeOK, Recorded, rowVars, historyVars
  <2> QED BY <2>1, <2>2, <2>3, <2>4, <2>5 DEF IInv
<1>3. CASE Crash
  <2>1. TypeOK' BY <1>3 DEF Crash, IInv, TypeOK, rowVars, historyVars
  <2>2. RegistryExact' BY <1>3 DEF Crash, IInv, TypeOK, RegistryExact
  <2>3. \A q \in Calls : OneShot(q)'
    BY <1>3 DEF Crash, IInv, TypeOK, OneShot, historyVars
  <2>4. \A q \in Calls : HasRow(q)' BY <1>3 DEF Crash, IInv, TypeOK, HasRow, rowVars
  <2>5. \A q \in Calls : Recorded(q)'
    BY <1>3 DEF Crash, IInv, TypeOK, Recorded, rowVars, historyVars
  <2> QED BY <2>1, <2>2, <2>3, <2>4, <2>5 DEF IInv
<1>4. CASE Recover
  <2>1. TypeOK'
    BY <1>4 DEF Recover, IInv, TypeOK, Pending, threadVars, toolVars, nodeVars,
         historyVars
  <2>2. RegistryExact' BY <1>4 DEF Recover, IInv, TypeOK, RegistryExact, toolVars
  <2>3. \A q \in Calls : OneShot(q)'
    BY <1>4 DEF Recover, IInv, TypeOK, OneShot, toolVars, historyVars
  <2>4. \A q \in Calls : HasRow(q)' BY <1>4 DEF Recover, IInv, TypeOK, HasRow, toolVars
  <2>5. \A q \in Calls : Recorded(q)'
    BY <1>4 DEF Recover, IInv, TypeOK, Recorded, Pending, historyVars
  <2> QED BY <2>1, <2>2, <2>3, <2>4, <2>5 DEF IInv
<1> QED BY <1>1, <1>2, <1>3, <1>4

\* No step of any actor, and no stutter, breaks the invariant.
LEMMA StepKeeps == IInv /\ [Next]_vars => IInv'
<1> SUFFICES ASSUME IInv, [Next]_vars PROVE IInv'
  OBVIOUS
<1>1. CASE Next
  BY <1>1, CallKeeps, TimerKeeps, CancelKeeps, CascadeKeeps, LifecycleKeeps DEF Next
<1>2. CASE UNCHANGED vars
  BY <1>2 DEF vars, threadVars, rowVars, toolVars, nodeVars, historyVars, IInv, TypeOK,
              RegistryExact, OneShot, HasRow, Recorded
<1> QED BY <1>1, <1>2

\* What the theorems below rest on.
LEMMA Invariance == Spec => []IInv
  BY InitIInv, StepKeeps, PTL DEF Spec

\* The rows, timers and stages of reminders have their types: no row is completed
\* or cancelled that does not exist.
THEOREM RemindersTyped == Spec => []TypeOK
<1>1. IInv => TypeOK BY DEF IInv
<1> QED BY <1>1, Invariance, PTL

\* No slot of the registry leaks and no timer is set without one, whatever is
\* cancelled, closed or disposed of and whatever fails.
THEOREM SlotsExact == Spec => []RegistryExact
<1>1. IInv => RegistryExact BY DEF IInv
<1> QED BY <1>1, Invariance, PTL

\* No reminder is delivered twice, through crashes and failed completions.
THEOREM AtMostOneDelivery == Spec => []DeliveredAtMostOnce
<1>1. IInv => DeliveredAtMostOnce BY DEF IInv, OneShot, DeliveredAtMostOnce
<1> QED BY <1>1, Invariance, PTL

\* Whatever was delivered has its row completed, or its completion failed: the
\* callback completes the row first.
THEOREM DeliveriesRecorded == Spec => []DeliveredIsCompleted
<1>1. IInv => DeliveredIsCompleted BY DEF IInv, Recorded, DeliveredIsCompleted
<1> QED BY <1>1, Invariance, PTL
=============================================================================
