CONSTANTS
  t1 = t1
  m1 = m1
  m2 = m2
  m3 = m3
  Threads = {t1}
  Messages = {m1, m2}
  To <- OneThread2
  MaxRuns = 2
  Behaviors <- WaitOrInject
  Debounced = TRUE
  Faults <- AllFaults
SPECIFICATION FairSpec
INVARIANTS
  TypeOK
  OneInvocationPerThread
  RunningRowsOwned
  NoMessageTwice
PROPERTIES
  CompletedRunsStay
  InvocationsEnd
  TerminateHonoured
CHECK_DEADLOCK FALSE
