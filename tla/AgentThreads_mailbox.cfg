CONSTANTS
  t1 = t1
  m1 = m1
  m2 = m2
  m3 = m3
  Threads = {t1}
  Messages = {m1, m2, m3}
  To <- OneThread
  MaxRuns = 3
  Behaviors <- InjectEither
  Debounced = FALSE
  Faults = {}
SPECIFICATION FairSpec
PROPERTIES
  ImplementsMailbox
  QueuedMessagesRun
CHECK_DEADLOCK FALSE
