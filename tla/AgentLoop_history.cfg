CONSTANTS
  MaxRuns = 3
  MaxTurns = 3
  MaxBuffered = 1
  Configs <- EachConfig
  Faults = {"llm", "save", "inject", "crash", "load"}
SPECIFICATION FairSpec
INVARIANTS
  ConversationSound
  ModelCallsCompleted
PROPERTIES
  ConversationKept
  TerminateStopsLoop
CHECK_DEADLOCK FALSE
