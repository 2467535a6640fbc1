CONSTANTS
  k1 = k1
  k2 = k2
  p1 = p1
  p2 = p2
  Clients = {k1, k2}
  Patchers = {p1}
  Faults = {"stage", "swap", "restore", "read", "crash"}
  MaxFaults = 3
SPECIFICATION FairSpec
INVARIANTS
  TypeOK
  SavedSurvives
  SavedGraphsWhole
PROPERTIES
  SaveFollows
  RequestsEnd
CHECK_DEADLOCK FALSE
