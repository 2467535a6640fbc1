CONSTANTS
  k1 = k1
  c1 = c1
  c2 = c2
  Ids = {c1, c2}
  Callers = {k1}
  Platforms = {"amd64", "arm64"}
  Platform <- WantsAmd
  Scenarios <- Everything
  MaxFaults = 1
SPECIFICATION FairSpec
INVARIANTS
  StoppedByServiceIsGone
  RowsFollowDocker
PROPERTIES
  RowsSettle
  ClosedThreadCleared
CHECK_DEADLOCK FALSE
