CONSTANTS
  k1 = k1
  c1 = c1
  c2 = c2
  Ids = {c1}
  Callers = {k1}
  Platforms = {"amd64", "arm64"}
  Platform <- WantsAmd
  Scenarios <- OnlyExpiry
  MaxFaults = 1
SPECIFICATION FairSpec
PROPERTY FailedTerminationRetried
CHECK_DEADLOCK FALSE
