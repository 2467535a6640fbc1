CONSTANTS
  a = a
  b = b
  Ids = {a, b}
  Templates = {"agent", "tool", "mcp"}
  Configs = {"c1", "c2"}
  Graphs <- Changes
  MaxApplies = 3
  Faults = {"instantiate", "config", "reversal", "edge", "provision", "deprovision"}
  MaxFaults = 1
SPECIFICATION Spec
INVARIANTS
  GraphRealised
  OnlyLiveInstancesRun
CHECK_DEADLOCK FALSE
