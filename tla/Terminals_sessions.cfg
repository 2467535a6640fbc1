CONSTANTS
  s1 = s1
  k1 = k1
  k2 = k2
  k3 = k3
  Sessions = {s1}
  Connections = {k1, k2, k3}
  Session <- OneSession
  Faults = {"open", "close"}
SPECIFICATION TerminalsFairSpec
INVARIANTS
  TerminalsTypeOK
  SessionsServed
PROPERTIES
  ReconnectPossible
  TerminalsEnd
CHECK_DEADLOCK FALSE
