CONSTANTS
  c1 = c1
  c2 = c2
  c3 = c3
  t1 = t1
  t2 = t2
  Calls = {c1, c2, c3}
  Children = {t1, t2}
  NoCall = NoCall
  Setups <- EachSetup
  Faults = {"event", "resolve", "link", "begin", "complete", "transport", "forward"}
  MaxFaults = 1
SPECIFICATION FairSpec
INVARIANTS
  AnswersFit
  LinksRight
PROPERTIES
  CallsAnswered
CHECK_DEADLOCK FALSE
