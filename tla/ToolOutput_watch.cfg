CONSTANTS
  Configs <- MCConfigs
  TailLimit = 2
  MaxPieces = 3
  MaxFaults = 1
  Limit = 2
  OtherChunks = 1
  MaxRequests = 2
  MaxDrops = 1
SPECIFICATION Spec
INVARIANTS
  ChunksAccounted
  ResultWhole
  ViewSound
PROPERTIES
  ImplementsFeed
  CatchupsCatchUp
CHECK_DEADLOCK FALSE
