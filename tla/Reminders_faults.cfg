CONSTANTS
  t1 = t1
  r1 = r1
  r2 = r2
  Threads = {t1}
  Calls = {r1, r2}
  Of <- OneThread
  MaxActive = 1
  Requests = {"cancel", "close", "dispose"}
  Faults = {"read", "create", "complete", "cancel", "crash"}
SPECIFICATION FairSpec
INVARIANTS
  TypeOK
  RegistryExact
  DeliveredAtMostOnce
PROPERTY PendingResolves
CHECK_DEADLOCK FALSE
