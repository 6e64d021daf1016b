CONSTANTS
  p = p
  q = q
  Worker = {p, q}
  Careful = {p}
  NoWorker = NoWorker
  PoolSize = 4
  CallsOf <- MCCallsOf
  MaxFaults = 1
  MaxTime = 2
SPECIFICATION FairSpec
INVARIANTS
  TypeOK
  LostUpdateNeedsOneMs
  LockedReadConflictsWithItself
  PoolRefills
PROPERTIES
  IsAtomic
  CallsEnd
CHECK_DEADLOCK FALSE
