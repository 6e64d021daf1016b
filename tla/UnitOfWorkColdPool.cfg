CONSTANTS
  p = p
  q = q
  Worker = {p, q}
  Careful = {p}
  NoWorker = NoWorker
  PoolSize = 2
  CallsOf <- MCOnce
  MaxFaults = 0
  MaxTime = 2
SPECIFICATION FairSpec
PROPERTIES
  CallsEnd
CHECK_DEADLOCK FALSE
