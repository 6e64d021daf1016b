CONSTANTS
  p = p
  q = q
  a = a
  t = t
  Replica = {p, q}
  Row <- ThreeRows
  Agg = {a}
  NoAgg = NoAgg
  Topic = {t}
  NoOwner = NoOwner
  NoRow = NoRow
  AggOf <- MCAggOf
  TopicOf <- MCTopicOf
  Subscribed <- MCSubscribed
  BatchSize = 2
  MaxRetries = 1
  Lease = 3
  Skew = 1
  Own = {2}
  Mortal = {}
  Blocking = TRUE
  MaxFaults = 1
SPECIFICATION Spec
INVARIANTS
  TypeOK
  DuplicateIsReported
PROPERTIES
  StartsInOrder
  StartsOwned
SYMMETRY Interchangeable
CHECK_DEADLOCK FALSE
