CONSTANTS
  p = p
  q = q
  a = a
  t = t
  Replica = {p, q}
  Row <- TwoRows
  Agg = {a}
  NoAgg = NoAgg
  Topic = {t}
  NoOwner = NoOwner
  NoRow = NoRow
  AggOf <- MCAggOf
  TopicOf <- MCTopicOf
  Subscribed <- MCSubscribed
  BatchSize = 2
  MaxRetries = 2
  Lease = 3
  Skew = 1
  Own = {}
  Mortal = {p}
  Blocking = FALSE
  MaxFaults = 1
SPECIFICATION FairSpec
INVARIANTS
  NoOverlap
PROPERTIES
  StartsInOrder
  EveryEventIsSettled
CHECK_DEADLOCK FALSE
