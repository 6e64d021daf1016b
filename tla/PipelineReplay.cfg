CONSTANTS
  p = p
  q = q
  a = a
  t = t
  Replica = {p, q}
  Row <- MCRow
  Agg = {a}
  NoAgg = NoAgg
  Topic = {t}
  NoOwner = NoOwner
  NoRow = NoRow
  AggOf <- MCAggOf
  TopicOf <- MCTopicOf
  Subscribed <- MCSubscribed
  BatchSize = 2
  MaxRetries = 2
  Mortal = {p}
  MaxFaults = 0
SPECIFICATION Spec
INVARIANTS
  NoSecondRow
CHECK_DEADLOCK FALSE
