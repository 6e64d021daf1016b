CONSTANTS
  p = p
  q = q
  a = a
  t = t
  Replica = {p, q}
  Row <- MCRow
  Agg = {a}
  NoAgg = NoAgg
  Topic = {t}
  NoOwner = NoOwner
  NoRow = NoRow
  AggOf <- MCAggOf
  TopicOf <- MCTopicOf
  Subscribed <- MCSubscribed
  BatchSize = 2
  MaxRetries = 2
  Mortal = {p}
  MaxFaults = 2
SPECIFICATION FairSpec
INVARIANTS
  TypeOK
  SentWasPublished
  OneRowAtATime
PROPERTIES
  BusInOrder
  EveryEventIsForwarded
CHECK_DEADLOCK FALSE
