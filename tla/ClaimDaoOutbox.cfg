CONSTANTS
  p = p
  q = q
  a = a
  t1 = t1
  t2 = t2
  Replica = {p, q}
  Row <- MCRow
  Agg = {a}
  NoAgg = NoAgg
  Topic = {t1, t2}
  NoOwner = NoOwner
  AggOf <- MCAggOf
  TopicOf <- MCTopicOf
  Subscribed <- MCEverything
  BatchSize = 2
  MaxRetries = 2
  KeepsSent = TRUE
SPECIFICATION Spec
PROPERTY SentIsFinal
CHECK_DEADLOCK FALSE
