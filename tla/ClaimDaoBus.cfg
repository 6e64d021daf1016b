CONSTANTS
  p = p
  q = q
  a = a
  t1 = t1
  t2 = t2
  Replica = {p, q}
  Row <- MCRow
  Agg = {a}
  NoAgg = NoAgg
  Topic = {t1, t2}
  NoOwner = NoOwner
  AggOf <- MCAggOf
  TopicOf <- MCTopicOf
  Subscribed <- MCSubscribed
  BatchSize = 2
  MaxRetries = 2
  KeepsSent = FALSE
SPECIFICATION Spec
INVARIANTS
  TypeOK
  OneOwnerPerAggregate
  IInv
PROPERTIES
  TableSpec
CHECK_DEADLOCK FALSE
