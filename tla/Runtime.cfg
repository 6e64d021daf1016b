CONSTANTS
  consumer = consumer
  forwarder = forwarder
  database = database
  Participant = {consumer, forwarder, database}
  Phases <- MCPhases
  NoCause = NoCause
  NoResult = NoResult
SPECIFICATION FairSpec
INVARIANTS
  TypeOK
  PhasesInOrder
  CleanExit
PROPERTIES
  DisposedOnce
  TriggerEndsProcess
CHECK_DEADLOCK FALSE
