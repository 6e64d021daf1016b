CONSTANTS
  consumer = consumer
  forwarder = forwarder
  database = database
  Participant = {consumer, forwarder, database}
  Phases <- MCPhases
  NoCause = NoCause
  NoResult = NoResult
SPECIFICATION Spec
INVARIANTS
  FailedStartupExitsOne
CHECK_DEADLOCK FALSE
