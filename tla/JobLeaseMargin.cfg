CONSTANTS
  p = p
  q = q
  Instance = {p, q}
  LeaseMs = 6
  CooldownMs = 3
  MaxTime = 6
  MaxAcquires = 1
SPECIFICATION Spec
PROPERTY GivesUpOneIntervalEarly
CHECK_DEADLOCK FALSE
