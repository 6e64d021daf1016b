CONSTANTS
  p = p
  q = q
  Instance = {p, q}
  LeaseMs = 3
  CooldownMs = 3
  MaxTime = 6
  MaxAcquires = 3
SPECIFICATION Spec
INVARIANTS
  IInv
  OneHolder
PROPERTIES
  OneRunPerInterval
  NoStartOnceAborted
SYMMETRY Interchangeable
CHECK_DEADLOCK FALSE
