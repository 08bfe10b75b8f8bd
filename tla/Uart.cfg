SPECIFICATION Spec
CONSTANTS
  NBits = 2
  IDLE = 6
  HOLD = 24
  Dividers = {1, 2, 3, 4}
INVARIANTS
  DropsOnlyAfterReset
PROPERTIES
  Delivered
  ByteArrives
