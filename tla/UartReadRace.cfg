SPECIFICATION Spec
CONSTANTS
  NBits = 2
  IDLE = 6
  HOLD = 16
  Dividers = {2}
INVARIANTS
  ReadTakesWhatItReturned
