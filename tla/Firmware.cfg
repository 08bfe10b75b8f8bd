SPECIFICATION Spec
CONSTANTS
  MaxRun = 2
  Words = 2
  MinGap = 3
  READY_POLLS = 2
  CMD_POLLS = 2
  CMD0_TRIES = 2
  ACMD41_TRIES = 2
  TOKEN_POLLS = 2
INVARIANTS
  StrobesLand
  TakesOwnResult
  CardRules
PROPERTIES
  ImplementsSelfTest
  VerdictReached
