SPECIFICATION Spec
CONSTANTS
  Words = 3
  LATENCY = 8
  REPS = 2
  CYC_COUNT = 2
  LOOPS = 2
INVARIANTS
  FlashAnswers
