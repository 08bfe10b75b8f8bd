SPECIFICATION Spec
CONSTANTS
  W = 2
  MaxTimeout = 15
  TESTS = 2
  BITMAP_SIZE = 6
  ROUNDS = 5
INVARIANTS
  OwnAnswers
PROPERTIES
  Transparent
  EndsWithVerdict
