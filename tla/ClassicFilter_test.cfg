SPECIFICATION Spec
CONSTANTS
  Planes = {1, 2}
  Ranks = {1, 2, 3}
  MaxValue = 9000
  Trained <- FileDetectors
  NumFiles = 1
  TestMode = TRUE
  Strength = 40
  Start <- CodeStart
  Retained = {0}
  Broken = Broken
  MaxRuns = 1
  MaxCrashes = 0
CHECK_DEADLOCK FALSE
INVARIANTS NotEmptied
