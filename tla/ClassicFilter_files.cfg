SPECIFICATION FairSpec
CONSTANTS
  Planes = {1, 2}
  Ranks = {1, 2, 3}
  MaxValue = 9000
  Trained <- FileDetectors
  NumFiles = 2
  TestMode = FALSE
  Strength = 50
  Start <- ShortStart
  Retained = {0, 599999, 1000000}
  Broken = Broken
  MaxRuns = 3
  MaxCrashes = 2
CHECK_DEADLOCK FALSE
INVARIANTS NotEmptied CompoundIsFresh LastGood SecondRunKeeps FilesSurvive
PROPERTY RunEnds
