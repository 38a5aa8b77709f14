SPECIFICATION Spec
CONSTANTS
  Folded = 3
  Pairs = 4
  Means <- MCMeans
  Sizes <- MCSizes
CHECK_DEADLOCK FALSE
INVARIANTS WindowsFit DriftsOneWay
