SPECIFICATION Spec
CONSTANTS
  Infinity = Infinity
  MaxCacheSize = 2
  Samples <- MCSamples
  Labellings <- MCLabellings
  Weights <- Grid
  Zero <- MCZero
  Norm <- MCNorm
  Gradient <- MCGradient
  Problems <- MCProblems
  C = 3
  Epsilon = 1
  MostRounds = 11
  InactiveThresh = 3
  LossPerMissed = 1
  LossPerFalse = 1
  MaxNumDets = 4
  Images <- MCImages
  TrainingSets <- MCTrainingSets
  Scores <- MCScores
CHECK_DEADLOCK FALSE
INVARIANTS TypeOK ChosenIsWorst NearOptimal GreedyIsExact ConvergesInTime GapIsGain
PROPERTIES LowerBoundRises LatestStay IsCuttingPlaneMethod
