SPECIFICATION FairSpec
CONSTANTS
  NumImages = 6
  Width <- SixWidths
  Doubtful = {1, 4}
  FoldsAsked = {2, 4, 6}
  Cs <- TwoCs
  Epsilons <- ApartEpsilons
  UpsampleBelow = 10
  FlipBelow = 3
CHECK_DEADLOCK FALSE
INVARIANTS Paired NoLeak FoldsBalanced TrainingComplete GridComplete DetectorsKept
PROPERTY Finishes
