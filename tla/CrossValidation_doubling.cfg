SPECIFICATION Spec
CONSTANTS
  NumImages = 3
  Width <- NarrowWidths
  Doubtful = {}
  FoldsAsked = {2}
  Cs <- OneC
  Epsilons <- ApartEpsilons
  UpsampleBelow = 10
  FlipBelow = 3
CHECK_DEADLOCK FALSE
INVARIANT AtMostDoubled
