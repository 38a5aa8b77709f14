SPECIFICATION Spec
CONSTANTS
  NumImages = 3
  Width <- NarrowWidths
  Doubtful = {}
  FoldsAsked = {1}
  Cs <- OneC
  Epsilons <- CloseEpsilons
  UpsampleBelow = 10
  FlipBelow = 3
CHECK_DEADLOCK FALSE
INVARIANT DetectorsKept
