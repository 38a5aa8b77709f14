SPECIFICATION FairSpec
CONSTANTS
  Done = Done
  Sizes <- MCSizes
  Padding = 1
  MaxResizes = 2
  MaxClicks = 3
  Frame <- MCFrame
  Preferred <- MCPreferred
  Frames = 2
  Images <- MCImages
CHECK_DEADLOCK FALSE
INVARIANTS WindowKeepsSize BoxesAreDrawn
PROPERTIES CallsReturn ClosingFrees
