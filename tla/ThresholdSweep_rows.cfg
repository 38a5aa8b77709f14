SPECIFICATION Spec
CONSTANTS
  Windows = {1, 2, 3, 4}
  Clash <- RowClash
  NumTruths = 2
  Marks <- SharedMarks
  MaxFiles = 2
  Scores = {1, 2, 3, 4, 6}
  StartThreshold = 1
  EndThreshold = 7
  ThresholdStep = 2
CHECK_DEADLOCK FALSE
INVARIANTS LogRight RecallFalls SuppressionRight
