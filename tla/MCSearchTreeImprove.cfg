\* A crash while an iteration works on its node.
CONSTANTS
  NaN = NaN
  Metric = {1}
  HigherIsBetter = TRUE
  MaxDrafts = 1
  Reactivate = 5
  MaxImprove = 2
  Threshold = 3
  MaxIters = 2
  Budget = 1
  MaxCrashes = 1
SPECIFICATION Spec
PROPERTIES
  OnlyValidImproved
CHECK_DEADLOCK FALSE
