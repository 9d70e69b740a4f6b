\* Three iterations and one crash, lower metrics being better.
CONSTANTS
  NaN = NaN
  Metric = {1, 2}
  HigherIsBetter = FALSE
  MaxDrafts = 1
  Reactivate = 1
  MaxImprove = 1
  Threshold = 2
  MaxIters = 3
  Budget = 1
  MaxCrashes = 1
SPECIFICATION FairSpec
INVARIANTS
  TypeOK
  VisitsFlow
  RangeCovers
  BestCoversRecords
  BuggyNeverExpanded
  FlagMeansRepeated
  SnapshotsUnshared
PROPERTIES
  ForcedDebugNext
  RecordsKept
  NaNDisplacesNothing
  SearchEnds
\* The search ends.
CHECK_DEADLOCK FALSE
