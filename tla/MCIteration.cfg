\* Two modules, two attempts at debugging, three units of time.
CONSTANTS
  Metric = {1, 2}
  MaxModules = 2
  MaxDebug = 2
  PerRun = 2
  Budget = 3
SPECIFICATION FairSpec
INVARIANTS
  TypeOK
  MetricMatchesCode
PROPERTIES
  RunsOnlyNewCode
  IterationEnds
\* An iteration ends.
CHECK_DEADLOCK FALSE
