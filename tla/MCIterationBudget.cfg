\* One attempt at debugging and two units of time.
CONSTANTS
  Metric = {1}
  MaxModules = 0
  MaxDebug = 1
  PerRun = 2
  Budget = 2
SPECIFICATION Spec
PROPERTIES
  RunFitsBudget
CHECK_DEADLOCK FALSE
