\* Two idle workers and one job.
CONSTANTS
  Worker = {w1, w2}
  MaxJobs = 1
  MaxRestarts = 0
  MaxFaults = 0
SPECIFICATION Spec
INVARIANTS
  RaceIsHarmless
CHECK_DEADLOCK FALSE
