SPECIFICATION FairSpec
CONSTANTS
  Worker = {w1, w2}
  Timeout = 2
  Slack = 2
  Intervals = {1, 3}
  MaxFaults = 2
INVARIANTS
  TypeOK
  PromptInTime
  StopEndsAll
PROPERTIES
  SessionEnds
  RunGetsOn
