\* Workers racing for jobs, some left over by an earlier session, on one device or
\* two, with one failing file operation.
CONSTANTS
  Worker = {w1, w2}
  MaxJobs = 2
  MaxRestarts = 1
  MaxFaults = 1
SPECIFICATION FairSpec
INVARIANTS
  TypeOK
  ExecutedAtMostOnce
  SomeWorkerSurvives
  OutcomeUnique
  PayloadKept
PROPERTIES
  ClaimsOldest
  ImplementsLifecycle
  JobServed
\* Every process may have stopped for good.
CHECK_DEADLOCK FALSE
