SPECIFICATION FairSpec
CONSTANTS
  Names <- OneName
  MaxWorkerRetries = 1
  MaxUid = 2
  MaxFailures = 2
  MaxFaults = 1
  MaxEdits = 1
INVARIANT BudgetInv
PROPERTY CullsOnlyItsOwnFailures
PROPERTY WaitingJobsStart
PROPERTY AbandonedWorkersGo
CHECK_DEADLOCK FALSE
