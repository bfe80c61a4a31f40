SPECIFICATION Spec
CONSTANTS
  MaxTasks = 3
  MaxPerNode = 2
  MaxGPUs = 4
  Limits = {0, 1, 60}
  MaxDelay = 300
  MaxFaults = 1
INVARIANT JobSetInv
INVARIANT LockStep
INVARIANT CleanedJobsLeaveNoRecords
CHECK_DEADLOCK FALSE
