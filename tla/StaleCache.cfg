SPECIFICATION FairSpec
CONSTANTS
  JobIDs <- OneJob
  MaxSubmits = 1
  MaxFaults = 2
  Retention = TRUE
  DrainOnPreemption = TRUE
  EnablePrioritySync = TRUE
  LaggingCache = TRUE
  Rejected <- Nobody
  Disturbances <- Endings
PROPERTY NeverDeletesLiveCapacity
PROPERTY HeldJobsAreReleased
PROPERTY DeadCapacityFailsJob
PROPERTY FinishedJobsAreCleaned
