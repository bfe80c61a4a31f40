SPECIFICATION FairSpec
CONSTANTS
  JobIDs <- TwoJobs
  MaxSubmits = 1
  MaxFaults = 2
  Retention = FALSE
  DrainOnPreemption = FALSE
  EnablePrioritySync = FALSE
  LaggingCache = FALSE
  Rejected <- First
  Disturbances <- Cancelling
PROPERTY HeldJobsAreReleased
