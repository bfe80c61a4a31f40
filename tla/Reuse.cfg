SPECIFICATION Spec
CONSTANTS
  JobIDs <- OneJob
  MaxSubmits = 2
  MaxFaults = 2
  Retention = TRUE
  DrainOnPreemption = TRUE
  EnablePrioritySync = TRUE
  LaggingCache = TRUE
  Rejected <- Nobody
  Disturbances <- Everything
INVARIANT TypeOK
INVARIANT NoRunawayJob
INVARIANT AdmittedBeforeRelease
INVARIANT RunsOnOwnCapacity
INVARIANT MarkedNodesAreGone
PROPERTY NeverDeletesLiveCapacity
PROPERTY RetentionKept
PROPERTY ImplementsLifecycle
