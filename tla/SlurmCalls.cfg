SPECIFICATION FairSpec
CONSTANTS
  Served = {1}
  Strangers = {2, 3}
  RateTenths = 4
  Patience = 1
  MaxFaults = 1
  MaxKeys = 2
INVARIANT ListsAreWhole
PROPERTY JobSetsOutliveTheirJobs
PROPERTY DeadJobsAreCancelled
PROPERTY TicksComplete
