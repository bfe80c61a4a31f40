SPECIFICATION Spec
CONSTANTS
  Polls <- OnePoll
  Damp = 1
  MaxTick = 0
  MaxReport = 0
  Width = 64
  MaxFailures = 64
  MaxReloads = 0
PROPERTY BackoffHolds
