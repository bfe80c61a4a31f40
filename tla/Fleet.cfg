SPECIFICATION FairSpec
CHECK_DEADLOCK FALSE
CONSTANTS
  a = a
  b = b
  CRs <- TwoObjects
  Specs <- Claims
  Says <- SayClaims
  NoSpec = NoSpec
  AllowedImages <- Images
  AllowedPaths <- Paths
  InsecureTLS = FALSE
  Initially <- Started
  MaxEdits = 2
  MaxFaults = 1
INVARIANT LoopInv
INVARIANT OneManager
INVARIANT HealthyIsServed
PROPERTY RejectionStands
PROPERTY Settles
