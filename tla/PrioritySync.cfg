SPECIFICATION FairSpec
CONSTANTS
  MaxUserPriority = 2
  Top = 3
  MaxWrites = 2
  MaxFaults = 2
INVARIANT UsersStayBelowCap
INVARIANT AckedWasApplied
PROPERTY DirectivesAreAnswered
PROPERTY MirrorSettles
