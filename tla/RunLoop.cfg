SPECIFICATION Spec
CONSTANTS
  Polls <- TwoPolls
  Damp = 10
  MaxTick = 12
  MaxReport = 5
  Width = 64
  MaxFailures = 4
  MaxReloads = 1
INVARIANT TimerInv
INVARIANT EventsAreSeenSoon
INVARIANT ReadyWhileSucceeding
PROPERTY TicksAreSpaced
