SPECIFICATION FairSpec
CONSTANTS
  MaxMessages = 2
  MaxTime = 1
  Links <- OneLink
  Delays <- JustZero
  DefaultDelay = 2
  Timeouts <- NoTimeoutOrOne
  Leftovers <- NotZero
  NoModel = NoModel
INVARIANTS
  TimeoutNeverWins
  StatsBalance
PROPERTIES
  ImplementsSignalingServiceLive
CHECK_DEADLOCK FALSE
