SPECIFICATION PlanSpec
CONSTANTS
  BaseDelays <- ZeroOrTwo
  MaxDeviations <- ZeroOrTen
  UpdateIntervals <- OneOrTwo
  BurstMultiplier = 2
  BurstDurations <- DrawnDurations
  MinBurst = 1
  MaxBurst = 3
  MaxHistorySize = 2
  MaxTime = 4
  MaxHops = 18
  Studies <- AllStudies
  Unused = Unused
INVARIANTS
  OneEventOfAKind
  BurstTimeAccounted
  SwapsAreIndependent
  EdgesCountedOnce
  StudiesAreWellPosed
PROPERTY EndsInOnePair
CHECK_DEADLOCK FALSE
