CONSTANTS
  A = A
  B = B
  C = C
  D = D
  E = E
  F = F
  Nodes = {A, B, C, D, E, F}
  Owners = {A, B, C, D, E}
  Routes <- ChainRoutes
  MaxPaths = 1
  MaxRetries = 1
SPECIFICATION FairSpec
INVARIANTS
  PendingPathHasOneDriver
  SwapOperandsHeld
  SignalMatchesSegments
  ReadyPathHoldsPair
  FailedOnlyAfterAllRetries
PROPERTIES
  OnlyCompletionsOrphan
  ImplementsPathServiceLive
CHECK_DEADLOCK FALSE
