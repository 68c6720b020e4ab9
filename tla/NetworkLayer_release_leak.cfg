CONSTANTS
  A = A
  B = B
  C = C
  D = D
  E = E
  F = F
  Nodes = {A, B, C}
  Owners = {A, B, C}
  Routes <- ShortRoutes
  MaxPaths = 1
  MaxRetries = 0
SPECIFICATION Spec
INVARIANT ReleaseFreesQubits
CHECK_DEADLOCK FALSE
