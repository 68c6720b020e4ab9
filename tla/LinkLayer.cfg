SPECIFICATION Spec
CONSTANTS
  Nodes <- MCNodes
  PhyNodes <- MCPhyNodes
  Links <- MCLinks
  LinkMetrics <- MCLinkMetrics
  MaxRequests = 2
INVARIANTS
  ToldReadyHoldsPair
  OnlyEarlyConsumptionLeaks
PROPERTY ImplementsEntanglementService
CHECK_DEADLOCK FALSE
