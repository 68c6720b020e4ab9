SPECIFICATION FairSpec
CONSTANTS
  Nodes <- MCNodes
  Pairs <- MCPairs
  Offers <- MCOffers
  Tables <- MCTables
  Requests <- MCRequests
  Protocols <- MCProtocols
INVARIANTS
  CacheIsCurrent
  BestWhenAdditive
PROPERTIES
  ImplementsRouteService
  SearchEnds
CHECK_DEADLOCK FALSE
