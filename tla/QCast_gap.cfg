SPECIFICATION StudySpec
CONSTANTS
  Nodes <- MCNodes
  Pairs <- MCPairs
  Losses <- MCLosses
  Unsteady <- MCUnsteady
  Tables <- MCTables
  LocalLinks <- MCLocalLinks
  Batches <- MCBatches
  Configs <- MCConfigs
  SwapLoss <- MCSwapLoss
  MaxPaths = 2
  MaxChanges = 1
  MaxFailures = 2
INVARIANTS
  CoveredSucceeds
