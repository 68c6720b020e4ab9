SPECIFICATION Spec
CONSTANTS
  Last = 5
  Hop = 4
  LocalDelay = 1
  Latencies = {2, 9}
  ListenTimes <- MCListenTimes
  God = God
  Nobody = Nobody
  Qubits <- AllQubits
  PacketLatency = 1
  EprDelay = 2
  ClassicalDelay = 3
  Programs <- Simulations
  Step = 10
  Distillations <- MCDistillations
  Unit = 3
  Unused = Unused
  Plays <- AllPlays
  Scenarios = {"chain", "adapt", "distill", "route"}
INVARIANTS
  NoCorrectionMissing
  LegsAgree
  SequenceContractsAll
  OnlyGoalIsLeft
  DistillationConcludes
  EndsLeftAlone
  WaitsAsPredicted
PROPERTY ChainsDeliver
CHECK_DEADLOCK FALSE
