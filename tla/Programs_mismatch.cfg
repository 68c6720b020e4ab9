SPECIFICATION Spec
CONSTANTS
  Last = 5
  Hop = 4
  LocalDelay = 1
  Latencies = {2, 9}
  ListenTimes <- MCListenTimes
  God = God
  Nobody = Nobody
  Qubits <- AllQubits
  PacketLatency = 1
  EprDelay = 2
  ClassicalDelay = 3
  Programs <- Simulations
  Step = 10
  Distillations <- MCDistillations
  Unit = 3
  Unused = Unused
  Plays <- ReliablePlays
  Scenarios = {"route"}
INVARIANT BothPathsFinish
CHECK_DEADLOCK FALSE
