CONSTANTS
  Phases = 8
  ScalerSize = 8
  CounterMax = 1
  DownruptDelay = 20
  InstructionCycles = {2, 6}
  TrapInputs = {"31a", "32"}
  DownlinkChannels = {28, 29}
  StoredTimes <- MCTimes
  MaxCycles = 900
  BusyCycles = 84
  None = None
SPECIFICATION Spec
INVARIANTS Conserved NeverTwoBehind CountersKeepTime
PROPERTIES DownruptOnTime TrapsFire Time6CountsDown
CONSTRAINT QuietLater
CHECK_DEADLOCK FALSE
