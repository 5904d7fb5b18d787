CONSTANTS
  Inputs <- MCInputs
  HostInputs <- MCHost
  Times = {0, 2}
  Durations = {1}
  Outputs <- MCFaultOutputs
  Raised = {8}
  Channels <- MCFaultChannels
  Cells <- MCFaultCells
  MaxEvents = 1
  Horizon = 3
  None = None
  Faults <- MCFaultKinds
  Boundaries = {0, 2}
  MaxFaults = 2
SPECIFICATION FairSpecFaults
INVARIANTS AppliedAtBoundary InjectedBeforeInstruction
PROPERTY StuckReleased
