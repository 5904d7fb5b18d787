CONSTANTS
  Inputs <- MCEvents
  HostInputs <- MCEvents
  Times = {0, 2, 3}
  Durations = {1, 2}
  Outputs <- MCOutputs
  Raised = {8}
  Channels <- MCChannels
  Cells <- MCCells
  MaxEvents = 2
  Horizon = 3
  None = None
SPECIFICATION FairSpec
INVARIANT NoneOverdue
PROPERTIES EventsInOrder NoneEarly PulsesConserved EventsLeave
