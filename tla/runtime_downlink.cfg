CONSTANTS
  Inputs <- MCEvents
  HostInputs = {}
  Times = {0, 2, 3}
  Durations = {1, 2}
  Outputs <- MCOutputs
  Raised = {}
  Channels <- MCChannels
  Cells <- MCCells
  MaxEvents = 2
  Horizon = 3
  None = None
SPECIFICATION Spec
PROPERTY FrameCaptured
