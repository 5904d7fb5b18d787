CONSTANTS
  Inputs <- MCMissionEvents
  HostInputs = {}
  Times = {}
  Durations = {1}
  Outputs <- MCNoOutput
  Raised = {}
  Channels <- MCMissionChannels
  Cells <- MCMissionCells
  MaxEvents = 0
  Horizon = 6
  None = None
  Faults = {}
  Boundaries = {}
  MaxFaults = 0
  Scenarios <- MCOperator
  SequenceKeys <- P63Keys
  StartCycle = 1
  MinimumGap = 2
  FrameInterval = 3
  Codes <- MCCodes
SPECIFICATION SpecMission
INVARIANT FedAsRead
CHECK_DEADLOCK FALSE
