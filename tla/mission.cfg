CONSTANTS
  Inputs <- MCMissionEvents
  HostInputs = {}
  Times = {}
  Durations = {1}
  Outputs <- MCRelayWords
  Raised = {}
  Channels <- MCMissionChannels
  Cells <- MCMissionCells
  MaxEvents = 0
  Horizon = 6
  None = None
  Faults <- MCDrop
  Boundaries = {0, 5}
  MaxFaults = 1
  Scenarios <- MCScenarios
  SequenceKeys <- P63Keys
  StartCycle = 1
  MinimumGap = 2
  FrameInterval = 3
  Codes <- MCCodes
SPECIFICATION FairMission
INVARIANTS TypeMission ReportSound DisplayShowsLastWords
PROPERTIES ImplementsKeyLine SequenceCompletes
CHECK_DEADLOCK FALSE
