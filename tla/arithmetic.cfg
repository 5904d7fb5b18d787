CONSTANTS
  Cells <- MCCells
  Channels <- MCChannels
  Instructions <- MCInstructions
  FirstRegisters <- MCRegisters
  FirstWords <- MCWords
  FirstQ <- MCFirstQ
  FirstChannels <- MCFirstChannels
  FirstAddress = 4094
  MaxSteps = 1
SPECIFICATION Spec
CHECK_DEADLOCK FALSE
INVARIANTS TypeOK Recodes
PROPERTIES ArithmeticExact DivisionsAgree NothingLost
