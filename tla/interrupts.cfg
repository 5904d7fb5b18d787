CONSTANTS
  Program <- MCProgram
  Requesters <- MCRequesters
  Cancelled = {5}
  IndexValues <- MCIndexValues
  ComputedTargets = {}
  NoIndex = NoIndex
SPECIFICATION FairSpec
INVARIANT SubstituteAlone
PROPERTIES ImplementsUninterrupted HighestServed
