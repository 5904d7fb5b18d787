CONSTANTS
  Programs <- MCPrograms
  StartCore <- MCStartCore
  Goals <- MCGoals
  FaultCases <- MCFaultCases
  Injections <- MCInjections
  Limit = 5
  MaxEvents = 9
SPECIFICATION Spec
INVARIANTS LogWellFormed ReadsPrefixOrFails CoverageAddsUp VerdictsSound OutcomeSound
CHECK_DEADLOCK FALSE
