CONSTANTS
  Program = "LUMINARY"
  Sources <- MCSources
  Unstarred <- MCUnstarred
  BankCount = 4
  BankWords = 2
  WordCards <- MCWordCards
SPECIFICATION Spec
INVARIANT PairsStartAtLabel
CHECK_DEADLOCK FALSE
