CONSTANTS
  Program = "LUMINARY"
  Sources <- MCSources
  Unstarred <- MCUnstarred
  BankCount = 4
  BankWords = 2
  WordCards <- MCWordCards
SPECIFICATION Spec
INVARIANTS ImageIsRecords ReferencesReach RoutesAgree ListingCertified
CHECK_DEADLOCK FALSE
