CONSTANTS
  Words <- MCWords
  RawRegisters <- MCRegisters
  Addresses <- MCAddresses
  Offsets <- MCOffsets
  FixedOffsets <- MCFixedOffsets
  Ropes <- MCRopes
  Channels <- MCChannels
  PhysicalCells <- MCCells
  FlippedCells <- MCFlippedCells
SPECIFICATION Spec
INVARIANTS BanksSynchronized SuperbankAgrees BankInstalled
PROPERTY ImplementsStore
