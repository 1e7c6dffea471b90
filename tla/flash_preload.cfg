SPECIFICATION FlashSpec
CONSTANTS
  Groups = 2
  Preload = 2
  SInner = 2
  SplitSize = 4
  MaxLoops = 10
  Inputs <- MCInputs
CHECK_DEADLOCK FALSE
INVARIANTS
  TypeOK
  FlagsCount
  OwnSlots
PROPERTIES
  WrittenWhole
  EveryTaskWritten
