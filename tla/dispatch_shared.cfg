SPECIFICATION Spec
CONSTANTS
  R = 2
  C = 2
  Shared = 1
  M = 2
  K = 1
  MaxRound = 5
CHECK_DEADLOCK FALSE
INVARIANTS
  TypeOK
  CountsFresh
  TokensIntact
  TotalsComplete
  RanksInStep
PROPERTIES
  ImplementsExchange
  AllRoundsFinish
