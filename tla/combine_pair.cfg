SPECIFICATION PairSpec
CONSTANTS
  R = 2
  C = 2
  Shared = 1
  M = 2
  K = 1
  MaxRound = 6
CHECK_DEADLOCK FALSE
INVARIANTS
  CountsFresh
  BlocksIntact
PROPERTIES
  PairImplementsExchange
  AllInvocationsFinish
