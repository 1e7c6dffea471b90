SPECIFICATION ReturnSpec
CONSTANTS
  R = 4
  C = 2
  Shared = 2
  M = 2
  K = 2
  BS = 3
  H = 2
  Nothing = Nothing
  Routings <- MCRoutings
INVARIANTS
  TypeOK
  RowsFound
  RowsGrouped
  SharedExpertsBalanced
  ResultsReturn
PROPERTIES
  WrittenOnce
  ReturnedOnce
