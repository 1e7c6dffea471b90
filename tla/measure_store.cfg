SPECIFICATION Spec
CONSTANTS
  Commands = {c1, c2, c3}
  Requests = {r}
  Items = {"static", "found", "hardware"}
  Inputs = {"old", "new", "missing"}
  Missing = "missing"
  Scores = {3, 4, 5}
  Computed <- MCComputed
  Original <- MCOriginal
  None = None
INVARIANTS
  TypeOK
  NotesKept
  WrittenInTurn
CHECK_DEADLOCK FALSE
