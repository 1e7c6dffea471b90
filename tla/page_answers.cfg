SPECIFICATION Spec
CONSTANTS
  Slots = {slot}
  FromSource = {slot}
  Scores = {}
  Blank = Blank
  Unset = Unset
  Nothing = Nothing
  Pending = Pending
  Clicks = {c1}
  Readers = {r1, r2}
  ArchCount = 2
  MaxEdits = 1
  MaxReloads = 1
  EarlyUser = FALSE
INVARIANTS
  TypeOK
  MemoryFollowsStore
PROPERTIES
  ManualScoreWins
  RecomputedScoresStay
  LoadSettles
