SPECIFICATION Spec
CONSTANTS
  Slots = {slot}
  FromSource = {slot}
  Scores = {}
  Blank = Blank
  Unset = Unset
  Nothing = Nothing
  Pending = Pending
  Clicks = {c1}
  Readers = {r1}
  ArchCount = 1
  MaxEdits = 1
  MaxReloads = 0
  EarlyUser = TRUE
PROPERTIES
  RecomputedScoresStay
