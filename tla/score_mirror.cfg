SPECIFICATION Spec
CONSTANTS
  Missing = Missing
  Blank = Blank
  None = None
  Raises = Raises
  Tiers <- MCTiers
  Ops = {1, 2}
  Weight <- MCWeight
  MetricValues <- MCMetrics
  Values <- MCValues
  Scored <- MCMirrored
  MaxEdits <- MCEdits
INVARIANTS
  TypeOK
  MirrorAgrees
  ConsistentInRange
  CommandIgnoresBlanks
PROPERTIES
  CostOnlyHurts
CHECK_DEADLOCK FALSE
