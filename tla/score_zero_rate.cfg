SPECIFICATION Spec
CONSTANTS
  Missing = Missing
  Blank = Blank
  None = None
  Raises = Raises
  Tiers <- MCTiers
  Ops = {1}
  Weight <- MCWeight
  MetricValues <- MCMetrics
  Values <- MCValues
  Scored <- MCFallback
  MaxEdits <- MCMoreEdits
INVARIANTS
  MirrorAgrees
CHECK_DEADLOCK FALSE
