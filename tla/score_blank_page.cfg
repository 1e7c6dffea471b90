SPECIFICATION Spec
CONSTANTS
  Missing = Missing
  Blank = Blank
  None = None
  Raises = Raises
  Tiers <- MCTiers
  Ops = {1}
  Weight <- MCWeight
  MetricValues <- MCMetrics
  Values <- MCValues
  Scored <- MCMeasured
  MaxEdits <- MCMoreEdits
INVARIANTS
  BrowserIgnoresBlanks
CHECK_DEADLOCK FALSE
