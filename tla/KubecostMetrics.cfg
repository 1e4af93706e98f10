\* Cache, two failures and gaps longer than the shorter window.
CONSTANTS
  Resolution = {3, 6}
  UseMetricsCache = TRUE
  CacheDuration = 3
  MaxGap = 5
  MaxFailures = 2
  Horizon = 8
SPECIFICATION KSpec
CHECK_DEADLOCK FALSE
INVARIANT ClosedWindowsComplete
PROPERTY BoundedStaleness
INVARIANT HoldsNewest
INVARIANT AnswersSound
INVARIANT LastClosedServed
INVARIANT AdaptersInStep
