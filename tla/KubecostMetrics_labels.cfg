CONSTANTS
  Resolution = {3}
  UseMetricsCache = FALSE
  CacheDuration = 3
  MaxGap = 2
  MaxFailures = 0
  Horizon = 6
SPECIFICATION KSpec
CHECK_DEADLOCK FALSE
INVARIANT EveryQueryServed
