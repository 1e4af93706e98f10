\* The defaults, in minutes: uploads every 10, threshold 30, samples every 3, one
\* snapshot a minute. Three emissions may fail and a pass may take 15 minutes.
CONSTANTS
  UploadFrequency = 10
  MaxStaleUploadCycles = 3
  EmissionInterval = 3
  MaxPass = 15
  MaxEmitFailures = 3
  NodesMayFail = TRUE
SPECIFICATION Spec
INVARIANT OnlyStallsAreUnhealthy
INVARIANT TypeOK
INVARIANT StallsReported
