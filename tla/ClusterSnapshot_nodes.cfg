\* Two nodes share one place in the limiter; one of them is tried directly first.
SPECIFICATION FairSpec
CONSTANTS
  Node = {n1, n2}
  Direct = {n1}
  Retries = 0
  ConcurrentPollers = 1
  Pod = {p1}
  Interval = 1
  EmissionInterval = 1
  Horizon = 2
  MaxFailures = 1
INVARIANTS
  TypeOK
  StatsAccountForNodes
  StatsUnlessNoNodes
PROPERTIES
  SnapshotsEnd
\* The clock is bounded, and an exporter whose first snapshot fails ends.
CHECK_DEADLOCK FALSE
