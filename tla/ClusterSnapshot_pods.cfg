\* Two pods beside snapshots that succeed, fail and are downsampled: an interval of
\* 2 and an emission interval of 3, so that every second round is downsampled.
SPECIFICATION Spec
CONSTANTS
  Node = {n1}
  Direct = {}
  Retries = 0
  ConcurrentPollers = 1
  Pod = {p1, p2}
  Interval = 2
  EmissionInterval = 3
  Horizon = 5
  MaxFailures = 1
INVARIANTS
  ShortPodsAccounted
\* The clock is bounded, and an exporter whose first snapshot fails ends.
CHECK_DEADLOCK FALSE
