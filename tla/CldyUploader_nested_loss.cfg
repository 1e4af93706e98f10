SPECIFICATION Spec
CONSTANTS
  s1 = s1
  s2 = s2
  t1 = t1
  t2 = t2
  Sample = {s1, s2}
  Tar = {t1, t2}
  None = None
  Nested = TRUE
  DiskPressure = FALSE
  ClockMovesOn = TRUE
  MaxFaults = 0
  MaxCrashes = 1
SYMMETRY Symmetry
INVARIANT
  NoSilentLoss
