SPECIFICATION Spec
CONSTANTS
  Node = {n1, n2}
  Resource = {r1}
  None = none
  Interval = 2
  Hour = 3
  DiskPressure = TRUE
  MaxTime = 7
  MaxEmissions = 4
  MaxFaults = 1
INVARIANTS HandedWhole Contiguous CurrentSurvives OnPlan
PROPERTIES HandedOnDisk HandedFrozen
