SPECIFICATION Spec
CONSTANTS
  s1 = s1
  s2 = s2
  t1 = t1
  t2 = t2
  Sample = {s1, s2}
  Tar = {t1, t2}
  None = None
  Nested = FALSE
  DiskPressure = TRUE
  ClockMovesOn = TRUE
  MaxFaults = 1
  MaxCrashes = 1
SYMMETRY Symmetry
INVARIANTS
  TypeOK
  NoSilentLoss
  QueueSound
  DeliveredOnce
  NothingForgotten
PROPERTIES
  ImplementsDelivery
