\* Two emitters, three runs (two may be alive at once), the initial snapshot may
\* fail. A Start after a failed run and a Stop waits forever, so the system can
\* stop: no deadlock check here.
CONSTANTS
  Run = {r1, r2, r3}
  Emitter = {e1, e2}
  None = None
  InitialMayFail = TRUE
SPECIFICATION FairSpec
CHECK_DEADLOCK FALSE
INVARIANT TypeOK
INVARIANT OneAtATime
INVARIANT StopCancels
INVARIANT OneLateRound
PROPERTY StartReturns
PROPERTY KeepsEmitting
