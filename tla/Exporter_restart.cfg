CONSTANTS
  Run = {r1, r2}
  Emitter = {e1}
  None = None
  InitialMayFail = FALSE
SPECIFICATION Spec
INVARIANT ContextLivesUntilStop
