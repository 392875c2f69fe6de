CONSTANTS
  Handlers <- MCHandlers
  Conns = {c1}
  Nobody = Nobody
  ChanCap = 1
  MaxReqs = 3
SPECIFICATION Spec
INVARIANTS ReleaseClosesListeners
CHECK_DEADLOCK FALSE
