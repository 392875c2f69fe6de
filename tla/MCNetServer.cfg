CONSTANTS
  Handlers <- MCHandlers
  Conns = {c1}
  Nobody = Nobody
  ChanCap = 1
  MaxReqs = 3
SPECIFICATION FairSpec
INVARIANTS ServedOrClosing
PROPERTIES WaitsOnlyForItsPeer EndedIsFreed ShutdownEnds
CHECK_DEADLOCK FALSE
