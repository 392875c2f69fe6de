SPECIFICATION Spec
CONSTANTS
  Uids = {1}
  Conns = {c1}
  NoOne = NoOne
  MaxSize = 1
  CacheExpire = 2
  Kinds = {"login", "heartbeat"}
  MaxTime = 3
  MaxReqs = 3
INVARIANT KeptAliveIsFound
