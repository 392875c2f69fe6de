SPECIFICATION FairSpec
CONSTANTS
  Uids = {1, 2, 3}
  Conns = {c1, c2}
  NoOne = NoOne
  MaxSize = 2
  CacheExpire = 1
  Kinds = {"login", "logout", "heartbeat", "get", "batch"}
  MaxTime = 1
  MaxReqs = 4
INVARIANTS CacheInStep WriterAlone
PROPERTIES EvictsLeastRecent HeartbeatKeepsAddress UpdatesAnswered
