CONSTANTS
  Addrs = {1}
  Ids = {"i1", "i2", "i3"}
  NoId = ""
  Callers = {}
  Free = "free"
  Lost = "lost"
  Hashes = {}
  MaxReqs = 0
  MaxCache = 0
  SendCap = 1
  EventCap = 2
SPECIFICATION FairSpec
INVARIANTS ListsSound ListsFollowDirectory
PROPERTY Connects
CHECK_DEADLOCK FALSE
