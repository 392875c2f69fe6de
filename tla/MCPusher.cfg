CONSTANTS
  Addrs = {1, 2}
  Ids = {"i1", "i2", "i3"}
  NoId = ""
  MaxChanges = 4
SPECIFICATION FairSpec
INVARIANT ReplacedStaysClosed
PROPERTY ReachableIsConnected
CHECK_DEADLOCK FALSE
