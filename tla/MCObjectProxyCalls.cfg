CONSTANTS
  Addrs = {1}
  Ids = {"i1"}
  NoId = ""
  Callers = {"c1", "c2"}
  Free = "free"
  Lost = "lost"
  Hashes = {1}
  MaxReqs = 6
  MaxCache = 5
  SendCap = 1
  EventCap = 4
SPECIFICATION EnrolledSpec
INVARIANTS OnceAndInOrder InFlightListed
PROPERTY CallsReturn
CHECK_DEADLOCK FALSE
