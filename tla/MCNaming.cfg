CONSTANTS
  Addrs = {1, 2}
  Ids = {"i1", "i2"}
  NoId = ""
  KeepAliveTtl = 2
SPECIFICATION FairSpec
INVARIANT UncutStaysListed
PROPERTIES DirectoryImplemented 
CHECK_DEADLOCK FALSE
