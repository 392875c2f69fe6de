SPECIFICATION Spec
CONSTANTS
  Uids = {1, 2, 3}
  Chans = {c1, c2}
  NoOne = NoOne
  MaxConn = 2
  ConnTimeout = 1
  Cmds = {"login", "logout", "heartbeat", "cmd"}
  MaxTime = 1
  MaxReqs = 3
SYMMETRY ChanSymmetry
INVARIANTS TypeOK UserConsistent NilOnlyIfRaced UnracedConnLimit LedgerBalanced SweepEndsWhatItRead
PROPERTIES HeartbeatNeverShortens SessionsRefine
