SPECIFICATION Spec
CONSTANTS
  Uids = {1, 2}
  Chans = {c1, c2}
  NoOne = NoOne
  MaxConn = 1
  ConnTimeout = 1
  Cmds = {"login", "logout"}
  MaxTime = 1
  MaxReqs = 4
SYMMETRY ChanSymmetry
INVARIANT ConnLimit
