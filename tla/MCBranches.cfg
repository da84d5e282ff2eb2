CONSTANTS
  c1 = c1  c2 = c2  p1 = p1  p2 = p2
  Conns = {c1, c2}
  Peers = {p1, p2}
  NoConn = NoConn
  Programs <- BranchPrograms
  PeerStatus <- Ok
  MAX_REQS = 2
  MaxIds = 2
  Faults = {"up_close", "link_error"}
SPECIFICATION Spec
INVARIANTS AckAccounting UnackedBranchIsSent TimerOffOverDeadTop
PROPERTY QuorumBeforeMovingOn
CHECK_DEADLOCK FALSE
SYMMETRY ConnSymmetry
