CONSTANTS
  c1 = c1  c2 = c2  p1 = p1  p2 = p2
  Conns = {c1, c2}
  Peers = {p1, p2}
  NoConn = NoConn
  Programs <- SafetyPrograms
  PeerStatus <- Ok
  MAX_REQS = 2
  MaxIds = 3
  Faults <- AllFaults
SPECIFICATION Spec
INVARIANTS AtMostOneReply NodesMatchQueue AckAccounting
PROPERTY ImplementsEngine
CHECK_DEADLOCK FALSE
SYMMETRY ConnSymmetry
