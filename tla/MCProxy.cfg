SPECIFICATION MCSpec
CONSTANTS
  NConns = 3
  MAX_FLOWS = 2
  Loads <- MCLoads
INVARIANTS RelaysInOrder SocketsClosed
PROPERTY ThreadsEnd
CHECK_DEADLOCK FALSE
