SPECIFICATION FairSpec
CONSTANTS
  num_pkts = 4
  pkts_per_session = 2
  Settings <- MCSettings
  MaxConns = 3
INVARIANTS OneSession CountedOnce SessionEndsWithReplies ResultsAddUp
PROPERTY Terminates
CHECK_DEADLOCK FALSE
