SPECIFICATION PoolSpec
CONSTANTS
  Threads = {t1, t2}
  MAX_CONNS = 2
  Socks = {3, 4, 5}
  Kinds = {"tcp", "tls", "fwdtcp", "fwdudp"}
SYMMETRY ThreadSymmetry
VIEW Live
INVARIANTS SlotExclusive SockInOneSlot
