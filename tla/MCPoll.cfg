SPECIFICATION FairSpec
CONSTANTS
  Fds = {lst, f1, f2}
  Listen = lst
  Types <- AllTypes
  MAX_POLLFD <- MCRoom
  AuxValues <- MCAux
INVARIANT EntriesAreCurrent
PROPERTIES ImplementsInterest ReadyIsServed
