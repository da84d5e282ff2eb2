SPECIFICATION MCSpec
CONSTANTS
  Reqs = {"a", "b", "c"}
  NoReq = "none"
  Durations = {1, 4}
  MaxInserts = 3
  capacity = 6
  Keys <- MCKeys
VIEW InUse
INVARIANT NeverTooEarly
PROPERTIES EveryTimeoutEnds ImplementsCollection
CHECK_DEADLOCK FALSE
