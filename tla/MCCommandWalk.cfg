CONSTANTS
  SimpleOps = {"COMPUTE"}
  ForwardArgs <- MCForwardArgs
  SkipCounts = {1, 2}
  Sizes = {4, 30}
  CAPACITY = 30
  MaxOptions = 5
SPECIFICATION MCSpec
INVARIANTS DeferredRepliesUsed BranchHasBegin EveryHopReplies
INVARIANT ChainFillsContext
INVARIANTS CursorOnItem BranchesFollowProgram
PROPERTY SkipsWholeContexts
CHECK_DEADLOCK FALSE
