CONSTANTS
  NumItems = 17
  ThreadCount = 2
  Requests = {0, 1}
SPECIFICATION PForFairSpec
INVARIANTS AtMostOnce JoinIsComplete
PROPERTY Returns
CHECK_DEADLOCK FALSE
