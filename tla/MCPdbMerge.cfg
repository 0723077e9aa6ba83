CONSTANTS
  NumItems = 3
  ThreadCount = 2
  Requests = {0, 1}
  ObjectKinds <- MCObjectKinds
SPECIFICATION FairSpec
INVARIANTS ArenaIsSerial
PROPERTIES ImplementsSerial Completes
CHECK_DEADLOCK FALSE
