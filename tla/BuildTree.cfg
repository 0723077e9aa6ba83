SPECIFICATION Spec
CONSTANTS
  Sources = {a, b}
  Contents = {v1, v2}
  Local = {"backdate"}
  MaxTime = 5
INVARIANTS ReplayedIsSafeToSkip OthersAreRebuilt CachedTreesAgree
PROPERTY ReplayedStaysWarm
CHECK_DEADLOCK FALSE
