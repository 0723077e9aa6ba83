SPECIFICATION Spec
CONSTANTS
  Sources = {a, b}
  Contents = {v1, v2}
  Local = {"stop"}
  MaxTime = 6
INVARIANT ReplayedIsSafeToSkip
CHECK_DEADLOCK FALSE
