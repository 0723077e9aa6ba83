CONSTANTS
  MaxRecords = 5
  MaxSubsections = 2
  DepthModulus = 8
SPECIFICATION WalkSpec
INVARIANTS SizesAgree ProcRefsResolve NothingLost ScopesLinked
CHECK_DEADLOCK FALSE
