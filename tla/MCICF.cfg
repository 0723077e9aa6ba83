CONSTANTS
  Sections = {1, 2, 3, 4, 5}
  Imports = {f}
  Graphs <- MCGraphs
  Hash <- MCHash
  MSB = 16
  MinParallel = 3
  NumShards = 2
SPECIFICATION FairSpec
INVARIANTS LiveIsReachable FoldIsExact TargetsStayLive
PROPERTIES IcfConverges
CHECK_DEADLOCK FALSE
