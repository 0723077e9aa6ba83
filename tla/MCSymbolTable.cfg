CONSTANTS
  Names = {"a", "b", "c", "d", "e", "i", "m", "r", "x"}
  File <- MCFile
  CommandLines <- MCCommandLines
  DefaultLibs <- MCDefaultLibs
  Includes = {"i"}
  Roots <- MCRoots
SPECIFICATION FairSpec
INVARIANTS ResolutionIsComplete StrongestPrevails DuplicateIffConflict
PROPERTIES ResolutionEnds
CHECK_DEADLOCK FALSE
