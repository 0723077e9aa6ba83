CONSTANTS
  Inputs <- MCInputs
  HashWord <- MCHashWord
  FuncIds = {"f", "g"}
  EndPrecomp = "e"
  MaxTable = 5
SPECIFICATION FairSpec
INVARIANTS PositionsHold WinnersAreFirst IndicesResolve
PROPERTIES MergeFinishes
CHECK_DEADLOCK FALSE
