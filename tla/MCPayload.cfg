SPECIFICATION Spec
CONSTANTS
  v1 = v1
  v2 = v2
  Versions <- MCVersions
  Paths = {"cmake", "header", "elf"}
  Patched = {"cmake"}
  Pruned = {"elf"}
  Extras = {}
  MaxStray = 1
  MaxDrift = 1
SYMMETRY Symmetry
INVARIANTS VerifiedIsUpstream StagedIsComplete
PROPERTY PatchesSurvive
CHECK_DEADLOCK FALSE
