CONSTANTS
  Threads = {t1, t2}
  MaxDepth = 2
  CrashRecoveryEnabled = TRUE
  NoCtx = NoCtx
SPECIFICATION FairSpec
INVARIANTS MutualExclusion OwnsContext PristineWhenOpen RejectsLateCalls ToldUnsafeIsPoisoned
PROPERTIES ProfilerQuiescent CallsReturn
CHECK_DEADLOCK FALSE
