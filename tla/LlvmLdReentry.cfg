CONSTANTS
  Threads = {t1, t2}
  MaxDepth = 1
  CrashRecoveryEnabled = FALSE
  NoCtx = NoCtx
SPECIFICATION Spec
PROPERTY NoEntryOncePoisoned
CHECK_DEADLOCK FALSE
