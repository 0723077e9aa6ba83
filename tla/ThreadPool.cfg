SPECIFICATION FairSpec
CONSTANTS
  ThreadCount = 2
  MaxGroups = 3
  MaxTasks = 4
  Links = {"nested", "fatal"}
INVARIANTS LatchOutlivesTasks NoLostWakeup
PROPERTIES GroupsJoin StopReturns
CHECK_DEADLOCK FALSE
