CONSTANTS
  Nodes = {1}
  Patches = {}
  Tasks = {t1, t2}
  PushAttempts = 2
  MaxCrashes = 1
  MaxDrops = 1
  MaxFaults = 1
  MaxClientTasks = 1
  Mixed = FALSE
SPECIFICATION FairSpec
 
INVARIANT CompletionsAreApplied
PROPERTY EndedStaysEnded
PROPERTY TasksEnd
CHECK_DEADLOCK FALSE
