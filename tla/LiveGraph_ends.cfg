CONSTANTS
  Nodes <- MCNodes
  Patches <- EndingPatches
  MaxInvocations = 2
  MaxWorkers = 2
  MaxCompleted = 3
  Overlapping = TRUE
  PlannerMayRaise = FALSE
SPECIFICATION FairSpec
INVARIANT StopLeavesNothingBehind
INVARIANT OnePatchPerEvent
PROPERTY InvocationEnds
CHECK_DEADLOCK FALSE
