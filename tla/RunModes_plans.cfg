CONSTANTS
  Nodes <- RunNodes
  Patches = {}
  Modes <- AllModes
  FanOut = 2
  MaxInvocations = 2
  MaxWorkers = 2
  MaxCompleted = 20
  Overlapping = FALSE
  PlannerMayRaise = FALSE
SPECIFICATION RunSpec
INVARIANT PlansAreAccepted
INVARIANT SuccessEndsFinished
INVARIANT EvidenceIsEarned
 
CHECK_DEADLOCK FALSE
