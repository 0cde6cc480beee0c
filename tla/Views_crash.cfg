CONSTANTS
  Nodes <- MCNodes
  Patches <- AllPatches
  MaxInvocations = 3
  MaxWorkers = 2
  MaxCompleted = 3
  Overlapping = FALSE
  AnswerNodes = {3}
  PlannerMayRaise = TRUE
SPECIFICATION ViewedSpec
INVARIANT TypeOK
INVARIANT FinishedIsQuiescent
INVARIANT OutcomesMatchState
INVARIANT RunningIsHeld
INVARIANT LateResultNeverAborts
INVARIANT StartedAfterParents
INVARIANT TraceTellsTheRun
INVARIANT ReplayShowsTheGraph
PROPERTY ReturnLeavesNothingToDo
PROPERTY KeepsContract
CHECK_DEADLOCK FALSE
