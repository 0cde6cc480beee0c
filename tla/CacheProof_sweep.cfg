CONSTANTS
  Pairs <- MCPairs
  Positive <- MCPositive
  Families = {"numbers", "unrelated"}
  FamilyOf <- MCFamilyOf
  TopScore = 3
  CacheThreshold = 2
  Grid <- MCGrid
  Wanted = {1, 3}
  Rungs = {"small", "large"}
  Model = "small"
  MaxFaults = 2
SPECIFICATION Spec
INVARIANT WarmIsAgainstCold
INVARIANT OnlyTheSameNamespaceHits
INVARIANT SeparableMeansAThreshold
INVARIANT SafestIsSafe
CHECK_DEADLOCK FALSE
