CONSTANTS
  research = research
  answer = answer
  planner = planner
  Callers <- MCCallers
  Nodes <- MCNodes
  Total = 10
  ReservePct = 20
  HeadroomPct = 2
  DowngradeAt = 50
  RefuseAt = 90
  TopTier = 2
  Prompts <- MCPrompts
  InputCost <- MCCost
  TokenPrice <- MCTokenPrice
  MaxTokens <- MCMaxTokens
  MaxCallsPerRun = 4
  MaxCallsPerNode = 2
  Requested <- MCRequested
  Overriding <- MCNone
  OverrideTokens = 4
  MaxInFlight = 2
  CostBound = 6
SPECIFICATION Spec
INVARIANT CeilingHolds
