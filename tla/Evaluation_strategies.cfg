CONSTANTS
  Criteria <- MCCriteria
  Weight <- MCWeight
  NeedsExpectation <- MCNeeds
  ScaleMax = 4
  Threshold = 70
  MinCriterion = 25
  TieBreak = "score"
  Panel <- MCPanel
  Retries = 1
  Replies <- MCReplies
  Tasks <- MCTasks
  Expected <- MCExpected
  Answers <- MCAnswers
  Empty = ""
  Top = 2
  Chosen <- MCChosen
  MaxAttempts = 2
  CheapestRetries = 2
  Escalate = TRUE
  Start = 1
  Price <- MCPrice
SPECIFICATION Spec
INVARIANT OutcomesAreGraded
INVARIANT CallsAreMetered
INVARIANT FindingFollowsFromTasks
CHECK_DEADLOCK FALSE
