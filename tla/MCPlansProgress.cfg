SPECIFICATION FairSpec
CONSTANTS
  Tasks = {w1, w2}
  a = a
  b = b
  c = c
  MaxSteps = 3
  MaxDepth = 2
  MaxStepAttempts = 2
  MaxRevisions = 1
  Answers <- MCSingle
  MaxDecisions = 2
  RoundBudget = 1
  GeneratorReserves = FALSE
  MaxRuns = 2
  MaxFaults = 1
PROPERTIES
  RunSettles
CHECK_DEADLOCK FALSE
