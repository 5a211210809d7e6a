SPECIFICATION Spec
CONSTANTS
  Tasks = {w1, w2}
  a = a
  b = b
  c = c
  MaxSteps = 3
  MaxDepth = 2
  MaxStepAttempts = 2
  MaxRevisions = 1
  Answers <- MCValid
  MaxDecisions = 2
  RoundBudget = 1
  GeneratorReserves = TRUE
  MaxRuns = 1
  MaxFaults = 1
SYMMETRY Symmetry
INVARIANT RevisionAvailable
CHECK_DEADLOCK FALSE
