SPECIFICATION OneCallSpec
CONSTANTS
  Tasks = {w1, w2}
  c1 = c1
  c2 = c2
  Calls = {c1, c2}
  NoCall = NoCall
  StrategyOf <- MCStrategy
  NeedsApproval = {c1}
  MaxEffects = 2
  MaxFaults = 1
INVARIANTS
  ManualAtMostOnce
PROPERTIES
  FinalIsFinal
  RunSettles
CHECK_DEADLOCK FALSE
