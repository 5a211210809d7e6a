SPECIFICATION Spec
CONSTANTS
  Tasks = {w1, w2}
  c1 = c1
  c2 = c2
  Calls = {c1}
  NoCall = NoCall
  StrategyOf <- MCStrategy
  NeedsApproval = {c1}
  MaxEffects = 1
  MaxFaults = 0
INVARIANTS
  TerminalRunIsClosed
CHECK_DEADLOCK FALSE
