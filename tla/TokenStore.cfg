SPECIFICATION TokenSpec
CONSTANTS
  p1 = p1
  p2 = p2
  m1 = m1
  m2 = m2
  Missing = Missing
  Torn = Torn
  Procs <- Two
  Machines <- TwoMachines
  MaxTokens = 2
  MaxFaults = 1
INVARIANT SavedKept
CHECK_DEADLOCK FALSE
