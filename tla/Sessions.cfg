SPECIFICATION FairSpec
CONSTANTS
  c1 = c1
  c2 = c2
  Conns <- Two
  MaxFaults = 2
CHECK_DEADLOCK FALSE
INVARIANTS
  OutboxOutlivesTasks
  NothingLeft
  OthersGoOn
PROPERTY
  ComesBack
