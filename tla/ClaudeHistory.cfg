SPECIFICATION Spec
CONSTANTS
  s1 = s1
  s2 = s2
  t1 = t1
  t2 = t2
  r1 = r1
  r2 = r2
  Sessions = {s1, s2}
  Turns = {t1, t2}
  Runs = {r1, r2}
  WorkspaceOf <- MCWorkspaceOf
  Contents <- MCContents
  ScanLimit = 1
  SyncLimit = 2
  DefaultPage = 1
  LargestPage = 2
  Limits = {0, 5}
  MaxSteps = 4
INVARIANTS TurnsAsWritten LiveMatchesHistory AuthReported PagesTile DeletedStaysGone AuthoritativeNamesAll
SYMMETRY Symmetry
CHECK_DEADLOCK FALSE
