SPECIFICATION Spec
CONSTANTS
  t1 = t1
  t2 = t2
  a = a
  b = b
  bash = bash
  edit = edit
  Turns = {t1, t2}
  Threads = {a, b}
  ThreadOf <- MCThreadOf
  Tools = {bash}
  Questions = {}
  MaxTasks = 2
  MaxApprovals = 0
  MaxCancels = 1
  MaxStops = 1
  SdkFails = TRUE
INVARIANTS OneTerminal CancelIsLastWord StopEndsTurns
CHECK_DEADLOCK FALSE
