SPECIFICATION FairSpec
CONSTANTS
  t1 = t1
  t2 = t2
  a = a
  b = b
  bash = bash
  edit = edit
  Turns = {t1}
  Threads = {a, b}
  ThreadOf <- MCThreadOf
  Tools = {bash, edit}
  Questions = {}
  MaxTasks = 1
  MaxApprovals = 2
  MaxCancels = 1
  MaxStops = 1
  SdkFails = TRUE
INVARIANT GrantedByAnswer
PROPERTIES StaleRejected TurnsEnd
CHECK_DEADLOCK FALSE
