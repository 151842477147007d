SPECIFICATION Spec
CONSTANTS
  t1 = t1
  t2 = t2
  th1 = th1
  th2 = th2
  cmd1 = cmd1
  cmd2 = cmd2
  Turns = {t1}
  Threads = {th1}
  ThreadOf <- MCThreadOf
  Known <- MCUnknown
  KnownTurn <- MCNoTurn
  Commands = {cmd1, cmd2}
  Offers <- MCOffers
  MaxAppThreads = 1
  MaxAppTurns = 2
  MaxAsks = 2
  MaxCalls = 5
  Spare = 3
  MaxItems = 2
  MaxFragments = 2
  MaxTopics = 2
  Dies = TRUE
INVARIANTS AnsweredOnce AcceptedByGrant AsksHeld MessageText
CHECK_DEADLOCK FALSE
