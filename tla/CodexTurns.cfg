SPECIFICATION LiveSpec
CONSTANTS
  t1 = t1
  t2 = t2
  th1 = th1
  th2 = th2
  cmd1 = cmd1
  cmd2 = cmd2
  Turns = {t1, t2}
  Threads = {th1}
  ThreadOf <- MCThreadOf
  Known <- MCKnown
  KnownTurn <- MCEarlier
  Commands = {}
  Offers = {}
  MaxAppThreads = 1
  MaxAppTurns = 3
  MaxAsks = 0
  MaxCalls = 6
  Spare = 2
  MaxItems = 0
  MaxFragments = 0
  MaxTopics = 0
  Dies = TRUE
INVARIANTS DirectedAtOwnTurn EventsOfOwnTurn NoEventDropped
PROPERTY MessagesEnd
CHECK_DEADLOCK FALSE
