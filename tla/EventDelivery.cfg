SPECIFICATION FairSpec
CONSTANTS
  NumEvents = 2
  t1 = t1
  Transients <- OneTransient
  QueueSize = 1
  WireSize = 1
  InboxSize = 1
  MaxFaults = 1
  MaxExtras = 1
INVARIANTS NoDurableLost NoGaps
PROPERTIES ImplementsAtLeastOnce EventuallyAcknowledged PutEnds
