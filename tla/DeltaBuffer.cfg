SPECIFICATION FairSpec
CONSTANTS
  reader = reader
  handler = handler
  k1 = k1
  f1 = f1
  Senders <- TwoSenders
  TextKeys <- OneTextKey
  FileKeys <- OneFileKey
  MaxChars = 2
  MaxSends = 3
INVARIANTS FlushArmed ExactlyOnce OrderUnlessRaced
PROPERTY EventuallyOut
CHECK_DEADLOCK FALSE
