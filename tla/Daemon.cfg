SPECIFICATION LiveSpec
CONSTANTS
  c1 = c1
  c2 = c2
  p1 = p1
  p2 = p2
  Commands <- TwoCommands
  Pids <- TwoPids
  MaxProcesses = 3
  Legacy = TRUE
INVARIANTS OneDaemon OnlyDaemonSignalled
PROPERTY CommandsEnd
CHECK_DEADLOCK FALSE
