SPECIFICATION Spec
CONSTANTS
  Commands = {c1, c2}
  Envs = {e1, e2, e3, e4}
  HomeIsLink = TRUE
  LateInterrupt = FALSE
INVARIANT CurrentKept
CHECK_DEADLOCK FALSE
