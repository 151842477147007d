SPECIFICATION Spec
CONSTANTS
  Commands = {c1, c2}
  Envs = {e1, e2, e3, e4}
  HomeIsLink = FALSE
  LateInterrupt = FALSE
SYMMETRY Symmetry
INVARIANTS LinksUsable RunningKept
PROPERTY WayBack
CHECK_DEADLOCK FALSE
