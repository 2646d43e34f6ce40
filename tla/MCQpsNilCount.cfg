SPECIFICATION Spec
CONSTANTS
  Procs = {p1, p2}
  Limits = {0, 2}
  Nil = Nil
  MaxBids = 2
  MaxWindows = 1
INVARIANT CountAlwaysReturned
CHECK_DEADLOCK FALSE
