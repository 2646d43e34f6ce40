SPECIFICATION Spec
CONSTANTS
  Procs = {p1, p2}
  Limits = {0, 2}
  Nil = Nil
  MaxBids = 2
  MaxWindows = 1
PROPERTY ZeroMeansUnlimited
CHECK_DEADLOCK FALSE
