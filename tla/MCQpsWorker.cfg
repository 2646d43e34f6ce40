SPECIFICATION Spec
CONSTANTS
  Procs = {p1, p2, p3}
  Limits = {0, 1, 2}
  Nil = Nil
  MaxBids = 3
  MaxWindows = 1
SYMMETRY ProcSymmetry
INVARIANTS TypeOK WindowCap TicketsDistinct TotalExact
CHECK_DEADLOCK FALSE
