SPECIFICATION Spec
CONSTANTS
  long = long
  Procs = {p1, p2}
  Keys = {k1, k2, k3}
  Data = {long}
  MaxNum = 1
  Nil = Nil
  Length <- Lengths
  Capacity = 3
  MaxEvict = 2
  TTLs = {0, 1}
  MaxTime = 4
SYMMETRY DictSymmetry
INVARIANT TypeOK
PROPERTIES ImplementsLossyDict LeastRecentlyUsedGoes
