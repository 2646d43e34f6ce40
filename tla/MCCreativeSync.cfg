SPECIFICATION Spec
CONSTANTS
  i1 = i1
  i2 = i2
  Ids = {i1, i2}
  Keys = {k1, k2}
  Workers = {w1}
  Reqs = {r1, r2}
  Lists <- SomeLists
  Tables = {"creative"}
  Seed = Seed
  Absent = Absent
  Boot = Boot
  MaxOverlap = 2
INVARIANTS TypeOK StaleHasCause
CHECK_DEADLOCK FALSE
