SPECIFICATION Spec
CONSTANTS
  i1 = i1
  i2 = i2
  Ids = {i1}
  Keys = {k1, k2}
  Workers = {w1}
  Reqs = {r1, r2}
  Lists <- OneObject
  Tables = {"dsp", "resource", "creative"}
  Seed = Seed
  Absent = Absent
  Boot = Boot
  MaxOverlap = 2
INVARIANT StaleHasCause
PROPERTY NotStaleForever
CHECK_DEADLOCK FALSE
