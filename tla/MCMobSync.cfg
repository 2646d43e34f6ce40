SPECIFICATION Spec
CONSTANTS
  i1 = i1
  i2 = i2
  Ids = {i1, i2}
  Workers = {w1}
  Reqs = {r1, r2}
  Contents <- SomeLists
  Seed = Seed
  Absent = Absent
  Boot = Boot
  MaxOverlap = 2
INVARIANTS TypeOK EntryStaleHasCause ListStaleHasCause
PROPERTY AskedEventually
CHECK_DEADLOCK FALSE
