SPECIFICATION Spec
CONSTANTS
  i1 = i1
  n1 = n1
  Ids = {i1}
  Peers = {n1}
  PeerOf <- OnePeer
  Slaves = {s1}
  Batches = {b1, b2}
  Absent = Absent
  Nil = Nil
  Workers = {w1}
  Procs = {p1, p2}
  MaxFlush = 1
SYMMETRY Symmetry
INVARIANTS TypeOK ServesCurrent OneRecordPerRequest FailuresReported
CHECK_DEADLOCK FALSE
