SPECIFICATION Spec
CONSTANTS
  N = 2
  Rounds = {r1, r2}
  NoRound = NoRound
  QpsValues = {3, 20}
  MaxTotal = 1
INVARIANTS TypeOK SharesSettled RoundNeverOverallocates WholeQuotaInUse
PROPERTY RoundEnds
