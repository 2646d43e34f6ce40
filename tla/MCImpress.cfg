SPECIFICATION Spec
CONSTANTS
  u1 = u1
  u2 = u2
  d1 = d1
  d2 = d2
  Units = {u1, u2}
  Dsps = {d1, d2}
  AdNum <- TwoUnits
  LowestPrice <- TwoLowest
  SinaUnits = {u1, u2}
  WhiteList <- TwoOpen
  PdWhiteList <- TwoDeals
  Confirming = {d1, d2}
  NetworkUnits = {u1}
  BottomUnits = {u1, u2}
  PriceScale = 2
  Prices = {4, 5}
  Stray = {d2}
INVARIANTS TypeOK NoGapInResponse ConfirmedUnderOwnId NeverOverfilled PendingIffRoom WinsAreShown PricesFair
PROPERTY WinnersToldEventually
CHECK_DEADLOCK FALSE
