SPECIFICATION Spec
CONSTANTS
  u1 = u1
  u2 = u2
  d1 = d1
  d2 = d2
  d3 = d3
  Clients = {"video", "mobile", "saxmob"}
  Units = {u1, u2}
  FirstUnit = u1
  Dsps = {d1, d2, d3}
  LowestPrice <- TwoLowest
  SinaUnits = {u1, u2}
  WhiteList <- TwoOpen
  PdWhiteList <- TwoDeals
  BottomUnits = {u1, u2}
  DspList <- ThreeDsps
  PriceScale = 2
  Prices = {2, 3, 4}
  Stray = {d3}
INVARIANTS PendingIffEmpty SoldIsShown PricesFair CreditedToBidder FailsOnlyForCause
CHECK_DEADLOCK FALSE
