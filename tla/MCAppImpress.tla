---------------------------- MODULE MCAppImpress ----------------------------
EXTENDS AppImpress

CONSTANTS u1, u2, d1, d2, d3

\* Prices in halves: the lowest are 0 and 1, the bids 1, 1.5 and 2; d2 has no deals.
TwoLowest == (u1 :> 0) @@ (u2 :> 2)
TwoOpen == (u1 :> {d1, d2, d3}) @@ (u2 :> {d2, d3})
TwoDeals == (u1 :> {d1, d3}) @@ (u2 :> {d1})
ThreeDsps == <<d1, d2, d3>>
=============================================================================
