------------------------------ MODULE MCImpress ------------------------------
EXTENDS Impress

CONSTANTS u1, u2, d1, d2

\* u1 has two places and all the stages, u2 one place and no network.  Prices are
\* in halves: the lowest are 1 and 2.5, of bids of 2 and 2.5.
TwoUnits == (u1 :> 2) @@ (u2 :> 1)
TwoLowest == (u1 :> 2) @@ (u2 :> 5)
TwoOpen == (u1 :> {d1, d2}) @@ (u2 :> {d2})
TwoDeals == (u1 :> {d1, d2}) @@ (u2 :> {d1})
=============================================================================
