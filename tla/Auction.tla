------------------------------- MODULE Auction -------------------------------
(***************************************************************************)
(* The second price auction for one ad unit.  The code has it four times,  *)
(* word for word but for the names of its variables: selectWinner in       *)
(* rtb.lua, video_rtb.lua, mobile_rtb.lua and saxmob/rtb/rtb.lua.          *)
(*                                                                         *)
(* A bid is a record with a field price, and whatever else the caller      *)
(* needs to know of the winner.                                            *)
(***************************************************************************)
EXTENDS Integers, Sequences, FiniteSets, FiniteSetsExt, TLC

CONSTANT PriceScale   \* prices are in steps of 1 / PriceScale: any number is accepted

ASSUME PriceScaleAssumption == PriceScale \in Nat \ {0}

RTB_EXTRA_PRICE == 1 * PriceScale

\* The functions that pick one member of every set of menu.
Selections(menu) ==
  {f \in [DOMAIN menu -> UNION {menu[x] : x \in DOMAIN menu}] :
     \A x \in DOMAIN menu : f[x] \in menu[x]}

\* table.sort with cmpPrice is not stable: any descending order.
Sorted(bids) ==
  {b \in [1 .. Cardinality(bids) -> bids] :
     \A i, j \in DOMAIN b : i < j => b[i] # b[j] /\ b[i].price >= b[j].price}

\* Mutant: the second bid, also if it is as high as the first.
SecondPlace(b) == IF Len(b) < 2 THEN 0 ELSE 2

\* The first place in the sorted list with a lower price, or 0.
Second(b) == LET lower == {i \in 2 .. Len(b) : b[i].price # b[1].price}
             IN  IF lower = {} THEN 0 ELSE Min(lower)

\* selectWinner: drawn among the highest bids; pays the second price and one
\* more, or the lowest price if there is no lower bid.  The result is the bid
\* that wins, with the price to pay.
SelectWinner(b, lowest) ==
  LET second == Second(b)
      ties == IF second = 0 THEN Len(b) ELSE second - 1
      price == IF second = 0 THEN lowest ELSE b[second].price + RTB_EXTRA_PRICE
  IN  {[b[i] EXCEPT !.price = price] : i \in 1 .. ties}

\* The winners that a set of bids may have.
Winners(bids, lowest) == UNION {SelectWinner(b, lowest) : b \in Sorted(bids)}

\* own is a highest bid; to pay is at least the lowest price, more than everyone
\* who bid less, and less than one above the winner's own bid.
Fair(bids, own, price, lowest) ==
  /\ \A x \in bids : x.price <= own.price
  /\ price >= lowest
  /\ \A x \in bids : x.price < own.price => x.price < price
  /\ price < own.price + RTB_EXTRA_PRICE
=============================================================================
