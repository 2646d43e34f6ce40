-------------------------- MODULE AppImpress_proofs --------------------------
(***************************************************************************)
(* Proofs about AppImpress: for any units, any finite set of DSPs, any     *)
(* white lists, any prices and any clients.                                *)
(***************************************************************************)
EXTENDS AppImpress, FiniteSetTheorems, WellFoundedInduction, SequenceTheorems, TLAPS

-----------------------------------------------------------------------------
(* The auction *)

\* A nonempty set of natural numbers has a least one: the loop of selectWinner that
\* looks for the second price stops at it (saxmob/rtb/rtb.lua:365-405).
LEMMA MinOf ==
  ASSUME NEW S \in SUBSET Nat, S # {}
  PROVE  Min(S) \in S /\ \A x \in S : Min(S) <= x
<1> DEFINE Less == {p \in Nat \X Nat : p[1] < p[2]}
<1>1. IsWellFoundedOn(Less, Nat)
  BY NatLessThanWellFounded DEF OpToRel
<1>2. PICK x \in S : \A y \in S : ~(<<y, x>> \in Less)
  <2> HIDE DEF Less
  <2> QED BY <1>1, WFMin
<1>3. ASSUME NEW y \in S PROVE x <= y
  <2>1. x \in Nat /\ y \in Nat /\ ~(<<y, x>> \in Less)
    BY <1>2
  <2>2. ~(y < x)
    BY <2>1
  <2> QED BY <2>1, <2>2
<1> QED BY <1>3 DEF Min

\* A sorted list of the bids has every one of them: it lists as many as there are,
\* and none of them twice.
LEMMA SortedHasAll ==
  ASSUME NEW bids, IsFiniteSet(bids), NEW b \in Sorted(bids)
  PROVE  /\ Cardinality(bids) \in Nat
         /\ Len(b) = Cardinality(bids)
         /\ b \in [1 .. Len(b) -> bids]
         /\ \A x \in bids : \E i \in 1 .. Len(b) : b[i] = x
         /\ \A i, j \in 1 .. Len(b) : i < j => b[i].price >= b[j].price
<1>1. Cardinality(bids) \in Nat
  BY FS_CardinalityType
<1>2. b \in [1 .. Cardinality(bids) -> bids]
  BY DEF Sorted
<1>3. Len(b) = Cardinality(bids)
  BY <1>1, <1>2
<1>4. b \in Injection(1 .. Cardinality(bids), bids)
  <2>1. \A i, j \in 1 .. Cardinality(bids) : i < j => b[i] # b[j]
    BY <1>2 DEF Sorted
  <2>2. \A i, j \in 1 .. Cardinality(bids) : b[i] = b[j] => i = j
    BY <1>1, <2>1
  <2> QED BY <1>2, <2>2 DEF Injection, IsInjective
<1>5. Cardinality(1 .. Cardinality(bids)) = Cardinality(bids)
  BY <1>1, FS_Interval
<1>6. b \in Surjection(1 .. Cardinality(bids), bids)
  BY <1>4, <1>5, FS_Injection
<1>7. \A x \in bids : \E i \in 1 .. Len(b) : b[i] = x
  BY <1>3, <1>6 DEF Surjection
<1>8. \A i, j \in 1 .. Len(b) : i < j => b[i].price >= b[j].price
  BY <1>2, <1>3 DEF Sorted
<1> QED BY <1>1, <1>2, <1>3, <1>7, <1>8

\* Where selectWinner finds the second price: at the first bid lower than the
\* highest, if there is one.
LEMMA SecondIs ==
  ASSUME NEW b, Len(b) \in Nat
  PROVE  \/ /\ Second(b) = 0
            /\ \A i \in 2 .. Len(b) : b[i].price = b[1].price
         \/ /\ Second(b) \in 2 .. Len(b)
            /\ b[Second(b)].price # b[1].price
            /\ \A i \in 2 .. Len(b) : i < Second(b) => b[i].price = b[1].price
<1> DEFINE lower == {i \in 2 .. Len(b) : b[i].price # b[1].price}
<1>1. Second(b) = IF lower = {} THEN 0 ELSE Min(lower)
  BY DEF Second
<1>2. CASE lower = {}
  BY <1>1, <1>2
<1>3. CASE lower # {}
  <2>1. lower \in SUBSET Nat
    OBVIOUS
  <2>2. Min(lower) \in lower /\ \A i \in lower : Min(lower) <= i
    <3> HIDE DEF lower
    <3> QED BY <1>3, <2>1, MinOf
  <2>3. Second(b) = Min(lower)
    BY <1>1, <1>3
  <2>4. Second(b) \in lower /\ \A i \in lower : Second(b) <= i
    BY <2>2, <2>3
  <2>5. \A i \in 2 .. Len(b) : i < Second(b) => i \notin lower
    <3> HIDE DEF lower
    <3>1. Second(b) \in Nat
      BY <2>1, <2>4
    <3> QED BY <2>4, <3>1
  <2> QED BY <2>4, <2>5
<1> QED BY <1>2, <1>3

\* Whoever wins has bid highest and pays a fair price, and the lowest price if all
\* have bid the same.
LEMMA WinnerFair ==
  ASSUME NEW bids, IsFiniteSet(bids), NEW lowest \in Nat,
         \A x \in bids : x.price \in Nat /\ x.price >= lowest,
         NEW win \in Winners(bids, lowest)
  PROVE  \E own \in bids, price \in Nat :
           /\ win = [own EXCEPT !.price = price]
           /\ Fair(bids, own, price, lowest)
           /\ (\A x, y \in bids : x.price = y.price) => price = lowest
<1>1. PICK b \in Sorted(bids) : win \in SelectWinner(b, lowest)
  BY DEF Winners
<1> DEFINE n == Len(b)
           second == Second(b)
           ties == IF second = 0 THEN n ELSE second - 1
           price == IF second = 0 THEN lowest ELSE b[second].price + RTB_EXTRA_PRICE
<1>2. /\ n \in Nat
      /\ b \in [1 .. n -> bids]
      /\ \A x \in bids : \E i \in 1 .. n : b[i] = x
      /\ \A i, j \in 1 .. n : i < j => b[i].price >= b[j].price
  BY SortedHasAll
<1>3. \/ second = 0 /\ \A i \in 2 .. n : b[i].price = b[1].price
      \/ /\ second \in 2 .. n /\ b[second].price # b[1].price
         /\ \A i \in 2 .. n : i < second => b[i].price = b[1].price
  BY <1>2, SecondIs
<1>4. PICK i \in 1 .. ties : win = [b[i] EXCEPT !.price = price]
  BY <1>1 DEF SelectWinner
<1>5. RTB_EXTRA_PRICE \in Nat /\ RTB_EXTRA_PRICE > 0
  BY PriceScaleAssumption DEF RTB_EXTRA_PRICE
<1> HIDE DEF n, second
<1>6. i \in 1 .. n /\ 1 \in 1 .. n /\ b[i] \in bids /\ b[1] \in bids
  BY <1>2, <1>3, <1>4
<1>7. b[i].price = b[1].price
  <2>1. i = 1 \/ i \in 2 .. n
    BY <1>2, <1>6
  <2>2. second # 0 => i < second
    BY <1>2, <1>3, <1>4
  <2> QED BY <1>3, <2>1, <2>2
<1>8. \A x \in bids : x.price <= b[1].price
  BY <1>2, <1>6
<1>9. CASE second = 0
  <2>1. \A x \in bids : x.price = b[1].price
    <3> SUFFICES ASSUME NEW x \in bids PROVE x.price = b[1].price
      OBVIOUS
    <3>1. PICK j \in 1 .. n : b[j] = x
      BY <1>2
    <3>2. j = 1 \/ j \in 2 .. n
      BY <1>2, <3>1
    <3> QED BY <1>3, <1>9, <3>1, <3>2
  <2> QED BY <1>4, <1>5, <1>6, <1>7, <1>9, <2>1 DEF Fair
<1>10. CASE second # 0
  <2>1. /\ second \in 2 .. n /\ second \in 1 .. n /\ b[second] \in bids
        /\ b[second].price < b[1].price
    BY <1>2, <1>3, <1>6, <1>10
  <2>2. \A x \in bids : x.price < b[1].price => x.price <= b[second].price
    <3> SUFFICES ASSUME NEW x \in bids, x.price < b[1].price
                 PROVE  x.price <= b[second].price
      OBVIOUS
    <3>1. PICK j \in 1 .. n : b[j] = x
      BY <1>2
    <3>2. j >= second
      <4>1. j = 1 \/ j \in 2 .. n
        BY <1>2, <3>1
      <4>2. b[j].price # b[1].price
        BY <1>6, <3>1
      <4>3. ~(j < second)
        BY <1>3, <1>10, <4>1, <4>2
      <4> QED BY <2>1, <4>3
    <3> QED BY <1>2, <2>1, <3>1, <3>2
  <2>3. price = b[second].price + RTB_EXTRA_PRICE
    BY <1>10
  <2>4. price \in Nat /\ price >= lowest /\ price > b[second].price
                      /\ price < b[1].price + RTB_EXTRA_PRICE
    BY <1>5, <1>6, <2>1, <2>3
  <2>5. Fair(bids, b[i], price, lowest)
    BY <1>6, <1>7, <1>8, <2>1, <2>2, <2>4 DEF Fair
  <2> QED BY <1>4, <1>6, <2>1, <2>4, <2>5
<1> QED BY <1>9, <1>10

-----------------------------------------------------------------------------
(* The bids *)

\* What is known of a bid: the DSP it comes from was asked, and may bid for the unit.
IsBid(x, s, u, query, credit) ==
  /\ x.by \in DOMAIN query
  /\ u \in MayBid(x.by, query)
  /\ x = [by |-> x.by, dsp |-> credit[x.by], price |-> x.price]
  /\ x.price \in BidPrices(s, u)

\* extractAdBid keeps bids of the DSPs that were asked, one of each at most
\* (mobile_rtb.lua:142-215).
LEMMA BidsOfAsked ==
  ASSUME NEW s, NEW u, NEW query, NEW credit,
         DOMAIN query \subseteq Dsps,
         NEW bids \in BidSets(s, u, query, credit)
  PROVE  /\ IsFiniteSet(bids)
         /\ \A x \in bids : IsBid(x, s, u, query, credit)
         /\ \A x, y \in bids : x.by = y.by => x = y
<1> DEFINE bidders == {d \in DOMAIN query : u \in MayBid(d, query)}
           bidsOf(d) == [by : {d}, dsp : {credit[d]}, price : BidPrices(s, u)]
<1>1. PICK ds \in SUBSET bidders : bids \in Choices({bidsOf(d) : d \in ds})
  BY DEF BidSets
<1> DEFINE menu == {bidsOf(d) : d \in ds}
<1>2. PICK f \in [menu -> UNION menu] : /\ \A T \in menu : f[T] \in T
                                        /\ bids = {f[T] : T \in menu}
  BY <1>1 DEF Choices, Range
<1>3. \A x \in bids : \E d \in ds : x \in bidsOf(d) /\ x = f[bidsOf(d)]
  <2> SUFFICES ASSUME NEW x \in bids PROVE \E d \in ds : x \in bidsOf(d) /\ x = f[bidsOf(d)]
    OBVIOUS
  <2>1. PICK T \in menu : x = f[T] /\ x \in T
    <3> HIDE DEF menu
    <3> QED BY <1>2
  <2>2. PICK d \in ds : T = bidsOf(d)
    OBVIOUS
  <2> QED BY <2>1, <2>2
<1>4. ASSUME NEW d \in ds, NEW x \in bidsOf(d)
      PROVE  x.by = d /\ IsBid(x, s, u, query, credit)
  BY <1>4 DEF IsBid
<1>5. \A x \in bids : IsBid(x, s, u, query, credit)
  BY <1>3, <1>4
<1>6. ASSUME NEW x \in bids, NEW y \in bids, x.by = y.by PROVE x = y
  <2>1. PICK d \in ds : x \in bidsOf(d) /\ x = f[bidsOf(d)]
    BY <1>3
  <2>2. PICK e \in ds : y \in bidsOf(e) /\ y = f[bidsOf(e)]
    BY <1>3
  <2>3. d = e
    BY <1>4, <1>6, <2>1, <2>2
  <2> QED BY <2>1, <2>2, <2>3
<1>7. IsFiniteSet(bids)
  <2> DEFINE from == [x \in bids |-> x.by]
  <2>1. from \in Injection(bids, Dsps)
    BY <1>5, <1>6 DEF IsBid, Injection, IsInjective
  <2> QED BY <2>1, AppDspsAssumption, FS_Injection
<1> QED BY <1>5, <1>6, <1>7

\* The price of a bid is a number and not below the floor.
LEMMA BidPriceType ==
  ASSUME NEW s, NEW u \in Units
  PROVE  /\ GetFloorPrice(s, u) \in Nat
         /\ \A p \in BidPrices(s, u) : p \in Nat /\ p >= GetFloorPrice(s, u)
         /\ client = "video" /\ s = "preDeal" =>
              GetFloorPrice(s, u) = 0 /\ BidPrices(s, u) = {0}
BY AppUnitsAssumption, AppPricesAssumption DEF GetFloorPrice, BidPrices

\* What is known of a sale o of unit u.
IsSale(o, s, u, query, credit) ==
  /\ o.win.by \in DOMAIN query
  /\ u \in MayBid(o.win.by, query)
  /\ o.win.dsp = credit[o.win.by]
  /\ Fair(o.bids, CHOOSE x \in o.bids : x.by = o.win.by, o.win.price, GetFloorPrice(s, u))
  /\ client = "video" /\ s = "preDeal" => o.win.price = 0
  /\ \/ o.show = <<o.win.dsp>>
     \/ o.show = <<"blank">> /\ o.win.by \in Stray

\* extractAdBid and selectWinner: the winner of a unit was asked, may bid for it, and
\* pays a fair price (mobile_rtb.lua:142-215, 441-480).
LEMMA SaleIs ==
  ASSUME NEW s, NEW u \in Units, NEW query, NEW credit,
         DOMAIN query \subseteq Dsps,
         NEW o \in Outcomes(s, u, query, credit), o # NoSale
  PROVE  IsSale(o, s, u, query, credit)
<1>1. PICK bids \in BidSets(s, u, query, credit) :
        \E win \in Winners(bids, GetFloorPrice(s, u)) : \E show \in Shown(win) :
          o = [bids |-> bids, win |-> win, show |-> show]
  BY DEF Outcomes
<1>2. PICK win \in Winners(bids, GetFloorPrice(s, u)) : \E show \in Shown(win) :
        o = [bids |-> bids, win |-> win, show |-> show]
  BY <1>1
<1>3. PICK show \in Shown(win) : o = [bids |-> bids, win |-> win, show |-> show]
  BY <1>2
<1>4. /\ IsFiniteSet(bids)
      /\ \A x \in bids : IsBid(x, s, u, query, credit)
      /\ \A x, y \in bids : x.by = y.by => x = y
  BY BidsOfAsked
<1>5. /\ GetFloorPrice(s, u) \in Nat
      /\ \A x \in bids : x.price \in Nat /\ x.price >= GetFloorPrice(s, u)
  BY <1>4, BidPriceType DEF IsBid
<1>6. PICK own \in bids, price \in Nat :
        /\ win = [own EXCEPT !.price = price]
        /\ Fair(bids, own, price, GetFloorPrice(s, u))
        /\ (\A x, y \in bids : x.price = y.price) => price = GetFloorPrice(s, u)
  BY <1>4, <1>5, WinnerFair
<1>7. IsBid(own, s, u, query, credit)
  BY <1>4
<1>8. win.by = own.by /\ win.dsp = own.dsp /\ win.price = price
  BY <1>6, <1>7 DEF IsBid
<1>9. own = CHOOSE x \in bids : x.by = win.by
  BY <1>4, <1>8
<1>10. own.dsp = credit[own.by] /\ own.by \in DOMAIN query /\ u \in MayBid(own.by, query)
  BY <1>7 DEF IsBid
<1>11. ASSUME client = "video", s = "preDeal" PROVE win.price = 0
  <2>1. GetFloorPrice(s, u) = 0 /\ BidPrices(s, u) = {0}
    BY <1>11, BidPriceType
  <2>2. \A x \in bids : x.price = 0
    BY <1>4, <2>1 DEF IsBid
  <2> QED BY <1>6, <1>8, <2>1, <2>2
<1>12. show = <<win.dsp>> \/ (show = <<"blank">> /\ win.by \in Stray)
  BY <1>3 DEF Shown
<1>13. o.bids = bids /\ o.win = win /\ o.show = show
  BY <1>3
<1> QED BY <1>6, <1>8, <1>9, <1>10, <1>11, <1>12, <1>13 DEF IsSale

-----------------------------------------------------------------------------
(* Who is credited with a bid *)

\* Every DSP has a place in the list, and no two the same.
LEMMA Places ==
  ASSUME NEW d \in Dsps
  PROVE  Place(DspList, d) \in Nat /\ DspList[Place(DspList, d)] = d
<1>1. \E i \in DOMAIN DspList : DspList[i] = d
  BY AppDspsAssumption DEF Range
<1>2. DOMAIN DspList \subseteq Nat
  BY AppDspsAssumption
<1> QED BY <1>1, <1>2 DEF Place

\* The place among ds numbers them from 1 without gaps: build_bid_req and
\* extract_ad_bid count the same DSPs in the same order
\* (saxmob/rtb/rtb.lua:116-147, 294-329).
LEMMA RankNumbers ==
  ASSUME NEW ds \in SUBSET Dsps
  PROVE  /\ Cardinality(ds) \in Nat
         /\ \A d \in ds : Rank(d, ds) \in 1 .. Cardinality(ds)
         /\ \A d, e \in ds : Rank(d, ds) = Rank(e, ds) => d = e
         /\ \A n \in 1 .. Cardinality(ds) : \E d \in ds : Rank(d, ds) = n
<1> DEFINE upTo(d) == {e \in ds : Place(DspList, e) <= Place(DspList, d)}
<1>1. IsFiniteSet(ds) /\ Cardinality(ds) \in Nat
  BY AppDspsAssumption, FS_Subset, FS_CardinalityType
<1>2. ASSUME NEW d \in ds PROVE Rank(d, ds) \in 1 .. Cardinality(ds)
  <2>1. IsFiniteSet(upTo(d)) /\ Cardinality(upTo(d)) <= Cardinality(ds)
    BY <1>1, FS_Subset
  <2>2. d \in upTo(d)
    BY Places
  <2>3. Cardinality(upTo(d)) \in Nat /\ Cardinality(upTo(d)) # 0
    BY <2>1, <2>2, FS_EmptySet, FS_CardinalityType
  <2>4. Rank(d, ds) = Cardinality(upTo(d))
    BY DEF Rank
  <2> QED BY <1>1, <2>1, <2>3, <2>4
<1>3. ASSUME NEW d \in ds, NEW e \in ds, Place(DspList, d) < Place(DspList, e)
      PROVE  Rank(d, ds) # Rank(e, ds)
  <2>1. upTo(d) \subseteq upTo(e)
    BY <1>3, Places
  <2>2. e \in upTo(e) /\ e \notin upTo(d)
    BY <1>3, Places
  <2>3. IsFiniteSet(upTo(e))
    BY <1>1, FS_Subset
  <2>4. Cardinality(upTo(d)) # Cardinality(upTo(e))
    BY <2>1, <2>2, <2>3, FS_Subset
  <2> QED BY <2>4 DEF Rank
<1>4. ASSUME NEW d \in ds, NEW e \in ds, Rank(d, ds) = Rank(e, ds) PROVE d = e
  BY <1>3, <1>4, Places
<1> DEFINE rank == [d \in ds |-> Rank(d, ds)]
<1>5. rank \in Injection(ds, 1 .. Cardinality(ds))
  BY <1>2, <1>4 DEF Injection, IsInjective
<1>6. /\ IsFiniteSet(1 .. Cardinality(ds))
      /\ Cardinality(1 .. Cardinality(ds)) = Cardinality(ds)
  BY <1>1, FS_Interval
<1>7. rank \in Surjection(ds, 1 .. Cardinality(ds))
  BY <1>5, <1>6, FS_Injection
<1>8. \A n \in 1 .. Cardinality(ds) : \E d \in ds : Rank(d, ds) = n
  BY <1>7 DEF Surjection
<1> QED BY <1>1, <1>2, <1>4, <1>8

\* An answer is credited to a DSP of the bid list, and to the one that gave it unless
\* a DSP listed before it has no host (saxmob/rtb/rtb.lua:294-329).
LEMMA CreditIs ==
  ASSUME NEW bidList \in SUBSET Dsps, NEW reqs, reqs = bidList \ hostless, NEW d \in reqs
  PROVE  /\ Credit(bidList, reqs)[d] \in Dsps
         /\ \/ Credit(bidList, reqs)[d] = d
            \/ \E h \in hostless : Place(DspList, h) < Place(DspList, d)
<1> DEFINE named == Credit(bidList, reqs)[d]
<1>0. named = CHOOSE e \in bidList : Rank(e, bidList) = Rank(d, reqs)
  BY DEF Credit
<1>1. reqs \in SUBSET Dsps /\ d \in bidList /\ IsFiniteSet(bidList)
  BY AppDspsAssumption, FS_Subset
<1>2. Cardinality(reqs) \in Nat /\ Cardinality(reqs) <= Cardinality(bidList)
  BY <1>1, FS_Subset, RankNumbers
<1>3. Rank(d, reqs) \in 1 .. Cardinality(bidList)
  BY <1>1, <1>2, RankNumbers
<1>4. \E e \in bidList : Rank(e, bidList) = Rank(d, reqs)
  BY <1>3, RankNumbers
<1>5. named \in bidList /\ Rank(named, bidList) = Rank(d, reqs)
  BY <1>0, <1>4
<1>6. ASSUME ~ \E h \in hostless : Place(DspList, h) < Place(DspList, d) PROVE named = d
  <2>1. ASSUME NEW e \in bidList, Place(DspList, e) <= Place(DspList, d) PROVE e \in reqs
    BY <1>1, <1>6, <2>1, Places
  <2>2. {e \in bidList : Place(DspList, e) <= Place(DspList, d)}
          = {e \in reqs : Place(DspList, e) <= Place(DspList, d)}
    BY <2>1
  <2>3. Rank(d, bidList) = Rank(d, reqs)
    BY <2>2 DEF Rank
  <2> QED BY <1>1, <1>5, <2>3, RankNumbers
<1> QED BY <1>5, <1>6

-----------------------------------------------------------------------------
(* The inductive invariant *)

Stages == {"sina", "preDeal", "open", "bottom", "done", "failed"}

Typed ==
  /\ stage \in Stages
  /\ hostless \subseteq Dsps
  /\ live \subseteq {u \in Units : status[u] = "valid"}
  /\ pend \subseteq live
  /\ content \in [Units -> Seq(Dsps \cup {"sina", "blank", "bottom"})]
  /\ pd \in [Dsps -> SUBSET Units]

\* From the start, and so long as stages follow that look for ads.
PendingInv ==
  stage \in {"sina", "preDeal", "open", "bottom"} => pend = {u \in live : content[u] = <<>>}

\* The units of the deals are still empty when the deals are launched, and open to the
\* DSP for a deal.
DealsInv ==
  stage \in {"sina", "preDeal"} =>
    \A d \in Dsps : \A u \in pd[d] : u \in pend /\ d \in PdWhiteList[u]

\* At every stage, unless the request has failed with what it had sold.
ShownInv ==
  stage # "failed" =>
    \A u \in Units : \/ StrayWon(u)
                     \/ /\ Len(content[u]) <= 1
                        /\ \A a \in book : a.unit = u => content[u] = <<a.win.dsp>>

StageInv == Typed /\ PendingInv /\ DealsInv /\ ShownInv

SalesInv == PricesFair /\ CreditedToBidder

AppInv == StageInv /\ SalesInv /\ FailsOnlyForCause

\* A selection picks from every set of the menu.
LEMMA SelectionOf ==
  ASSUME NEW menu, NEW f \in Selections(menu), NEW x \in DOMAIN menu
  PROVE  DOMAIN f = DOMAIN menu /\ f[x] \in menu[x]
BY DEF Selections

\* The results of an auction: what is sold in it is sold right (mobile_rtb.lua:598-616).
LEMMA ResultsRight ==
  ASSUME NEW s, NEW query, NEW credit, DOMAIN query \subseteq Dsps,
         NEW out \in Results(s, query, credit)
  PROVE  /\ Sold(out) \in SUBSET Units
         /\ \A u \in Sold(out) : IsSale(out[u], s, u, query, credit)
<1> DEFINE units == {v \in Units : s = "preDeal" \/ Priced(v)}
           menu == [u \in units |-> Outcomes(s, u, query, credit)]
<1>1. out \in Selections(menu)
  BY DEF Results
<1>2. DOMAIN out = units
  BY <1>1 DEF Selections
<1>3. ASSUME NEW u \in Sold(out) PROVE IsSale(out[u], s, u, query, credit)
  <2>1. u \in units /\ out[u] # NoSale
    BY <1>2 DEF Sold
  <2>2. out[u] \in menu[u]
    BY <1>1, <2>1, SelectionOf
  <2>3. out[u] \in Outcomes(s, u, query, credit) /\ u \in Units
    BY <2>1, <2>2
  <2> QED BY <2>1, <2>3, SaleIs
<1>4. Sold(out) \in SUBSET Units
  BY <1>2 DEF Sold
<1> QED BY <1>3, <1>4

\* Sales that are right leave the book right.
LEMMA SalesKept ==
  ASSUME SalesInv, NEW s, NEW query, NEW credit, NEW sold, NEW out,
         \A d \in DOMAIN query : \/ credit[d] = d
                                \/ \E h \in hostless : Place(DspList, h) < Place(DspList, d),
         \A u \in sold : IsSale(out[u], s, u, query, credit),
         client' = client, hostless' = hostless,
         book' = book \cup {[auction |-> s, unit |-> u, bids |-> out[u].bids,
                            win |-> out[u].win] : u \in sold}
  PROVE  SalesInv'
<1> DEFINE entry(u) == [auction |-> s, unit |-> u, bids |-> out[u].bids, win |-> out[u].win]
<1>1. \A a \in book' : a \in book \/ \E u \in sold : a = entry(u)
  OBVIOUS
<1>2. PricesFair'
  <2> SUFFICES ASSUME NEW a \in book'
               PROVE  /\ Fair(a.bids, CHOOSE x \in a.bids : x.by = a.win.by, a.win.price,
                               GetFloorPrice(a.auction, a.unit))
                      /\ client = "video" /\ a.auction = "preDeal" => a.win.price = 0
    BY DEF PricesFair
  <2>1. CASE a \in book
    BY <2>1 DEF SalesInv, PricesFair
  <2>2. ASSUME NEW u \in sold, a = entry(u) PROVE a.auction = s /\ a.unit = u
                          /\ a.bids = out[u].bids /\ a.win = out[u].win
    BY <2>2
  <2> QED BY <1>1, <2>1, <2>2 DEF IsSale
<1>3. CreditedToBidder'
  <2> SUFFICES ASSUME NEW a \in book'
               PROVE  \/ a.win.dsp = a.win.by
                      \/ \E d \in hostless : Place(DspList, d) < Place(DspList, a.win.by)
    BY DEF CreditedToBidder
  <2>1. CASE a \in book
    BY <2>1 DEF SalesInv, CreditedToBidder
  <2>2. ASSUME NEW u \in sold, a = entry(u) PROVE a.win = out[u].win
    BY <2>2
  <2> QED BY <1>1, <2>1, <2>2 DEF IsSale
<1> QED BY <1>2, <1>3 DEF SalesInv

\* What a sale puts into a unit is never nothing; into an empty unit it puts what the
\* sale shows, and that is the winner unless a stray DSP has won.
LEMMA Filled ==
  ASSUME NEW old \in Seq(Dsps \cup {"sina", "blank", "bottom"}),
         NEW x \in Dsps \cup {"blank"}
  PROVE  /\ Fill(old, <<x>>) \in Seq(Dsps \cup {"sina", "blank", "bottom"})
         /\ Fill(old, <<x>>) # <<>>
         /\ old = <<>> => Fill(old, <<x>>) = <<x>>
<1> DEFINE S == Dsps \cup {"sina", "blank", "bottom"}
<1>1. <<x>> \in Seq(S) /\ <<x>> # <<>> /\ x \in S
  OBVIOUS
<1> HIDE DEF S
<1>2. old \o <<x>> \in Seq(S) /\ old \o <<x>> # <<>>
  <2>1. old \in Seq(S)
    BY DEF S
  <2>2. Len(old \o <<x>>) = Len(old) + 1 /\ Len(old) \in Nat
    BY <1>1, <2>1
  <2>3. Len(<<>>) = 0
    OBVIOUS
  <2> QED BY <1>1, <2>1, <2>2, <2>3
<1>3. <<>> \o <<x>> = <<x>>
  BY <1>1
<1> QED BY <1>1, <1>2, <1>3 DEF Fill, S

\* An auction keeps the invariant of the stages, if every DSP is asked for pending
\* units only: a sale to a DSP that is not stray fills a unit that was empty.
LEMMA UnitsKept ==
  ASSUME StageInv, stage \in {"preDeal", "open"}, stage' \in {"open", "bottom"},
         NEW s, NEW query, NEW credit, NEW sold \in SUBSET Units, NEW out,
         \A d \in DOMAIN query : query[d] \subseteq pend /\ credit[d] \in Dsps,
         \A u \in sold : IsSale(out[u], s, u, query, credit),
         UNCHANGED <<client, status, hostless, live, pd>>,
         content' = [u \in Units |-> IF u \in sold THEN Fill(content[u], out[u].show)
                                    ELSE content[u]],
         pend' = pend \ sold,
         book' = book \cup {[auction |-> s, unit |-> u, bids |-> out[u].bids,
                            win |-> out[u].win] : u \in sold}
  PROVE  StageInv'
<1> DEFINE S == Dsps \cup {"sina", "blank", "bottom"}
           entry(u) == [auction |-> s, unit |-> u, bids |-> out[u].bids, win |-> out[u].win]
<1>0. Typed /\ pend = {u \in live : content[u] = <<>>} /\ \A u \in Units : content[u] \in Seq(S)
  BY DEF StageInv, PendingInv, Typed
<1>1. ASSUME NEW u \in sold
      PROVE  \E x \in Dsps \cup {"blank"} :
               /\ out[u].show = <<x>>
               /\ out[u].win.by \in Stray \/ (x = out[u].win.dsp /\ u \in pend)
  BY DEF IsSale, MayBid
<1>2. ASSUME NEW u \in sold
      PROVE  /\ content'[u] \in Seq(S) /\ content'[u] # <<>>
             /\ \/ out[u].win.by \in Stray
                \/ content[u] = <<>> /\ content'[u] = <<out[u].win.dsp>>
  <2>1. PICK x \in Dsps \cup {"blank"} :
               /\ out[u].show = <<x>>
               /\ out[u].win.by \in Stray \/ (x = out[u].win.dsp /\ u \in pend)
    BY <1>1
  <2>2. content'[u] = Fill(content[u], <<x>>)
    BY <2>1
  <2>3. content[u] \in Seq(S)
    BY <1>0
  <2>4. u \in pend => content[u] = <<>>
    BY <1>0
  <2> QED BY <2>1, <2>2, <2>3, <2>4, Filled
<1>3. ASSUME NEW u \in Units \ sold PROVE content'[u] = content[u]
  OBVIOUS
<1>4. Typed'
  <2>1. \A u \in Units : content'[u] \in Seq(S)
    BY <1>0, <1>2, <1>3
  <2>2. content' = [u \in Units |-> content'[u]]
    OBVIOUS
  <2>3. content' \in [Units -> Seq(S)]
    BY <2>1, <2>2
  <2>4. stage' \in Stages
    BY DEF Stages
  <2> QED BY <1>0, <2>3, <2>4 DEF Typed
<1>5. PendingInv'
  <2>1. live \subseteq Units
    BY <1>0 DEF Typed
  <2>2. \A u \in live : content'[u] = <<>> <=> u \notin sold /\ content[u] = <<>>
    BY <1>2, <1>3, <2>1
  <2>3. pend' = {u \in live : content'[u] = <<>>}
    BY <1>0, <2>2
  <2> QED BY <2>3 DEF PendingInv
<1>6. DealsInv'
  BY DEF DealsInv
<1>7. ShownInv'
  <2> SUFFICES ASSUME NEW u \in Units
               PROVE  \/ \E a \in book' : a.unit = u /\ a.win.by \in Stray
                      \/ /\ Len(content'[u]) <= 1
                         /\ \A a \in book' : a.unit = u => content'[u] = <<a.win.dsp>>
    BY DEF ShownInv, StrayWon
  <2>1. \/ \E a \in book : a.unit = u /\ a.win.by \in Stray
        \/ /\ Len(content[u]) <= 1
           /\ \A a \in book : a.unit = u => content[u] = <<a.win.dsp>>
    BY DEF StageInv, ShownInv, StrayWon
  <2>2. ASSUME NEW v \in sold PROVE entry(v) \in book' /\ entry(v).unit = v /\ entry(v).win = out[v].win
    OBVIOUS
  <2>3. \A a \in book' : a \in book \/ \E v \in sold : a = entry(v)
    OBVIOUS
  <2> HIDE DEF entry
  <2>4. CASE u \notin sold
    <3>1. \A a \in book' : a.unit = u => a \in book
      BY <2>2, <2>3, <2>4
    <3> QED BY <1>3, <2>1, <2>4, <3>1
  <2>5. CASE u \in sold /\ out[u].win.by \in Stray
    BY <2>2, <2>5
  <2>6. CASE u \in sold /\ out[u].win.by \notin Stray
    <3>1. content[u] = <<>> /\ content'[u] = <<out[u].win.dsp>>
      BY <1>2, <2>6
    <3>2. CASE \E a \in book : a.unit = u /\ a.win.by \in Stray
      BY <3>2
    <3>3. CASE \A a \in book : a.unit = u => content[u] = <<a.win.dsp>>
      <4>1. \A a \in book : a.unit # u
        BY <3>1, <3>3
      <4>2. \A a \in book' : a.unit = u => a = entry(u)
        BY <2>2, <2>3, <4>1
      <4>3. Len(<<out[u].win.dsp>>) = 1
        OBVIOUS
      <4>4. \A a \in book' : a.unit = u => a.win = out[u].win
        BY <2>2, <2>6, <4>2
      <4>5. \A a \in book' : a.unit = u => content'[u] = <<a.win.dsp>>
        BY <3>1, <4>4
      <4>6. Len(content'[u]) = 1
        BY <3>1, <4>3, Zenon
      <4>7. \A n : n = 1 => n <= 1
        OBVIOUS
      <4> QED BY <4>5, <4>6, <4>7, Zenon
    <3> QED BY <2>1, <3>2, <3>3
  <2> QED BY <2>4, <2>5, <2>6
<1> QED BY <1>4, <1>5, <1>6, <1>7 DEF StageInv

\* A step that changes no unit, and the book only when the request fails.
LEMMA OnlyStage ==
  ASSUME StageInv, stage' \in {"open", "bottom", "failed"},
         stage \in {"preDeal", "open"},
         book' = book \/ stage' = "failed",
         UNCHANGED <<client, status, hostless, live, pend, content, pd>>
  PROVE  StageInv'
<1>1. Typed' /\ PendingInv' /\ DealsInv'
  BY DEF StageInv, Typed, Stages, PendingInv, DealsInv
<1>2. ShownInv'
  BY DEF StageInv, ShownInv, StrayWon
<1> QED BY <1>1, <1>2 DEF StageInv

\* The book stays right as long as nothing is added to it.
LEMMA SalesSame ==
  ASSUME SalesInv, UNCHANGED <<client, hostless, book>>
  PROVE  SalesInv'
BY DEF SalesInv, PricesFair, CreditedToBidder

\* launchRtbForDsp, when every DSP is asked for pending units only.
LEMMA LaunchKeeps ==
  ASSUME AppInv, NEW s \in {"preDeal", "open"}, stage = s,
         NEW query, NEW credit, NEW next \in {"open", "bottom"},
         DOMAIN query \subseteq Dsps,
         \A d \in DOMAIN query : query[d] \subseteq pend /\ credit[d] \in Dsps,
         \A d \in DOMAIN query : \/ credit[d] = d
                                \/ \E h \in hostless : Place(DspList, h) < Place(DspList, d),
         LaunchRtb(s, query, credit, next)
  PROVE  AppInv'
<1>0. StageInv /\ SalesInv
  BY DEF AppInv
<1>1. UNCHANGED <<client, status, hostless, live, pd>> /\ asked' = DOMAIN query
  BY DEF LaunchRtb
<1>a. ASSUME NEW out \in Results(s, query, credit), book' = book \cup Sales(s, out)
      PROVE  SalesInv'
  <2>1. \A u \in Sold(out) : IsSale(out[u], s, u, query, credit)
    BY ResultsRight
  <2>2. book' = book \cup {[auction |-> s, unit |-> u, bids |-> out[u].bids,
                            win |-> out[u].win] : u \in Sold(out)}
    BY <1>a DEF Sales
  <2> QED BY <1>0, <1>1, <2>1, <2>2, SalesKept
<1>2. CASE stage' = next /\ UNCHANGED <<pend, content, book>>
  <2>1. StageInv' /\ SalesInv'
    BY <1>0, <1>1, <1>2, OnlyStage, SalesSame
  <2> QED BY <1>2, <2>1 DEF AppInv, FailsOnlyForCause
<1>3. CASE stage' = next /\ HandleBidRsp(s, query, credit)
  <2>1. PICK out \in Results(s, query, credit) :
          /\ content' = [u \in Units |-> IF u \in Sold(out) THEN Fill(content[u], out[u].show)
                                         ELSE content[u]]
          /\ pend' = pend \ Sold(out)
          /\ book' = book \cup Sales(s, out)
    BY <1>3 DEF HandleBidRsp
  <2>2. SalesInv'
    BY <1>a, <2>1
  <2>3. /\ Sold(out) \in SUBSET Units
        /\ \A u \in Sold(out) : IsSale(out[u], s, u, query, credit)
    BY ResultsRight
  <2>4. book' = book \cup {[auction |-> s, unit |-> u, bids |-> out[u].bids,
                            win |-> out[u].win] : u \in Sold(out)}
    BY <2>1 DEF Sales
  <2>5. StageInv'
    BY <1>0, <1>1, <1>3, <2>1, <2>3, <2>4, UnitsKept
  <2> QED BY <1>3, <2>2, <2>5 DEF AppInv, FailsOnlyForCause
<1>4. CASE stage' = "failed" /\ HandleBidRspRaises(s, query, credit)
  <2>1. StageInv'
    BY <1>0, <1>1, <1>4, OnlyStage DEF HandleBidRspRaises
  <2>2. SalesInv'
    BY <1>0, <1>1, <1>4, <1>a, SalesSame DEF HandleBidRspRaises
  <2>3. PICK d \in DOMAIN query : \E u \in MayBid(d, query) :
          \/ s = "open" /\ ~Priced(u)
          \/ client = "mobile" /\ d \in Stray
    BY <1>4 DEF HandleBidRspRaises, Raises
  <2>4. d \in Stray
    <3> SUFFICES ASSUME d \notin Stray PROVE FALSE
      OBVIOUS
    <3>1. PICK u \in query[d] : ~Priced(u)
      BY <2>3 DEF MayBid
    <3>2. u \in live /\ status[u] = "valid"
      BY <1>0, <3>1 DEF StageInv, Typed
    <3> QED BY <3>1, <3>2 DEF Priced
  <2> QED BY <1>1, <2>1, <2>2, <2>4 DEF AppInv, FailsOnlyForCause
<1> QED BY <1>2, <1>3, <1>4 DEF LaunchRtb

\* checkDspQps, when a DSP has no count: it is one that would have been asked for a
\* pending unit (video.lua:198, mobile.lua:108, saxmob/rtb/impress.lua:168).
LEMMA QpsRaisesKeeps ==
  ASSUME AppInv, CheckDspQpsRaises
  PROVE  AppInv'
<1>0. StageInv /\ SalesInv /\ Typed /\ DealsInv
  BY DEF AppInv, StageInv
<1>1. PICK d \in Dsps : QpsChecked(d) /\ uncounted' = {d}
  BY DEF CheckDspQpsRaises
<1>2. /\ stage' = "failed" /\ stage \in {"preDeal", "open"}
      /\ UNCHANGED <<client, status, hostless, live, pend, content, pd, book>>
  BY <1>1 DEF CheckDspQpsRaises, QpsChecked
<1>3. StageInv' /\ SalesInv'
  BY <1>0, <1>2, OnlyStage, SalesSame
<1>4. \E u \in pend : client = "saxmob" \/ d \in PdWhiteList[u] \cup WhiteList[u]
  <2>1. CASE stage = "preDeal" /\ pd[d] # {}
    BY <1>0, <2>1 DEF DealsInv
  <2>2. CASE stage = "open" /\ client = "saxmob" /\ pend # {}
    BY <2>2
  <2>3. CASE stage = "open" /\ client # "saxmob" /\ GetOaBidList(d) # {}
    BY <2>3 DEF GetOaBidList
  <2> QED BY <1>1, <2>1, <2>2, <2>3 DEF QpsChecked
<1>5. FailsOnlyForCause'
  BY <1>1, <1>2, <1>4 DEF FailsOnlyForCause
<1> QED BY <1>3, <1>5 DEF AppInv

LEMMA QuerySinaKeeps ==
  ASSUME AppInv, QuerySina
  PROVE  AppInv'
<1> DEFINE query == pend \cap SinaUnits
           S == Dsps \cup {"sina", "blank", "bottom"}
<1>1. PICK a \in [query -> SinaAnswers], ok \in SUBSET Dsps :
        /\ content' = [u \in Units |-> IF u \in query /\ a[u] = "own" THEN <<"sina">>
                                       ELSE content[u]]
        /\ pend' = pend \ {u \in query : a[u] = "own"}
        /\ pd' = [d \in Dsps |-> {u \in query : a[u] = d /\ d \in ok /\ d \in PdWhiteList[u]}]
  BY DEF QuerySina, FilledBySina
<1>2. /\ stage = "sina" /\ stage' = "preDeal"
      /\ UNCHANGED <<client, status, hostless, live, asked, uncounted, book>>
  BY DEF QuerySina
<1>3. /\ StageInv /\ SalesInv /\ Typed
      /\ pend = {u \in live : content[u] = <<>>}
      /\ pend \subseteq live /\ live \subseteq Units
  BY <1>2 DEF AppInv, StageInv, Typed, PendingInv
<1>4. Typed'
  <2>1. <<"sina">> \in Seq(S) /\ \A u \in Units : content[u] \in Seq(S)
    BY <1>3 DEF Typed
  <2>2. content' \in [Units -> Seq(S)]
    <3> HIDE DEF S, query
    <3> QED BY <1>1, <2>1
  <2>3. pd' \in [Dsps -> SUBSET Units]
    <3>1. query \subseteq Units
      BY <1>3
    <3> HIDE DEF query
    <3> QED BY <1>1, <3>1
  <2>4. pend' \subseteq live'
    BY <1>1, <1>2, <1>3
  <2> QED BY <1>2, <1>3, <2>2, <2>3, <2>4 DEF Typed, Stages
<1>5. PendingInv'
  <2>1. \A u \in live : content'[u] = <<>> <=> u \in pend'
    <3> SUFFICES ASSUME NEW u \in live PROVE content'[u] = <<>> <=> u \in pend'
      OBVIOUS
    <3>1. <<"sina">> # <<>> /\ u \in Units
      BY <1>3
    <3>2. CASE u \in query /\ a[u] = "own"
      BY <1>1, <3>1, <3>2
    <3>3. CASE ~(u \in query /\ a[u] = "own")
      <4>1. content'[u] = content[u] /\ (u \in pend' <=> u \in pend)
        BY <1>1, <3>1, <3>3
      <4> QED BY <1>3, <4>1
    <3> QED BY <3>2, <3>3
  <2> QED BY <1>1, <1>2, <1>3, <2>1 DEF PendingInv
<1>6. DealsInv'
  <2> SUFFICES ASSUME NEW d \in Dsps, NEW u \in pd'[d]
               PROVE  u \in pend' /\ d \in PdWhiteList[u]
    BY DEF DealsInv
  <2>1. u \in query /\ a[u] = d /\ d \in PdWhiteList[u]
    BY <1>1
  <2> QED BY <1>1, <2>1, AppDspsAssumption
<1>7. ShownInv'
  <2> SUFFICES ASSUME NEW u \in Units, ~StrayWon(u)
               PROVE  /\ Len(content'[u]) <= 1
                      /\ \A b \in book : b.unit = u => content'[u] = <<b.win.dsp>>
    BY <1>2 DEF ShownInv, StrayWon
  <2>1. Len(content[u]) <= 1 /\ \A b \in book : b.unit = u => content[u] = <<b.win.dsp>>
    BY <1>2, <1>3 DEF StageInv, ShownInv
  <2>2. CASE u \in query /\ a[u] = "own"
    <3>1. content[u] = <<>> /\ content'[u] = <<"sina">> /\ Len(<<"sina">>) = 1
      BY <1>1, <1>3, <2>2
    <3>2. \A b \in book : b.unit # u
      BY <2>1, <3>1
    <3> QED BY <3>1, <3>2
  <2>3. CASE ~(u \in query /\ a[u] = "own")
    BY <1>1, <2>1, <2>3
  <2> QED BY <2>2, <2>3
<1>8. SalesInv' /\ FailsOnlyForCause'
  BY <1>2, <1>3 DEF SalesInv, PricesFair, CreditedToBidder, FailsOnlyForCause
<1> QED BY <1>4, <1>5, <1>6, <1>7, <1>8 DEF AppInv, StageInv

LEMMA FillBottomKeeps ==
  ASSUME AppInv, FillBottomAd
  PROVE  AppInv'
<1> DEFINE filled == IF client = "mobile" THEN pend \cap BottomUnits ELSE {}
           S == Dsps \cup {"sina", "blank", "bottom"}
<1>1. /\ stage = "bottom" /\ stage' = "done"
      /\ content' = [u \in Units |-> IF u \in filled THEN <<"bottom">> ELSE content[u]]
      /\ UNCHANGED <<client, status, hostless, live, pend, pd, asked, uncounted, book>>
  BY DEF FillBottomAd
<1>2. /\ StageInv /\ SalesInv /\ Typed
      /\ \A u \in filled : content[u] = <<>>
  BY <1>1 DEF AppInv, StageInv, PendingInv
<1>3. Typed'
  <2>1. <<"bottom">> \in Seq(S) /\ \A u \in Units : content[u] \in Seq(S)
    BY <1>2 DEF Typed
  <2>2. content' \in [Units -> Seq(S)]
    <3> HIDE DEF S, filled
    <3> QED BY <1>1, <2>1
  <2> QED BY <1>1, <1>2, <2>2 DEF Typed, Stages
<1>4. PendingInv' /\ DealsInv'
  BY <1>1 DEF PendingInv, DealsInv
<1>5. ShownInv'
  <2> SUFFICES ASSUME NEW u \in Units, ~StrayWon(u)
               PROVE  /\ Len(content'[u]) <= 1
                      /\ \A b \in book : b.unit = u => content'[u] = <<b.win.dsp>>
    BY <1>1 DEF ShownInv, StrayWon
  <2>1. Len(content[u]) <= 1 /\ \A b \in book : b.unit = u => content[u] = <<b.win.dsp>>
    BY <1>1, <1>2 DEF StageInv, ShownInv
  <2>2. CASE u \in filled
    <3>1. content[u] = <<>> /\ content'[u] = <<"bottom">> /\ Len(<<"bottom">>) = 1
      BY <1>1, <1>2, <2>2
    <3>2. \A b \in book : b.unit # u
      BY <2>1, <3>1
    <3> QED BY <3>1, <3>2
  <2>3. CASE u \notin filled
    <3> HIDE DEF filled
    <3> QED BY <1>1, <2>1, <2>3
  <2> QED BY <2>2, <2>3
<1>6. SalesInv' /\ FailsOnlyForCause'
  BY <1>1, <1>2 DEF SalesInv, PricesFair, CreditedToBidder, FailsOnlyForCause
<1> QED BY <1>3, <1>4, <1>5, <1>6 DEF AppInv, StageInv

LEMMA AppInit == Init => AppInv
<1> SUFFICES ASSUME Init PROVE AppInv
  OBVIOUS
<1>1. live \subseteq {u \in Units : status[u] = "valid"}
  BY DEF Init, GetAdData
<1>2. content = [u \in Units |-> <<>>] /\ pend = live /\ book = {} /\ pd = [d \in Dsps |-> {}]
  BY DEF Init
<1>3. stage \in {"sina", "open"}
  BY DEF Init
<1>4. hostless \subseteq Dsps
  BY DEF Init
<1>5. Typed
  <2>1. <<>> \in Seq(Dsps \cup {"sina", "blank", "bottom"})
    OBVIOUS
  <2> QED BY <1>1, <1>2, <1>3, <1>4, <2>1 DEF Typed, Stages
<1>6. PendingInv /\ DealsInv
  BY <1>1, <1>2 DEF PendingInv, DealsInv
<1>7. ShownInv
  BY <1>2 DEF ShownInv
<1> QED BY <1>2, <1>3, <1>5, <1>6, <1>7
        DEF AppInv, StageInv, SalesInv, PricesFair, CreditedToBidder, FailsOnlyForCause

LEMMA AppStep == AppInv /\ [Next]_vars => AppInv'
<1> SUFFICES ASSUME AppInv, [Next]_vars PROVE AppInv'
  OBVIOUS
<1>0. StageInv /\ SalesInv /\ Typed
  BY DEF AppInv, StageInv
<1>1. CASE SinaFails
  <2>1. /\ stage = "sina" /\ stage' = "preDeal"
        /\ UNCHANGED <<client, status, hostless, live, pend, content, pd, asked, uncounted, book>>
    BY <1>1 DEF SinaFails
  <2>2. Typed' /\ PendingInv' /\ DealsInv' /\ ShownInv'
    BY <1>0, <2>1 DEF StageInv, Typed, Stages, PendingInv, DealsInv, ShownInv, StrayWon
  <2> QED BY <1>0, <2>1, <2>2
          DEF AppInv, StageInv, SalesInv, PricesFair, CreditedToBidder, FailsOnlyForCause
<1>2. CASE PreferredDeal
  <2>1. PICK kept \in SUBSET {d \in Dsps : pd[d] # {}} :
          LaunchRtb("preDeal", [d \in kept |-> pd[d]], Itself(kept), "open")
    BY <1>2 DEF PreferredDeal
  <2> DEFINE query == [d \in kept |-> pd[d]]
             credit == Itself(kept)
  <2>2. /\ stage = "preDeal" /\ DOMAIN query \subseteq Dsps
        /\ \A d \in DOMAIN query : query[d] \subseteq pend /\ credit[d] = d /\ credit[d] \in Dsps
    BY <1>0, <1>2 DEF PreferredDeal, StageInv, DealsInv, Itself
  <2> HIDE DEF query, credit
  <2>3. LaunchRtb("preDeal", query, credit, "open")
    BY <2>1 DEF query, credit
  <2> QED BY <2>2, <2>3, LaunchKeeps
<1>3. CASE OpenAuction
  <2>1. PICK kept \in SUBSET {d \in Dsps : GetOaBidList(d) # {}} :
          LaunchRtb("open", [d \in kept |-> GetOaBidList(d)], Itself(kept), "bottom")
    BY <1>3 DEF OpenAuction
  <2> DEFINE query == [d \in kept |-> GetOaBidList(d)]
             credit == Itself(kept)
  <2>2. /\ stage = "open" /\ DOMAIN query \subseteq Dsps
        /\ \A d \in DOMAIN query : query[d] \subseteq pend /\ credit[d] = d /\ credit[d] \in Dsps
    BY <1>3 DEF OpenAuction, GetOaBidList, Itself
  <2> HIDE DEF query, credit
  <2>3. LaunchRtb("open", query, credit, "bottom")
    BY <2>1 DEF query, credit
  <2> QED BY <2>2, <2>3, LaunchKeeps
<1>4. CASE SaxmobAuction
  <2>1. PICK bidList \in SUBSET Dsps :
          LET reqs == IF pend = {} THEN {} ELSE bidList \ hostless
          IN  LaunchRtb("open", [d \in reqs |-> pend], Credit(bidList, reqs), "bottom")
    BY <1>4 DEF SaxmobAuction
  <2> DEFINE reqs == IF pend = {} THEN {} ELSE bidList \ hostless
             query == [d \in reqs |-> pend]
             credit == Credit(bidList, reqs)
  <2>2. stage = "open" /\ DOMAIN query \subseteq Dsps
    BY <1>4 DEF SaxmobAuction
  <2>3. ASSUME NEW d \in DOMAIN query
        PROVE  /\ query[d] \subseteq pend
               /\ credit[d] \in Dsps
               /\ credit[d] = d \/ \E h \in hostless : Place(DspList, h) < Place(DspList, d)
    <3>1. reqs = bidList \ hostless /\ d \in reqs /\ query[d] = pend
      OBVIOUS
    <3> HIDE DEF reqs, query
    <3> QED BY <3>1, CreditIs
  <2> HIDE DEF reqs, query, credit
  <2>4. LaunchRtb("open", query, credit, "bottom")
    BY <2>1 DEF reqs, query, credit
  <2> QED BY <2>2, <2>3, <2>4, LaunchKeeps
<1>5. CASE UNCHANGED vars
  <2>1. /\ stage' = stage
        /\ UNCHANGED <<client, status, hostless, live, pend, content, pd, asked, uncounted, book>>
    BY <1>5 DEF vars
  <2>2. Typed' /\ PendingInv' /\ DealsInv' /\ ShownInv'
    BY <1>0, <2>1 DEF StageInv, Typed, PendingInv, DealsInv, ShownInv, StrayWon
  <2> QED BY <1>0, <2>1, <2>2
          DEF AppInv, StageInv, SalesInv, PricesFair, CreditedToBidder, FailsOnlyForCause
<1> QED BY <1>1, <1>2, <1>3, <1>4, <1>5, QuerySinaKeeps, QpsRaisesKeeps, FillBottomKeeps DEF Next

-----------------------------------------------------------------------------
(* Theorems *)

\* The inductive invariant of a request, from the first stage to the response.
THEOREM RequestRight == Spec => []AppInv
BY AppInit, AppStep, PTL DEF Spec

\* A unit is pending as long as nothing was found for it, whatever the engine says of
\* deals and whatever stray DSPs buy (video.lua:298-333, mobile_rtb.lua:110-139,
\* 598-616).
THEOREM PendingUntilFilled == Spec => []PendingIffEmpty
<1>1. AppInv => PendingIffEmpty
  BY DEF AppInv, StageInv, PendingInv, PendingIffEmpty
<1> QED BY <1>1, RequestRight, PTL

\* A unit shows what was sold for it and nothing else, unless a stray DSP has won it
\* (video_rtb.lua:612-630, mobile_rtb.lua:559-571, saxmob/rtb/rtb.lua:467-492).
THEOREM SalesShown == Spec => []SoldIsShown
<1>1. AppInv => SoldIsShown
  BY DEF AppInv, StageInv, ShownInv, SoldIsShown
<1> QED BY <1>1, RequestRight, PTL

\* Every price is fair, for any number of bids and any prices (video_rtb.lua:321-366,
\* mobile_rtb.lua:441-480, saxmob/rtb/rtb.lua:365-405).
THEOREM AppPricesFair == Spec => []PricesFair
<1>1. AppInv => PricesFair
  BY DEF AppInv, SalesInv
<1> QED BY <1>1, RequestRight, PTL

\* A bid is credited to the DSP that made it, unless one listed before it has no host
\* (saxmob/rtb/rtb.lua:116-147, 294-329).
THEOREM BidderCredited == Spec => []CreditedToBidder
<1>1. AppInv => CreditedToBidder
  BY DEF AppInv, SalesInv
<1> QED BY <1>1, RequestRight, PTL

\* A request fails only in an auction that a stray DSP was asked in, or for want of the
\* count of a DSP that would have been asked for a pending unit (video_rtb.lua:260-262,
\* mobile_rtb.lua:153-162, saxmob/rtb/rtb.lua:306; video.lua:198, mobile.lua:108,
\* saxmob/rtb/impress.lua:168).
THEOREM OnlyCausesFail == Spec => []FailsOnlyForCause
<1>1. AppInv => FailsOnlyForCause
  BY DEF AppInv
<1> QED BY <1>1, RequestRight, PTL
=============================================================================
