--------------------------- MODULE Impress_proofs ---------------------------
(***************************************************************************)
(* Proofs about Impress: for any units, numbers of places and lowest       *)
(* prices, any finite set of DSPs, any white lists and any prices.         *)
(***************************************************************************)
EXTENDS Impress, FiniteSetTheorems, WellFoundedInduction, SequenceTheorems, TLAPS

-----------------------------------------------------------------------------
(* The auction *)

\* A nonempty set of natural numbers has a least one: the loop of selectWinner that
\* looks for the second price stops at it (rtb.lua:550-589).
LEMMA MinOf ==
  ASSUME NEW S \in SUBSET Nat, S # {}
  PROVE  Min(S) \in S /\ \A x \in S : Min(S) <= x
<1> DEFINE Less == {p \in Nat \X Nat : p[1] < p[2]}
<1>1. IsWellFoundedOn(Less, Nat)
  BY NatLessThanWellFounded DEF OpToRel
<1>2. PICK x \in S : \A y \in S : ~(<<y, x>> \in Less)
  <2> HIDE DEF Less
  <2> QED BY <1>1, WFMin
<1>3. ASSUME NEW y \in S PROVE x <= y
  <2>1. x \in Nat /\ y \in Nat /\ ~(<<y, x>> \in Less)
    BY <1>2
  <2>2. ~(y < x)
    BY <2>1
  <2> QED BY <2>1, <2>2
<1> QED BY <1>3 DEF Min

\* A sorted list of the bids has every one of them: it lists as many as there are,
\* and none of them twice.
LEMMA SortedHasAll ==
  ASSUME NEW bids, IsFiniteSet(bids), NEW b \in Sorted(bids)
  PROVE  /\ Cardinality(bids) \in Nat
         /\ Len(b) = Cardinality(bids)
         /\ b \in [1 .. Len(b) -> bids]
         /\ \A x \in bids : \E i \in 1 .. Len(b) : b[i] = x
         /\ \A i, j \in 1 .. Len(b) : i < j => b[i].price >= b[j].price
<1>1. Cardinality(bids) \in Nat
  BY FS_CardinalityType
<1>2. b \in [1 .. Cardinality(bids) -> bids]
  BY DEF Sorted
<1>3. Len(b) = Cardinality(bids)
  BY <1>1, <1>2
<1>4. b \in Injection(1 .. Cardinality(bids), bids)
  <2>1. \A i, j \in 1 .. Cardinality(bids) : i < j => b[i] # b[j]
    BY <1>2 DEF Sorted
  <2>2. \A i, j \in 1 .. Cardinality(bids) : b[i] = b[j] => i = j
    BY <1>1, <2>1
  <2> QED BY <1>2, <2>2 DEF Injection, IsInjective
<1>5. Cardinality(1 .. Cardinality(bids)) = Cardinality(bids)
  BY <1>1, FS_Interval
<1>6. b \in Surjection(1 .. Cardinality(bids), bids)
  BY <1>4, <1>5, FS_Injection
<1>7. \A x \in bids : \E i \in 1 .. Len(b) : b[i] = x
  BY <1>3, <1>6 DEF Surjection
<1>8. \A i, j \in 1 .. Len(b) : i < j => b[i].price >= b[j].price
  BY <1>2, <1>3 DEF Sorted
<1> QED BY <1>1, <1>2, <1>3, <1>7, <1>8

\* Where selectWinner finds the second price: at the first bid lower than the
\* highest, if there is one.
LEMMA SecondIs ==
  ASSUME NEW b, Len(b) \in Nat
  PROVE  \/ /\ Second(b) = 0
            /\ \A i \in 2 .. Len(b) : b[i].price = b[1].price
         \/ /\ Second(b) \in 2 .. Len(b)
            /\ b[Second(b)].price # b[1].price
            /\ \A i \in 2 .. Len(b) : i < Second(b) => b[i].price = b[1].price
<1> DEFINE lower == {i \in 2 .. Len(b) : b[i].price # b[1].price}
<1>1. Second(b) = IF lower = {} THEN 0 ELSE Min(lower)
  BY DEF Second
<1>2. CASE lower = {}
  BY <1>1, <1>2
<1>3. CASE lower # {}
  <2>1. lower \in SUBSET Nat
    OBVIOUS
  <2>2. Min(lower) \in lower /\ \A i \in lower : Min(lower) <= i
    <3> HIDE DEF lower
    <3> QED BY <1>3, <2>1, MinOf
  <2>3. Second(b) = Min(lower)
    BY <1>1, <1>3
  <2>4. Second(b) \in lower /\ \A i \in lower : Second(b) <= i
    BY <2>2, <2>3
  <2>5. \A i \in 2 .. Len(b) : i < Second(b) => i \notin lower
    <3> HIDE DEF lower
    <3>1. Second(b) \in Nat
      BY <2>1, <2>4
    <3> QED BY <2>4, <3>1
  <2> QED BY <2>4, <2>5
<1> QED BY <1>2, <1>3

\* Whoever wins has bid highest and pays a fair price, and the lowest price if all
\* have bid the same.
LEMMA WinnerFair ==
  ASSUME NEW bids, IsFiniteSet(bids), NEW lowest \in Nat,
         \A x \in bids : x.price \in Nat /\ x.price >= lowest,
         NEW win \in Winners(bids, lowest)
  PROVE  \E own \in bids, price \in Nat :
           /\ win = [own EXCEPT !.price = price]
           /\ Fair(bids, own, price, lowest)
           /\ (\A x, y \in bids : x.price = y.price) => price = lowest
<1>1. PICK b \in Sorted(bids) : win \in SelectWinner(b, lowest)
  BY DEF Winners
<1> DEFINE n == Len(b)
           second == Second(b)
           ties == IF second = 0 THEN n ELSE second - 1
           price == IF second = 0 THEN lowest ELSE b[second].price + RTB_EXTRA_PRICE
<1>2. /\ n \in Nat
      /\ b \in [1 .. n -> bids]
      /\ \A x \in bids : \E i \in 1 .. n : b[i] = x
      /\ \A i, j \in 1 .. n : i < j => b[i].price >= b[j].price
  BY SortedHasAll
<1>3. \/ second = 0 /\ \A i \in 2 .. n : b[i].price = b[1].price
      \/ /\ second \in 2 .. n /\ b[second].price # b[1].price
         /\ \A i \in 2 .. n : i < second => b[i].price = b[1].price
  BY <1>2, SecondIs
<1>4. PICK i \in 1 .. ties : win = [b[i] EXCEPT !.price = price]
  BY <1>1 DEF SelectWinner
<1>5. RTB_EXTRA_PRICE \in Nat /\ RTB_EXTRA_PRICE > 0
  BY PriceScaleAssumption DEF RTB_EXTRA_PRICE
<1> HIDE DEF n, second
<1>6. i \in 1 .. n /\ 1 \in 1 .. n /\ b[i] \in bids /\ b[1] \in bids
  BY <1>2, <1>3, <1>4
<1>7. b[i].price = b[1].price
  <2>1. i = 1 \/ i \in 2 .. n
    BY <1>2, <1>6
  <2>2. second # 0 => i < second
    BY <1>2, <1>3, <1>4
  <2> QED BY <1>3, <2>1, <2>2
<1>8. \A x \in bids : x.price <= b[1].price
  BY <1>2, <1>6
<1>9. CASE second = 0
  <2>1. \A x \in bids : x.price = b[1].price
    <3> SUFFICES ASSUME NEW x \in bids PROVE x.price = b[1].price
      OBVIOUS
    <3>1. PICK j \in 1 .. n : b[j] = x
      BY <1>2
    <3>2. j = 1 \/ j \in 2 .. n
      BY <1>2, <3>1
    <3> QED BY <1>3, <1>9, <3>1, <3>2
  <2> QED BY <1>4, <1>5, <1>6, <1>7, <1>9, <2>1 DEF Fair
<1>10. CASE second # 0
  <2>1. /\ second \in 2 .. n /\ second \in 1 .. n /\ b[second] \in bids
        /\ b[second].price < b[1].price
    BY <1>2, <1>3, <1>6, <1>10
  <2>2. \A x \in bids : x.price < b[1].price => x.price <= b[second].price
    <3> SUFFICES ASSUME NEW x \in bids, x.price < b[1].price
                 PROVE  x.price <= b[second].price
      OBVIOUS
    <3>1. PICK j \in 1 .. n : b[j] = x
      BY <1>2
    <3>2. j >= second
      <4>1. j = 1 \/ j \in 2 .. n
        BY <1>2, <3>1
      <4>2. b[j].price # b[1].price
        BY <1>6, <3>1
      <4>3. ~(j < second)
        BY <1>3, <1>10, <4>1, <4>2
      <4> QED BY <2>1, <4>3
    <3> QED BY <1>2, <2>1, <3>1, <3>2
  <2>3. price = b[second].price + RTB_EXTRA_PRICE
    BY <1>10
  <2>4. price \in Nat /\ price >= lowest /\ price > b[second].price
                      /\ price < b[1].price + RTB_EXTRA_PRICE
    BY <1>5, <1>6, <2>1, <2>3
  <2>5. Fair(bids, b[i], price, lowest)
    BY <1>6, <1>7, <1>8, <2>1, <2>2, <2>4 DEF Fair
  <2> QED BY <1>4, <1>6, <2>1, <2>4, <2>5
<1> QED BY <1>9, <1>10

-----------------------------------------------------------------------------
(* The inductive invariant *)

\* Only units that passed the checks have deals, and the id of the auction counts the
\* auctions so far.
Typed ==
  /\ TypeOK
  /\ valid \subseteq Units
  /\ \A d \in Dsps : preDeal[d] \subseteq valid
  /\ stage = "sina" => content = [u \in Units |-> <<>>]
  /\ stage \in {"sina", "preDeal"} => bid = 0
  /\ stage = "open" => bid \in 0 .. 1

\* Before the bottom ads are filled in, a unit that is not pending is full or shows
\* the one ad of a network.
SettledInv ==
  stage = "bottom" =>
    \A u \in valid : /\ u \in pend => Len(content[u]) < AdNum[u]
                     /\ u \notin pend => Len(content[u]) >= AdNum[u] \/ content[u] = <<"network">>

PlacesInv == NeverOverfilled /\ PendingIffRoom /\ SettledInv /\ NoGapInResponse

\* What was sold is among the contents, at every stage, until an error ends the request.
BookShown ==
  stage # "failed" =>
    \A a \in book : a.unit \in Units /\ a.win.dsp \in Range(content[a.unit])

\* The stages at which winList[s] has not been confirmed: its id is still there.
Unconfirmed(s) == stage \notin (IF s = "preDeal" THEN {"cfmOpen", "done"} ELSE {"done"})

\* Sale x was made in the auction with the id b.
Booked(x, b) == \E a \in book : /\ a.bid = b /\ a.unit = x.unit
                                /\ a.win.dsp = x.dsp /\ a.win.price = x.price

WinsBooked ==
  \A s \in Auctions : Unconfirmed(s) => \A x \in winList[s].wins : Booked(x, winList[s].bid)

\* Nothing is confirmed before the response is sent.
ConfirmedLate == confirmed = {} \/ Answered

SalesInv == PricesFair /\ BookShown /\ WinsBooked /\ ConfirmedUnderOwnId /\ ConfirmedLate

ImpInv == Typed /\ PlacesInv /\ SalesInv

-----------------------------------------------------------------------------
(* Contents *)

\* Creatives are appended: none is lost, and there are as many more as were added
\* (impress.lua:290-312, rtb.lua:110-123).
LEMMA Appended ==
  ASSUME NEW S, NEW c \in Seq(S), NEW x \in S, NEW n \in Nat
  PROVE  /\ c \o Copies(x, n) \in Seq(S)
         /\ Len(c \o Copies(x, n)) = Len(c) + n
         /\ Range(c) \subseteq Range(c \o Copies(x, n))
         /\ n > 0 => x \in Range(c \o Copies(x, n))
<1> DEFINE e == Copies(x, n)
           r == c \o e
<1>1. e = [i \in 1 .. n |-> x]
  BY DEF Copies
<1>2. e \in Seq(S) /\ Len(e) = n
  BY <1>1
<1> HIDE DEF e
<1>3. Len(c) \in Nat /\ DOMAIN c = 1 .. Len(c)
  OBVIOUS
<1>4. r \in Seq(S) /\ Len(r) = Len(c) + n
  BY <1>2
<1>5. DOMAIN r = 1 .. Len(c) + n
  BY <1>4
<1>6. \A i \in 1 .. Len(c) : i \in DOMAIN r /\ r[i] = c[i]
  <2>1. \A i \in 1 .. Len(c) : i \in DOMAIN r
    BY <1>3, <1>5
  <2>2. \A i \in 1 .. Len(c) : r[i] = c[i]
    BY <1>2, <1>3
  <2> QED BY <2>1, <2>2
<1>7. n > 0 => Len(c) + 1 \in DOMAIN r /\ r[Len(c) + 1] = x
  <2> SUFFICES ASSUME n > 0 PROVE Len(c) + 1 \in DOMAIN r /\ r[Len(c) + 1] = x
    OBVIOUS
  <2>1. Len(c) + 1 \in DOMAIN r
    BY <1>3, <1>5
  <2>2. r[Len(c) + 1] = e[1]
    BY <1>2, <1>3
  <2> QED BY <1>1, <2>1, <2>2
<1> HIDE DEF r
<1>8. Range(c) \subseteq Range(r) /\ (n > 0 => x \in Range(r))
  BY <1>3, <1>6, <1>7 DEF Range
<1> QED BY <1>4, <1>8 DEF r, e

\* An empty sequence has no elements.
LEMMA Empty == /\ Range(<<>>) = {} /\ Len(<<>>) = 0
               /\ \A x : Len(<<x>>) = 1
BY DEF Range

-----------------------------------------------------------------------------
(* Bids and sales *)

\* The number of creatives in a bid: at least one, and no more than there is room for
\* unless the DSP is stray.
LEMMA OffersAre ==
  ASSUME NEW u, NEW d, NEW n \in Offers(u, d), AdNum[u] \in Nat, Len(content[u]) \in Nat
  PROVE  n \in Nat \ {0} /\ (d \notin Stray => n <= AdNum[u] - Len(content[u]))
<1> DEFINE left == GetLeftAdNum(u, content)
<1>1. left \in Int /\ left = AdNum[u] - Len(content[u])
  BY DEF GetLeftAdNum
<1>2. Max({left, 0}) \in Int
  <2> HIDE DEF left
  <2>1. \E x \in {left, 0} : \A y \in {left, 0} : x >= y
    BY <1>1
  <2>2. Max({left, 0}) \in {left, 0}
    BY <2>1 DEF Max
  <2> QED BY <1>1, <2>2
<1>3. n \in 1 .. (IF d \in Stray THEN Max({left, 0}) + 1 ELSE left)
  BY DEF Offers
<1> HIDE DEF left
<1> QED BY <1>1, <1>2, <1>3

\* What is known of a bid.
IsBid(x, s, u, bidders) ==
  /\ x.dsp \in bidders
  /\ x = [dsp |-> x.dsp, num |-> x.num, price |-> x.price]
  /\ x.num \in Offers(u, x.dsp)
  /\ x.price \in Prices /\ x.price >= GetAdLowestPrice(s, u)

\* extractAdBid keeps bids of the DSPs that were asked, one of each at most
\* (rtb.lua:483-544).
LEMMA BidsOfAsked ==
  ASSUME NEW s, NEW u, NEW bidders \in SUBSET Dsps, NEW bids \in BidSets(s, u, bidders)
  PROVE  /\ IsFiniteSet(bids)
         /\ \A x \in bids : IsBid(x, s, u, bidders)
         /\ \A x, y \in bids : x.dsp = y.dsp => x = y
<1> DEFINE offer(d) == [dsp : {d}, num : Offers(u, d),
                        price : {p \in Prices : p >= GetAdLowestPrice(s, u)}]
<1>1. PICK ds \in SUBSET bidders : bids \in Choices({offer(d) : d \in ds})
  BY DEF BidSets
<1> DEFINE menu == {offer(d) : d \in ds}
<1>2. PICK f \in [menu -> UNION menu] : /\ \A T \in menu : f[T] \in T
                                        /\ bids = {f[T] : T \in menu}
  BY <1>1 DEF Choices, Range
<1>3. \A x \in bids : \E d \in ds : x \in offer(d) /\ x = f[offer(d)]
  <2> SUFFICES ASSUME NEW x \in bids PROVE \E d \in ds : x \in offer(d) /\ x = f[offer(d)]
    OBVIOUS
  <2>1. PICK T \in menu : x = f[T] /\ x \in T
    <3> HIDE DEF menu
    <3> QED BY <1>2
  <2>2. PICK d \in ds : T = offer(d)
    OBVIOUS
  <2> QED BY <2>1, <2>2
<1>4. ASSUME NEW d \in ds, NEW x \in offer(d)
      PROVE  x.dsp = d /\ IsBid(x, s, u, bidders)
  BY <1>4 DEF IsBid
<1>5. \A x \in bids : IsBid(x, s, u, bidders)
  BY <1>3, <1>4
<1>6. ASSUME NEW x \in bids, NEW y \in bids, x.dsp = y.dsp PROVE x = y
  <2>1. PICK d \in ds : x \in offer(d) /\ x = f[offer(d)]
    BY <1>3
  <2>2. PICK e \in ds : y \in offer(e) /\ y = f[offer(e)]
    BY <1>3
  <2>3. d = e
    BY <1>4, <1>6, <2>1, <2>2
  <2> QED BY <2>1, <2>2, <2>3
<1>7. IsFiniteSet(bids)
  <2> DEFINE from == [x \in bids |-> x.dsp]
  <2>1. from \in Injection(bids, Dsps)
    BY <1>5, <1>6 DEF IsBid, Injection, IsInjective
  <2> QED BY <2>1, DspsAssumption, FS_Injection
<1> QED BY <1>5, <1>6, <1>7

\* What is known of a sale o of unit u.
IsSale(o, s, u, bidders) ==
  /\ o.win.dsp \in bidders
  /\ o.win.num \in Offers(u, o.win.dsp)
  /\ o.win.price \in Nat
  /\ Fair(o.bids, CHOOSE x \in o.bids : x.dsp = o.win.dsp, o.win.price, GetAdLowestPrice(s, u))

\* extractAdBid and selectWinner: the winner of a unit is one of its bidders, and pays
\* a fair price (rtb.lua:483-589).
LEMMA SaleIs ==
  ASSUME NEW s, NEW u \in Units, NEW bidders \in SUBSET Dsps, NEW o \in Outcomes(s, u, bidders)
  PROVE  IsSale(o, s, u, bidders)
<1>1. PICK bids \in BidSets(s, u, bidders) :
        \E win \in Winners(bids, GetAdLowestPrice(s, u)) : o = [bids |-> bids, win |-> win]
  BY DEF Outcomes
<1>2. PICK win \in Winners(bids, GetAdLowestPrice(s, u)) : o = [bids |-> bids, win |-> win]
  BY <1>1
<1>3. /\ IsFiniteSet(bids)
      /\ \A x \in bids : IsBid(x, s, u, bidders)
      /\ \A x, y \in bids : x.dsp = y.dsp => x = y
  BY BidsOfAsked
<1>4. GetAdLowestPrice(s, u) \in Nat
  BY UnitsAssumption DEF GetAdLowestPrice
<1>5. \A x \in bids : x.price \in Nat /\ x.price >= GetAdLowestPrice(s, u)
  BY <1>3, PricesAssumption DEF IsBid
<1>6. PICK own \in bids, price \in Nat :
        win = [own EXCEPT !.price = price] /\ Fair(bids, own, price, GetAdLowestPrice(s, u))
  BY <1>3, <1>4, <1>5, WinnerFair
<1>7. IsBid(own, s, u, bidders)
  BY <1>3
<1>8. win.dsp = own.dsp /\ win.num = own.num /\ win.price = price
  BY <1>6, <1>7 DEF IsBid
<1>9. own = CHOOSE x \in bids : x.dsp = win.dsp
  BY <1>3, <1>8
<1>10. own.dsp \in bidders /\ own.num \in Offers(u, own.dsp)
  BY <1>7 DEF IsBid
<1>11. o.bids = bids /\ o.win = win
  BY <1>2
<1> QED BY <1>6, <1>8, <1>9, <1>10, <1>11 DEF IsSale

\* The DSPs that may bid for u when query[d] is asked of each.
Bidders(u, query) == {d \in DOMAIN query : u \in query[d] \/ d \in Stray}

SaleEntry(s, u, o) == [auction |-> s, unit |-> u, bids |-> o.bids, bid |-> bid', win |-> o.win]

\* What handleBidRsp does.
Sells(sold, out, s, query) ==
  LET wins == {[unit |-> u, dsp |-> out[u].win.dsp, price |-> out[u].win.price] :
                 u \in {v \in sold : out[v].win.dsp \in Confirming}}
  IN  /\ \A u \in sold : IsSale(out[u], s, u, Bidders(u, query))
      /\ content' = [u \in Units |->
                       IF u \in sold THEN content[u] \o Copies(out[u].win.dsp, out[u].win.num)
                       ELSE content[u]]
      /\ pend' = RemoveFull(sold, content')
      /\ winList' = [winList EXCEPT ![s] =
                       IF wins = {} THEN NoWins ELSE [bid |-> bid', wins |-> wins]]
      /\ book' = book \cup {SaleEntry(s, u, out[u]) : u \in sold}

\* Whatever comes of an auction, its sales are right (rtb.lua:483-589).
LEMMA ResultsRight ==
  ASSUME NEW s, NEW query, DOMAIN query \subseteq Dsps, NEW out \in Results(s, query)
  PROVE  /\ Sold(out) \subseteq Units
         /\ \A u \in Sold(out) : IsSale(out[u], s, u, Bidders(u, query))
<1> DEFINE menu == [u \in Units |-> Outcomes(s, u, Bidders(u, query)) \cup {NoSale}]
<1>1. out \in Selections(menu)
  BY DEF Results, Bidders
<1>2. ASSUME NEW u \in Sold(out) PROVE IsSale(out[u], s, u, Bidders(u, query))
  <2>1. u \in Units /\ out[u] \in menu[u] /\ out[u] # NoSale
    BY <1>1 DEF Selections, Sold
  <2>2. out[u] \in Outcomes(s, u, Bidders(u, query)) /\ Bidders(u, query) \in SUBSET Dsps
    BY <2>1 DEF Bidders
  <2> QED BY <2>1, <2>2, SaleIs
<1> QED BY <1>2 DEF Sold

\* handleBidRsp sells units in sales that are right (rtb.lua:841-878).
LEMMA BidRsp ==
  ASSUME NEW s, NEW query, DOMAIN query \subseteq Dsps, HandleBidRsp(s, query)
  PROVE  \E sold \in SUBSET Units : \E out : Sells(sold, out, s, query)
<1>1. PICK out \in Results(s, query) :
        /\ content' = [u \in Units |->
                         IF u \in Sold(out) THEN content[u] \o Copies(out[u].win.dsp, out[u].win.num)
                         ELSE content[u]]
        /\ pend' = RemoveFull(Sold(out), content')
        /\ winList' = [winList EXCEPT ![s] = IF Wins(out) = {} THEN NoWins
                                             ELSE [bid |-> bid', wins |-> Wins(out)]]
        /\ book' = book \cup Sales(s, out)
  BY DEF HandleBidRsp
<1> DEFINE sold == Sold(out)
<1>2. /\ sold \in SUBSET Units
      /\ \A u \in sold : IsSale(out[u], s, u, Bidders(u, query))
  BY ResultsRight
<1> HIDE DEF sold
<1>3. Sells(sold, out, s, query)
  BY <1>1, <1>2 DEF sold, Sells, SaleEntry, Wins, Sales
<1> QED BY <1>2, <1>3

-----------------------------------------------------------------------------
(* The stages keep the invariant *)

\* The facts about types that the steps need.
LEMMA TypeFacts ==
  ASSUME Typed
  PROVE  /\ pend \subseteq valid /\ valid \subseteq Units
         /\ \A u \in Units : /\ AdNum[u] \in Nat /\ AdNum[u] > 0
                             /\ content[u] \in Seq(Sources) /\ Len(content[u]) \in Nat
         /\ content = [u \in Units |-> content[u]]
BY UnitsAssumption DEF Typed, TypeOK

\* What a sale does to the contents of a unit.
LEMMA SaleFills ==
  ASSUME Typed, NEW s, NEW query, DOMAIN query \subseteq Dsps,
         NEW sold \in SUBSET Units, NEW out, Sells(sold, out, s, query), NEW u \in sold
  PROVE  /\ out[u].win.dsp \in DOMAIN query
         /\ out[u].win.price \in Nat
         /\ content'[u] \in Seq(Sources)
         /\ Len(content'[u]) \in Nat /\ Len(content'[u]) > Len(content[u])
         /\ Range(content[u]) \subseteq Range(content'[u])
         /\ out[u].win.dsp \in Range(content'[u])
         /\ out[u].win.dsp \notin Stray => /\ Len(content'[u]) <= AdNum[u]
                                          /\ u \in query[out[u].win.dsp]
<1> DEFINE d == out[u].win.dsp
           n == out[u].win.num
<1>1. IsSale(out[u], s, u, Bidders(u, query))
  BY DEF Sells
<1>2. d \in DOMAIN query /\ (d \notin Stray => u \in query[d]) /\ out[u].win.price \in Nat
  BY <1>1 DEF IsSale, Bidders
<1>3. n \in Offers(u, d)
  BY <1>1 DEF IsSale
<1>4. u \in Units /\ AdNum[u] \in Nat /\ content[u] \in Seq(Sources) /\ Len(content[u]) \in Nat
  BY TypeFacts
<1>5. n \in Nat \ {0} /\ (d \notin Stray => n <= AdNum[u] - Len(content[u]))
  BY <1>3, <1>4, OffersAre
<1>6. content'[u] = content[u] \o Copies(d, n)
  BY <1>4 DEF Sells
<1>7. d \in Sources
  BY <1>2 DEF Sources
<1> HIDE DEF d, n
<1>8. /\ content'[u] \in Seq(Sources)
      /\ Len(content'[u]) = Len(content[u]) + n
      /\ Range(content[u]) \subseteq Range(content'[u])
      /\ d \in Range(content'[u])
  <2>1. n \in Nat /\ n > 0
    BY <1>5
  <2>2. /\ content[u] \o Copies(d, n) \in Seq(Sources)
        /\ Len(content[u] \o Copies(d, n)) = Len(content[u]) + n
        /\ Range(content[u]) \subseteq Range(content[u] \o Copies(d, n))
        /\ n > 0 => d \in Range(content[u] \o Copies(d, n))
    BY <1>4, <1>7, <2>1, Appended
  <2> QED BY <1>6, <2>1, <2>2
<1> QED BY <1>2, <1>4, <1>5, <1>8 DEF d

\* An auction leaves the pending units those with room, and overfills none, unless a
\* stray DSP wins it.
LEMMA AuctionPlaces ==
  ASSUME Typed, PlacesInv, stage \in {"preDeal", "open"}, stage' \in {"open", "network"},
         NEW s, NEW query, DOMAIN query \subseteq Dsps,
         \A d \in DOMAIN query : query[d] \subseteq valid,
         NEW sold \in SUBSET Units, NEW out, Sells(sold, out, s, query), valid' = valid
  PROVE  PlacesInv'
<1>1. /\ \A u \in Units \ sold : content'[u] = content[u]
      /\ pend' = pend \ {u \in sold : AdNum[u] - Len(content'[u]) <= 0}
      /\ book' = book \cup {SaleEntry(s, u, out[u]) : u \in sold}
  BY DEF Sells, RemoveFull, GetLeftAdNum
<1>2. NeverOverfilled'
  <2> SUFFICES ASSUME NEW u \in Units
               PROVE  \/ Len(content'[u]) <= (IF u \in valid THEN AdNum[u] ELSE 0)
                      \/ \E a \in book' : a.unit = u /\ a.win.dsp \in Stray
    BY DEF NeverOverfilled
  <2>1. \/ Len(content[u]) <= (IF u \in valid THEN AdNum[u] ELSE 0)
        \/ \E a \in book : a.unit = u /\ a.win.dsp \in Stray
    BY DEF PlacesInv, NeverOverfilled
  <2>2. CASE u \notin sold
    BY <1>1, <2>1, <2>2
  <2>3. CASE u \in sold /\ out[u].win.dsp \in Stray
    <3>1. /\ SaleEntry(s, u, out[u]) \in book'
          /\ SaleEntry(s, u, out[u]).unit = u /\ SaleEntry(s, u, out[u]).win = out[u].win
      BY <1>1, <2>3 DEF SaleEntry
    <3> QED BY <2>3, <3>1
  <2>4. CASE u \in sold /\ out[u].win.dsp \notin Stray
    <3>1. /\ Len(content'[u]) <= AdNum[u] /\ u \in query[out[u].win.dsp]
          /\ out[u].win.dsp \in DOMAIN query
      BY <2>4, SaleFills
    <3>2. u \in valid
      BY <3>1
    <3> QED BY <3>1, <3>2
  <2> QED BY <2>2, <2>3, <2>4
<1>3. PendingIffRoom'
  <2> SUFFICES ASSUME NEW u \in valid PROVE u \in pend' <=> Len(content'[u]) < AdNum[u]
    BY DEF PendingIffRoom
  <2>1. u \in pend <=> Len(content[u]) < AdNum[u]
    BY DEF PlacesInv, PendingIffRoom
  <2>2. u \in Units /\ AdNum[u] \in Nat /\ Len(content[u]) \in Nat
    BY TypeFacts
  <2>3. CASE u \notin sold
    BY <1>1, <2>1, <2>2, <2>3
  <2>4. CASE u \in sold
    <3>1. Len(content'[u]) \in Nat /\ Len(content'[u]) > Len(content[u])
      BY <2>4, SaleFills
    <3> QED BY <1>1, <2>1, <2>2, <2>4, <3>1
  <2> QED BY <2>3, <2>4
<1>4. SettledInv' /\ NoGapInResponse'
  BY DEF SettledInv, NoGapInResponse, Answered
<1> QED BY <1>2, <1>3, <1>4 DEF PlacesInv

\* An auction puts its sales into the book, the contents and its winPriceList.
LEMMA AuctionSales ==
  ASSUME Typed, SalesInv, stage \in {"preDeal", "open"},
         NEW s \in Auctions, NEW query, DOMAIN query \subseteq Dsps,
         NEW sold \in SUBSET Units, NEW out, Sells(sold, out, s, query), confirmed' = confirmed
  PROVE  SalesInv'
<1> DEFINE wins == {[unit |-> u, dsp |-> out[u].win.dsp, price |-> out[u].win.price] :
                      u \in {v \in sold : out[v].win.dsp \in Confirming}}
<1>1. /\ \A u \in Units \ sold : content'[u] = content[u]
      /\ book' = book \cup {SaleEntry(s, u, out[u]) : u \in sold}
      /\ winList' = [winList EXCEPT ![s] = IF wins = {} THEN NoWins ELSE [bid |-> bid', wins |-> wins]]
  BY DEF Sells
<1>2. /\ book \subseteq book'
      /\ \A a \in book' : a \in book \/ \E u \in sold : a = SaleEntry(s, u, out[u])
      /\ \A u \in sold : SaleEntry(s, u, out[u]) \in book'
  BY <1>1
<1>3. ASSUME NEW u
      PROVE  /\ SaleEntry(s, u, out[u]).auction = s /\ SaleEntry(s, u, out[u]).unit = u
             /\ SaleEntry(s, u, out[u]).bids = out[u].bids
             /\ SaleEntry(s, u, out[u]).bid = bid' /\ SaleEntry(s, u, out[u]).win = out[u].win
  BY DEF SaleEntry
<1> HIDE DEF wins
<1>4. PricesFair'
  <2> SUFFICES ASSUME NEW a \in book'
               PROVE  Fair(a.bids, CHOOSE x \in a.bids : x.dsp = a.win.dsp, a.win.price,
                           GetAdLowestPrice(a.auction, a.unit))
    BY DEF PricesFair
  <2>1. CASE a \in book
    BY <2>1 DEF SalesInv, PricesFair
  <2>2. ASSUME NEW u \in sold, a = SaleEntry(s, u, out[u])
        PROVE  Fair(a.bids, CHOOSE x \in a.bids : x.dsp = a.win.dsp, a.win.price,
                    GetAdLowestPrice(a.auction, a.unit))
    <3>1. a.bids = out[u].bids /\ a.win = out[u].win /\ a.auction = s /\ a.unit = u
      BY <1>3, <2>2
    <3>2. IsSale(out[u], s, u, Bidders(u, query))
      BY DEF Sells
    <3> QED BY <3>1, <3>2 DEF IsSale
  <2> QED BY <1>2, <2>1, <2>2
<1>5. BookShown'
  <2> SUFFICES ASSUME NEW a \in book' PROVE a.unit \in Units /\ a.win.dsp \in Range(content'[a.unit])
    BY DEF BookShown
  <2>1. CASE a \in book
    <3>1. a.unit \in Units /\ a.win.dsp \in Range(content[a.unit])
      BY <2>1 DEF SalesInv, BookShown
    <3>2. CASE a.unit \in sold
      BY <3>1, <3>2, SaleFills
    <3>3. CASE a.unit \notin sold
      BY <1>1, <3>1, <3>3
    <3> QED BY <3>2, <3>3
  <2>2. ASSUME NEW u \in sold, a = SaleEntry(s, u, out[u])
        PROVE  a.unit \in Units /\ a.win.dsp \in Range(content'[a.unit])
    <3>1. a.unit = u /\ a.win = out[u].win
      BY <1>3, <2>2
    <3>2. out[u].win.dsp \in Range(content'[u])
      BY SaleFills
    <3> QED BY <3>1, <3>2
  <2> QED BY <1>2, <2>1, <2>2
<1>6. WinsBooked'
  <2> SUFFICES ASSUME NEW t \in Auctions, NEW x \in winList'[t].wins
               PROVE  \E a \in book' : /\ a.bid = winList'[t].bid /\ a.unit = x.unit
                                       /\ a.win.dsp = x.dsp /\ a.win.price = x.price
    BY DEF WinsBooked, Booked
  <2>0. winList \in [Auctions -> [bid : 0 .. 2, wins : SUBSET [unit : Units, dsp : Dsps, price : Nat]]]
    BY DEF Typed, TypeOK
  <2>1. CASE t # s
    <3>1. winList'[t] = winList[t] /\ Unconfirmed(t)
      BY <1>1, <2>0, <2>1 DEF Unconfirmed
    <3>2. Booked(x, winList[t].bid)
      BY <3>1 DEF SalesInv, WinsBooked
    <3> QED BY <1>2, <3>1, <3>2 DEF Booked
  <2>2. CASE t = s
    <3>1. winList'[s] = IF wins = {} THEN NoWins ELSE [bid |-> bid', wins |-> wins]
      BY <1>1, <2>0
    <3>2. winList'[s].bid = bid' /\ x \in wins
      BY <2>2, <3>1 DEF NoWins
    <3>3. PICK u \in sold : x = [unit |-> u, dsp |-> out[u].win.dsp, price |-> out[u].win.price]
      BY <3>2 DEF wins
    <3>4. x.unit = u /\ x.dsp = out[u].win.dsp /\ x.price = out[u].win.price
      BY <3>3
    <3> QED BY <1>2, <1>3, <2>2, <3>2, <3>4
  <2> QED BY <2>1, <2>2
<1>7. ConfirmedUnderOwnId'
  BY <1>2 DEF SalesInv, ConfirmedUnderOwnId
<1>8. ConfirmedLate'
  BY DEF SalesInv, ConfirmedLate, Answered
<1> QED BY <1>4, <1>5, <1>6, <1>7, <1>8 DEF SalesInv

\* An auction keeps the types.
LEMMA AuctionTypes ==
  ASSUME Typed, NEW s \in Auctions, stage = s,
         stage' = (IF s = "preDeal" THEN "open" ELSE "network"),
         NEW query, DOMAIN query \subseteq Dsps,
         NEW sold \in SUBSET Units, NEW out, Sells(sold, out, s, query),
         bid' = bid + 1, asked' = DOMAIN query,
         UNCHANGED <<valid, network, preDeal, confirmed, uncounted>>
  PROVE  Typed'
<1> DEFINE wins == {[unit |-> u, dsp |-> out[u].win.dsp, price |-> out[u].win.price] :
                      u \in {v \in sold : out[v].win.dsp \in Confirming}}
           Lists == [bid : 0 .. 2, wins : SUBSET [unit : Units, dsp : Dsps, price : Nat]]
<1>1. bid' \in 0 .. 2 /\ (s = "preDeal" => bid' \in 0 .. 1)
  BY DEF Typed, Auctions
<1>2. content' \in [Units -> Seq(Sources)]
  <2>1. \A u \in Units : content'[u] \in Seq(Sources)
    <3> SUFFICES ASSUME NEW u \in Units PROVE content'[u] \in Seq(Sources)
      OBVIOUS
    <3>1. CASE u \in sold
      BY <3>1, SaleFills
    <3>2. CASE u \notin sold
      <4>1. content'[u] = content[u]
        BY <3>2 DEF Sells
      <4> QED BY <4>1, TypeFacts
    <3> QED BY <3>1, <3>2
  <2>2. content' = [u \in Units |-> content'[u]]
    BY DEF Sells
  <2> QED BY <2>1, <2>2
<1>3. winList' \in [Auctions -> Lists]
  <2>1. wins \in SUBSET [unit : Units, dsp : Dsps, price : Nat]
    <3>1. \A u \in sold : /\ u \in Units /\ out[u].win.dsp \in Dsps
                          /\ out[u].win.price \in Nat
      BY SaleFills
    <3> QED BY <3>1
  <2>2. winList \in [Auctions -> Lists]
    BY DEF Typed, TypeOK
  <2>3. winList' = [winList EXCEPT ![s] = IF wins = {} THEN NoWins ELSE [bid |-> bid', wins |-> wins]]
    BY DEF Sells
  <2> HIDE DEF wins
  <2>4. NoWins \in Lists /\ [bid |-> bid', wins |-> wins] \in Lists
    BY <1>1, <2>1 DEF NoWins
  <2> HIDE DEF Lists
  <2> QED BY <2>2, <2>3, <2>4
<1>4. pend' \subseteq valid
  BY DEF Sells, RemoveFull, Typed, TypeOK
<1>5. TypeOK'
  BY <1>1, <1>2, <1>3, <1>4 DEF Typed, TypeOK, Auctions
<1>6. stage' \notin {"sina", "preDeal"} /\ (stage' = "open" => s = "preDeal")
  BY DEF Auctions
<1> QED BY <1>1, <1>5, <1>6 DEF Typed

\* An auction that ends as it should.
LEMMA AuctionKeeps ==
  ASSUME ImpInv, NEW s \in Auctions, stage = s,
         stage' = (IF s = "preDeal" THEN "open" ELSE "network"),
         NEW query, DOMAIN query \subseteq Dsps,
         \A d \in DOMAIN query : query[d] \subseteq valid,
         bid' = bid + 1, asked' = DOMAIN query, HandleBidRsp(s, query),
         UNCHANGED <<valid, network, preDeal, confirmed, uncounted>>
  PROVE  ImpInv'
<1>1. PICK sold \in SUBSET Units : \E out : Sells(sold, out, s, query)
  BY BidRsp
<1>2. PICK out : Sells(sold, out, s, query)
  BY <1>1
<1>3. stage \in {"preDeal", "open"} /\ stage' \in {"open", "network"}
  BY DEF Auctions
<1>4. Typed /\ PlacesInv /\ SalesInv
  BY DEF ImpInv
<1>5. Typed'
  BY <1>2, <1>4, AuctionTypes
<1>6. PlacesInv'
  BY <1>2, <1>3, <1>4, AuctionPlaces
<1>7. SalesInv'
  BY <1>2, <1>3, <1>4, AuctionSales
<1> QED BY <1>5, <1>6, <1>7 DEF ImpInv

\* A stage that only adds creatives keeps the sales.
LEMMA SalesUntouched ==
  ASSUME SalesInv, UNCHANGED <<winList, confirmed, book>>,
         stage = "failed" => stage' = "failed", Answered => Answered',
         \A u \in Units : Range(content[u]) \subseteq Range(content'[u]),
         \A s \in Auctions : Unconfirmed(s)' => Unconfirmed(s)
  PROVE  SalesInv'
<1>1. PricesFair' /\ ConfirmedUnderOwnId'
  BY DEF SalesInv, PricesFair, ConfirmedUnderOwnId
<1>2. BookShown'
  BY DEF SalesInv, BookShown
<1>3. WinsBooked'
  BY DEF SalesInv, WinsBooked, Booked
<1>4. ConfirmedLate'
  BY DEF SalesInv, ConfirmedLate
<1> QED BY <1>1, <1>2, <1>3, <1>4 DEF SalesInv

\* The next stage, when no auction is held or the engine does not answer.
LEMMA StageOnly ==
  ASSUME ImpInv, <<stage, stage'>> \in {<<"sina", "preDeal">>, <<"preDeal", "open">>,
                                        <<"open", "network">>},
         UNCHANGED <<valid, network, pend, content, preDeal, bid, winList, confirmed, book>>,
         asked' \subseteq Dsps, uncounted' \subseteq Dsps
  PROVE  ImpInv'
<1>0. /\ stage \in {"sina", "preDeal", "open"} /\ stage' \in {"preDeal", "open", "network"}
      /\ stage' = "preDeal" => stage = "sina"
      /\ stage' = "open" => stage = "preDeal"
  OBVIOUS
<1>1. Typed'
  <2>1. TypeOK'
    BY <1>0 DEF ImpInv, Typed, TypeOK
  <2> QED BY <1>0, <2>1 DEF ImpInv, Typed
<1>2. PlacesInv'
  BY <1>0 DEF ImpInv, PlacesInv, NeverOverfilled, PendingIffRoom, SettledInv,
              NoGapInResponse, Answered
<1>3. SalesInv'
  BY <1>0, SalesUntouched DEF ImpInv, Unconfirmed, Answered
<1> QED BY <1>1, <1>2, <1>3 DEF ImpInv

\* An error ends the request: the contents stay as they are, the book may have grown
\* (impress.lua:180, rtb.lua:679).
LEMMA RequestFails ==
  ASSUME ImpInv, stage \in {"preDeal", "open"}, stage' = "failed", bid' \in 0 .. 2,
         asked' \subseteq Dsps, uncounted' \subseteq Dsps,
         UNCHANGED <<valid, network, pend, content, preDeal, winList, confirmed>>,
         book \subseteq book', PricesFair'
  PROVE  ImpInv'
<1>1. Typed'
  <2>1. TypeOK'
    BY DEF ImpInv, Typed, TypeOK
  <2> QED BY <2>1 DEF ImpInv, Typed
<1>2. NeverOverfilled'
  BY DEF ImpInv, PlacesInv, NeverOverfilled
<1>3. PlacesInv'
  BY <1>2 DEF PlacesInv, PendingIffRoom, SettledInv, NoGapInResponse, Answered
<1>4. WinsBooked' /\ ConfirmedUnderOwnId'
  <2>1. WinsBooked /\ ConfirmedUnderOwnId /\ \A s \in Auctions : Unconfirmed(s)
    BY DEF ImpInv, SalesInv, Unconfirmed
  <2> QED BY <2>1 DEF WinsBooked, Booked, ConfirmedUnderOwnId
<1>5. BookShown' /\ ConfirmedLate'
  BY DEF ImpInv, SalesInv, BookShown, ConfirmedLate, Answered
<1> QED BY <1>1, <1>3, <1>4, <1>5 DEF ImpInv, SalesInv

\* Also the sales of an auction that raises an error are right.
LEMMA RaisesKeeps ==
  ASSUME ImpInv, NEW s \in Auctions, stage = s, stage' = "failed",
         NEW query, DOMAIN query \subseteq Dsps,
         bid' = bid + 1, asked' = DOMAIN query, HandleBidRspRaises(s, query),
         UNCHANGED <<valid, network, preDeal, confirmed, uncounted>>
  PROVE  ImpInv'
<1>1. /\ \/ book' = book
         \/ \E out \in Results(s, query) : book' = book \cup Sales(s, out)
      /\ UNCHANGED <<content, pend, winList>>
  BY DEF HandleBidRspRaises
<1>2. PricesFair
  BY DEF ImpInv, SalesInv
<1>3. book \subseteq book' /\ PricesFair'
  <2>1. CASE book' = book
    BY <1>2, <2>1 DEF PricesFair
  <2>2. ASSUME NEW out \in Results(s, query), book' = book \cup Sales(s, out)
        PROVE  book \subseteq book' /\ PricesFair'
    <3>1. \A u \in Sold(out) : IsSale(out[u], s, u, Bidders(u, query))
      BY ResultsRight
    <3> SUFFICES ASSUME NEW a \in book'
                 PROVE  Fair(a.bids, CHOOSE x \in a.bids : x.dsp = a.win.dsp, a.win.price,
                             GetAdLowestPrice(a.auction, a.unit))
      BY <2>2 DEF PricesFair
    <3>2. CASE a \in book
      BY <1>2, <3>2 DEF PricesFair
    <3>3. CASE a \in Sales(s, out)
      <4>1. PICK u \in Sold(out) : a = [auction |-> s, unit |-> u, bids |-> out[u].bids,
                                        bid |-> bid', win |-> out[u].win]
        BY <3>3 DEF Sales
      <4>2. a.bids = out[u].bids /\ a.win = out[u].win /\ a.auction = s /\ a.unit = u
        BY <4>1
      <4> QED BY <3>1, <4>2 DEF IsSale
    <3> QED BY <2>2, <3>2, <3>3
  <2> QED BY <1>1, <2>1, <2>2
<1>4. bid' \in 0 .. 2 /\ stage \in {"preDeal", "open"}
  BY DEF ImpInv, Typed, Auctions
<1>5. uncounted' \subseteq Dsps /\ asked' \subseteq Dsps
  BY DEF ImpInv, Typed, TypeOK
<1> QED BY <1>1, <1>3, <1>4, <1>5, RequestFails

\* launchRtbForDsp as a whole (rtb.lua:921-935).
LEMMA LaunchKeeps ==
  ASSUME ImpInv, NEW s \in Auctions, stage = s, NEW query, DOMAIN query \subseteq Dsps,
         \A d \in DOMAIN query : query[d] \subseteq valid,
         LaunchRtbForDsp(s, query, IF s = "preDeal" THEN "open" ELSE "network")
  PROVE  ImpInv'
<1> DEFINE next == IF s = "preDeal" THEN "open" ELSE "network"
<1>1. asked' = DOMAIN query /\ UNCHANGED <<valid, network, preDeal, confirmed, uncounted>>
  BY DEF LaunchRtbForDsp
<1>2. \/ stage' = next /\ UNCHANGED <<pend, content, bid, winList, book>>
      \/ bid' = bid + 1 /\ stage' = next /\ HandleBidRsp(s, query)
      \/ bid' = bid + 1 /\ stage' = "failed" /\ HandleBidRspRaises(s, query)
  BY DEF LaunchRtbForDsp
<1>3. CASE stage' = next /\ UNCHANGED <<pend, content, bid, winList, book>>
  <2>1. <<stage, stage'>> \in {<<"preDeal", "open">>, <<"open", "network">>}
    BY <1>3 DEF Auctions
  <2>2. asked' \subseteq Dsps /\ uncounted' \subseteq Dsps
    BY <1>1 DEF ImpInv, Typed, TypeOK
  <2> QED BY <1>1, <1>3, <2>1, <2>2, StageOnly
<1>4. CASE bid' = bid + 1 /\ stage' = next /\ HandleBidRsp(s, query)
  BY <1>1, <1>4, AuctionKeeps
<1>5. CASE bid' = bid + 1 /\ stage' = "failed" /\ HandleBidRspRaises(s, query)
  BY <1>1, <1>5, RaisesKeeps
<1> QED BY <1>2, <1>3, <1>4, <1>5

LEMMA QuerySinaKeeps ==
  ASSUME ImpInv, QuerySina
  PROVE  ImpInv'
<1> DEFINE query == pend \cap SinaUnits
<1>1. PICK a \in Selections([u \in query |-> SinaAnswers(u)]), ok \in SUBSET Dsps :
        /\ content' = [u \in Units |-> IF u \in query THEN content[u] \o Copies("sina", a[u].own)
                                       ELSE content[u]]
        /\ preDeal' = [d \in Dsps |-> {u \in query : /\ d \in a[u].deals \cap ok
                                                     /\ d \in PdWhiteList[u]}]
        /\ pend' = RemoveFull(query, content')
  BY DEF QuerySina
<1>2. /\ stage = "sina" /\ stage' = "preDeal"
      /\ UNCHANGED <<valid, network, bid, winList, confirmed, book, asked, uncounted>>
  BY DEF QuerySina
<1>3. /\ Typed /\ PlacesInv /\ SalesInv /\ query \subseteq valid /\ valid \subseteq Units
      /\ \A u \in Units : content[u] = <<>>
  BY <1>2, TypeFacts DEF ImpInv, Typed
<1>4. \A u \in query : a[u].own \in 0 .. AdNum[u]
  BY DEF Selections, SinaAnswers
<1> HIDE DEF query
<1>5. ASSUME NEW u \in Units
      PROVE  /\ AdNum[u] \in Nat /\ AdNum[u] > 0
             /\ content'[u] \in Seq(Sources) /\ Len(content'[u]) \in Nat
             /\ Len(content'[u]) <= AdNum[u]
             /\ u \notin query => Len(content'[u]) = 0
             /\ Range(content[u]) \subseteq Range(content'[u])
  <2>1. AdNum[u] \in Nat /\ AdNum[u] > 0 /\ content[u] \in Seq(Sources) /\ Len(content[u]) = 0
    BY <1>3, TypeFacts, Empty
  <2>2. CASE u \in query
    <3> DEFINE n == a[u].own
               x == "sina"
    <3>1. content'[u] = content[u] \o Copies(x, n)
      BY <1>1, <2>2
    <3>2. n \in Nat /\ n <= AdNum[u]
      BY <1>4, <2>1, <2>2
    <3>3. x \in Sources
      BY DEF Sources
    <3> HIDE DEF n, x
    <3>4. /\ content[u] \o Copies(x, n) \in Seq(Sources)
          /\ Len(content[u] \o Copies(x, n)) = Len(content[u]) + n
          /\ Range(content[u]) \subseteq Range(content[u] \o Copies(x, n))
          /\ n > 0 => x \in Range(content[u] \o Copies(x, n))
      BY <2>1, <3>2, <3>3, Appended
    <3>5. Len(content'[u]) = n
      BY <2>1, <3>1, <3>2, <3>4
    <3> QED BY <2>1, <2>2, <3>1, <3>2, <3>4, <3>5
  <2>3. CASE u \notin query
    <3>1. content'[u] = content[u]
      BY <1>1, <2>3
    <3> QED BY <2>1, <2>3, <3>1
  <2> QED BY <2>2, <2>3
<1>6. pend' = pend \ {u \in query : AdNum[u] - Len(content'[u]) <= 0}
  BY <1>1 DEF RemoveFull, GetLeftAdNum
<1>7. Typed'
  <2>1. content' = [u \in Units |-> content'[u]]
    BY <1>1
  <2>2. content' \in [Units -> Seq(Sources)]
    BY <1>5, <2>1
  <2>3. preDeal' \in [Dsps -> SUBSET valid] /\ preDeal' \in [Dsps -> SUBSET Units]
    BY <1>1, <1>3
  <2>4. TypeOK'
    BY <1>2, <1>3, <1>6, <2>2, <2>3 DEF Typed, TypeOK
  <2> QED BY <1>2, <1>3, <2>3, <2>4 DEF Typed
<1>8. PlacesInv'
  <2>1. NeverOverfilled'
    BY <1>2, <1>3, <1>5 DEF NeverOverfilled
  <2>2. PendingIffRoom'
    <3> SUFFICES ASSUME NEW u \in valid PROVE u \in pend' <=> Len(content'[u]) < AdNum[u]
      BY <1>2 DEF PendingIffRoom
    <3>1. u \in pend
      <4>1. u \in Units /\ Len(content[u]) = 0 /\ AdNum[u] \in Nat /\ AdNum[u] > 0
        BY <1>3, <1>5, Empty
      <4> QED BY <1>2, <1>3, <4>1 DEF PlacesInv, PendingIffRoom
    <3>2. u \in Units
      BY <1>3
    <3> QED BY <1>5, <1>6, <3>1, <3>2
  <2>3. SettledInv' /\ NoGapInResponse'
    BY <1>2 DEF SettledInv, NoGapInResponse, Answered
  <2> QED BY <2>1, <2>2, <2>3 DEF PlacesInv
<1>9. SalesInv'
  BY <1>2, <1>3, <1>5, SalesUntouched DEF Unconfirmed, Answered
<1> QED BY <1>7, <1>8, <1>9 DEF ImpInv

LEMMA NetworkKeeps ==
  ASSUME ImpInv, FillNetworkAd
  PROVE  ImpInv'
<1> DEFINE filled == IF network THEN {u \in Units : NetworkFills(u)} ELSE {}
<1>1. /\ stage = "network" /\ stage' = "bottom"
      /\ content' = [u \in Units |-> IF u \in filled THEN <<"network">> ELSE content[u]]
      /\ pend' = pend \ filled
      /\ UNCHANGED <<valid, network, preDeal, bid, winList, confirmed, book, asked, uncounted>>
  BY DEF FillNetworkAd
<1>2. \A u \in filled : u \in pend /\ content[u] = <<>>
  BY DEF NetworkFills
<1> HIDE DEF filled
<1>3. Typed /\ PlacesInv /\ SalesInv /\ pend \subseteq valid /\ valid \subseteq Units
  BY TypeFacts DEF ImpInv
<1>4. ASSUME NEW u \in Units
      PROVE  /\ u \in filled => content'[u] = <<"network">> /\ Len(content'[u]) = 1
             /\ u \notin filled => content'[u] = content[u]
  <2>1. u \in filled => content'[u] = <<"network">>
    BY <1>1
  <2>2. Len(<<"network">>) = 1
    BY Empty
  <2> QED BY <1>1, <2>1, <2>2
<1>5. Typed'
  <2>1. <<"network">> \in Seq(Sources)
    BY DEF Sources
  <2>2. content' \in [Units -> Seq(Sources)]
    BY <1>1, <2>1, <1>3, TypeFacts
  <2>3. TypeOK'
    BY <1>1, <1>3, <2>2 DEF Typed, TypeOK
  <2> QED BY <1>1, <1>3, <2>3 DEF Typed
<1>6. NeverOverfilled'
  <2> SUFFICES ASSUME NEW u \in Units
               PROVE  \/ Len(content'[u]) <= (IF u \in valid THEN AdNum[u] ELSE 0)
                      \/ \E b \in book : b.unit = u /\ b.win.dsp \in Stray
    BY <1>1 DEF NeverOverfilled
  <2>1. \/ Len(content[u]) <= (IF u \in valid THEN AdNum[u] ELSE 0)
        \/ \E b \in book : b.unit = u /\ b.win.dsp \in Stray
    BY <1>3 DEF PlacesInv, NeverOverfilled
  <2>2. AdNum[u] \in Nat /\ AdNum[u] > 0
    BY <1>3, TypeFacts
  <2> QED BY <1>2, <1>3, <1>4, <2>1, <2>2
<1>7. SettledInv'
  <2> SUFFICES ASSUME NEW u \in valid
               PROVE  /\ u \in pend' => Len(content'[u]) < AdNum[u]
                      /\ u \notin pend' => Len(content'[u]) >= AdNum[u] \/ content'[u] = <<"network">>
    BY <1>1 DEF SettledInv
  <2>1. u \in pend <=> Len(content[u]) < AdNum[u]
    BY <1>1, <1>3 DEF PlacesInv, PendingIffRoom
  <2>2. u \in Units /\ AdNum[u] \in Nat /\ Len(content[u]) \in Nat
    BY <1>3, TypeFacts
  <2> QED BY <1>1, <1>4, <2>1, <2>2
<1>8. PlacesInv'
  BY <1>1, <1>6, <1>7 DEF PlacesInv, PendingIffRoom, NoGapInResponse, Answered
<1>9. SalesInv'
  <2>1. \A u \in Units : Range(content[u]) \subseteq Range(content'[u])
    <3> SUFFICES ASSUME NEW u \in Units PROVE Range(content[u]) \subseteq Range(content'[u])
      OBVIOUS
    <3>1. CASE u \in filled
      <4>1. Range(content[u]) = {}
        BY <1>2, <3>1, Empty
      <4> QED BY <4>1
    <3>2. CASE u \notin filled
      BY <1>4, <3>2
    <3> QED BY <3>1, <3>2
  <2> QED BY <1>1, <1>3, <2>1, SalesUntouched DEF Unconfirmed, Answered
<1> QED BY <1>5, <1>8, <1>9 DEF ImpInv

LEMMA BottomKeeps ==
  ASSUME ImpInv, FillBottomAd
  PROVE  ImpInv'
<1> DEFINE filled == pend \cap BottomUnits
           left(u) == AdNum[u] - Len(content[u])
<1>1. /\ stage = "bottom" /\ stage' = "cfmPreDeal"
      /\ content' = [u \in Units |-> IF u \in filled THEN content[u] \o Copies("bottom", left(u))
                                     ELSE content[u]]
      /\ pend' = pend \ filled
      /\ UNCHANGED <<valid, network, preDeal, bid, winList, confirmed, book, asked, uncounted>>
  BY DEF FillBottomAd, GetLeftAdNum
<1>2. Typed /\ PlacesInv /\ SalesInv /\ pend \subseteq valid /\ valid \subseteq Units
  BY TypeFacts DEF ImpInv
<1>3. ASSUME NEW u \in Units
      PROVE  /\ AdNum[u] \in Nat /\ Len(content[u]) \in Nat
             /\ content'[u] \in Seq(Sources)
             /\ Range(content[u]) \subseteq Range(content'[u])
             /\ u \in filled => Len(content'[u]) = AdNum[u]
             /\ u \notin filled => content'[u] = content[u]
  <2>1. AdNum[u] \in Nat /\ content[u] \in Seq(Sources) /\ Len(content[u]) \in Nat
    BY <1>2, TypeFacts
  <2>2. CASE u \in filled
    <3> DEFINE x == "bottom"
    <3>1. content'[u] = content[u] \o Copies(x, left(u))
      BY <1>1, <2>2
    <3>2. Len(content[u]) < AdNum[u]
      BY <1>1, <1>2, <2>2 DEF PlacesInv, SettledInv
    <3>3. left(u) \in Nat /\ left(u) > 0 /\ Len(content[u]) + left(u) = AdNum[u]
      BY <2>1, <3>2
    <3>4. x \in Sources
      BY DEF Sources
    <3> HIDE DEF left, x
    <3>5. /\ content[u] \o Copies(x, left(u)) \in Seq(Sources)
          /\ Len(content[u] \o Copies(x, left(u)))
               = Len(content[u]) + left(u)
          /\ Range(content[u]) \subseteq Range(content[u] \o Copies(x, left(u)))
          /\ left(u) > 0 => x \in Range(content[u] \o Copies(x, left(u)))
      BY <2>1, <3>3, <3>4, Appended
    <3> QED BY <2>1, <2>2, <3>1, <3>3, <3>5
  <2>3. CASE u \notin filled
    <3>1. content'[u] = content[u]
      BY <1>1, <2>3
    <3> QED BY <2>1, <2>3, <3>1
  <2> QED BY <2>2, <2>3
<1>4. content' = [u \in Units |-> content'[u]]
  BY <1>1
<1> HIDE DEF left
<1>5. Typed'
  <2>1. content' \in [Units -> Seq(Sources)]
    BY <1>3, <1>4
  <2>2. TypeOK'
    BY <1>1, <1>2, <2>1 DEF Typed, TypeOK
  <2> QED BY <1>1, <1>2, <2>2 DEF Typed
<1>6. NeverOverfilled'
  <2> SUFFICES ASSUME NEW u \in Units
               PROVE  \/ Len(content'[u]) <= (IF u \in valid THEN AdNum[u] ELSE 0)
                      \/ \E b \in book : b.unit = u /\ b.win.dsp \in Stray
    BY <1>1 DEF NeverOverfilled
  <2>1. \/ Len(content[u]) <= (IF u \in valid THEN AdNum[u] ELSE 0)
        \/ \E b \in book : b.unit = u /\ b.win.dsp \in Stray
    BY <1>2 DEF PlacesInv, NeverOverfilled
  <2>2. u \in filled => u \in valid
    BY <1>2
  <2> QED BY <1>3, <2>1, <2>2
<1>7. NoGapInResponse'
  <2> SUFFICES ASSUME NEW u \in valid \cap BottomUnits
               PROVE  Len(content'[u]) >= AdNum[u] \/ content'[u] = <<"network">>
    BY <1>1 DEF NoGapInResponse
  <2>1. CASE u \in pend
    <3>1. u \in Units /\ u \in filled
      BY <1>2, <2>1
    <3>2. Len(content'[u]) = AdNum[u] /\ AdNum[u] \in Nat
      BY <1>3, <3>1
    <3> QED BY <3>2
  <2>2. CASE u \notin pend
    <3>1. u \in Units /\ u \notin filled
      BY <1>2, <2>2
    <3>2. content'[u] = content[u]
      BY <1>3, <3>1
    <3>3. Len(content[u]) >= AdNum[u] \/ content[u] = <<"network">>
      BY <1>1, <1>2, <2>2 DEF PlacesInv, SettledInv
    <3> QED BY <3>2, <3>3
  <2> QED BY <2>1, <2>2
<1>8. PlacesInv'
  BY <1>1, <1>6, <1>7 DEF PlacesInv, PendingIffRoom, SettledInv
<1>9. SalesInv'
  BY <1>1, <1>2, <1>3, SalesUntouched DEF Unconfirmed, Answered
<1> QED BY <1>5, <1>8, <1>9 DEF ImpInv

\* The winners of auction s are told, and winList[s] loses its id.
LEMMA ConfirmKeeps ==
  ASSUME ImpInv, NEW s \in Auctions, CfmWinPrice(s, stage'),
         \/ s = "preDeal" /\ stage = "cfmPreDeal" /\ stage' = "cfmOpen"
         \/ s = "open" /\ stage = "cfmOpen" /\ stage' = "done"
  PROVE  ImpInv'
<1> DEFINE Lists == [bid : 0 .. 2, wins : SUBSET [unit : Units, dsp : Dsps, price : Nat]]
<1>1. UNCHANGED <<valid, network, pend, content, preDeal, book, asked, uncounted>>
  BY DEF CfmWinPrice
<1>2. Typed /\ PlacesInv /\ SalesInv /\ winList \in [Auctions -> Lists]
  BY DEF ImpInv, Typed, TypeOK
<1>3. /\ stage' \in {"cfmOpen", "done"} /\ stage \in {"cfmPreDeal", "cfmOpen"}
      /\ Unconfirmed(s) /\ ~Unconfirmed(s)'
      /\ \A t \in Auctions : Unconfirmed(t)' => Unconfirmed(t)
  BY DEF Unconfirmed, Auctions
<1>4. PlacesInv'
  BY <1>1, <1>2, <1>3 DEF PlacesInv, NeverOverfilled, PendingIffRoom, SettledInv,
                          NoGapInResponse, Answered
<1>5. CASE winList[s].wins = {}
  <2>1. UNCHANGED <<bid, confirmed, winList>>
    BY <1>5 DEF CfmWinPrice
  <2>2. TypeOK'
    BY <1>1, <1>2, <1>3, <2>1 DEF Typed, TypeOK
  <2>3. Typed'
    BY <1>1, <1>2, <1>3, <2>1, <2>2 DEF Typed
  <2>4. SalesInv'
    BY <1>1, <1>2, <1>3, <2>1, SalesUntouched DEF Answered
  <2> QED BY <1>4, <2>3, <2>4 DEF ImpInv
<1>6. CASE winList[s].wins # {}
  <2> DEFINE told == {[dsp |-> x.dsp, unit |-> x.unit, price |-> x.price, bid |-> bid'] :
                        x \in winList[s].wins}
  <2>1. /\ bid' = winList[s].bid
        /\ winList' = [winList EXCEPT ![s].bid = 0]
        /\ confirmed' = confirmed \cup told
    BY <1>6 DEF CfmWinPrice
  <2>2. /\ winList[s] \in Lists
        /\ \A x \in winList[s].wins : x \in [unit : Units, dsp : Dsps, price : Nat]
    BY <1>2
  <2>3. bid' \in 0 .. 2
    BY <2>1, <2>2
  <2>4. winList' \in [Auctions -> Lists]
    <3>0. [winList[s] EXCEPT !.bid = 0] = [bid |-> 0, wins |-> winList[s].wins]
      BY <2>2
    <3>1. winList' = [winList EXCEPT ![s] = [bid |-> 0, wins |-> winList[s].wins]]
      BY <2>1, <3>0
    <3>2. [bid |-> 0, wins |-> winList[s].wins] \in Lists
      BY <2>2
    <3> HIDE DEF Lists
    <3> QED BY <1>2, <3>1, <3>2
  <2>5. confirmed' \subseteq [unit : Units, dsp : Dsps, price : Nat, bid : 0 .. 2]
    <3>1. told \subseteq [unit : Units, dsp : Dsps, price : Nat, bid : 0 .. 2]
      BY <2>2, <2>3
    <3> QED BY <1>2, <2>1, <3>1 DEF Typed, TypeOK
  <2>6. TypeOK'
    BY <1>1, <1>2, <1>3, <2>3, <2>4, <2>5 DEF Typed, TypeOK
  <2>7. Typed'
    BY <1>1, <1>2, <1>3, <2>6 DEF Typed
  <2>8. PricesFair' /\ BookShown' /\ ConfirmedLate'
    BY <1>1, <1>2, <1>3 DEF SalesInv, PricesFair, BookShown, ConfirmedLate, Answered
  <2>9. WinsBooked'
    <3> SUFFICES ASSUME NEW t \in Auctions, Unconfirmed(t)', NEW x \in winList'[t].wins
                 PROVE  \E a \in book : /\ a.bid = winList'[t].bid /\ a.unit = x.unit
                                        /\ a.win.dsp = x.dsp /\ a.win.price = x.price
      BY <1>1 DEF WinsBooked, Booked
    <3>1. t # s /\ Unconfirmed(t)
      BY <1>3
    <3>2. winList'[t] = winList[t]
      BY <1>2, <2>1, <3>1
    <3> QED BY <1>2, <3>1, <3>2 DEF SalesInv, WinsBooked, Booked
  <2>10. ConfirmedUnderOwnId'
    <3> SUFFICES ASSUME NEW c \in confirmed'
                 PROVE  \E a \in book : /\ a.bid = c.bid /\ a.unit = c.unit
                                        /\ a.win.dsp = c.dsp /\ a.win.price = c.price
      BY <1>1 DEF ConfirmedUnderOwnId
    <3>1. CASE c \in confirmed
      BY <1>2, <3>1 DEF SalesInv, ConfirmedUnderOwnId
    <3>2. CASE c \in told
      <4>1. PICK x \in winList[s].wins :
              c = [dsp |-> x.dsp, unit |-> x.unit, price |-> x.price, bid |-> bid']
        BY <3>2
      <4>2. c.dsp = x.dsp /\ c.unit = x.unit /\ c.price = x.price /\ c.bid = winList[s].bid
        BY <2>1, <4>1
      <4>3. Booked(x, winList[s].bid)
        BY <1>2, <1>3 DEF SalesInv, WinsBooked
      <4> QED BY <4>2, <4>3 DEF Booked
    <3> QED BY <2>1, <3>1, <3>2
  <2> QED BY <1>4, <2>7, <2>8, <2>9, <2>10 DEF ImpInv, SalesInv
<1> QED BY <1>5, <1>6

LEMMA ImpInit == Init => ImpInv
<1> SUFFICES ASSUME Init PROVE ImpInv
  OBVIOUS
<1>1. /\ valid \subseteq Units /\ stage = "sina" /\ pend = valid
      /\ content = [u \in Units |-> <<>>] /\ preDeal = [d \in Dsps |-> {}] /\ bid = 0
      /\ winList = [s \in Auctions |-> NoWins] /\ confirmed = {} /\ book = {}
      /\ asked = {} /\ uncounted = {}
  BY DEF Init
<1>2. Typed
  <2>1. <<>> \in Seq(Sources)
    OBVIOUS
  <2>2. NoWins \in [bid : 0 .. 2, wins : SUBSET [unit : Units, dsp : Dsps, price : Nat]]
    BY DEF NoWins
  <2>3. TypeOK
    BY <1>1, <2>1, <2>2 DEF TypeOK
  <2> QED BY <1>1, <2>3 DEF Typed
<1>3. \A u \in Units : Len(content[u]) = 0 /\ AdNum[u] \in Nat /\ AdNum[u] > 0
  BY <1>1, <1>2, TypeFacts, Empty
<1>4. PlacesInv
  BY <1>1, <1>3 DEF PlacesInv, NeverOverfilled, PendingIffRoom, SettledInv, NoGapInResponse, Answered
<1>5. SalesInv
  BY <1>1 DEF SalesInv, PricesFair, BookShown, WinsBooked, ConfirmedUnderOwnId, ConfirmedLate, NoWins
<1> QED BY <1>2, <1>4, <1>5 DEF ImpInv

LEMMA ImpStep == ImpInv /\ [Next]_vars => ImpInv'
<1> SUFFICES ASSUME ImpInv, [Next]_vars PROVE ImpInv'
  OBVIOUS
<1>0. asked \subseteq Dsps /\ uncounted \subseteq Dsps /\ bid \in 0 .. 2
  BY DEF ImpInv, Typed, TypeOK
<1>1. CASE SinaFails
  BY <1>0, <1>1, StageOnly DEF SinaFails
<1>2. CASE PreferredDeal
  <2>1. PICK kept \in SUBSET {d \in Dsps : preDeal[d] # {}} :
          LaunchRtbForDsp("preDeal", [d \in kept |-> preDeal[d]], "open")
    BY <1>2 DEF PreferredDeal
  <2> DEFINE query == [d \in kept |-> preDeal[d]]
             s == "preDeal"
  <2>2. DOMAIN query \subseteq Dsps /\ \A d \in DOMAIN query : query[d] \subseteq valid
    BY DEF ImpInv, Typed
  <2>3. s \in Auctions /\ stage = s /\ (IF s = "preDeal" THEN "open" ELSE "network") = "open"
    BY <1>2 DEF Auctions, PreferredDeal
  <2> HIDE DEF query
  <2>4. LaunchRtbForDsp(s, query, IF s = "preDeal" THEN "open" ELSE "network")
    BY <2>1, <2>3 DEF query
  <2> HIDE DEF s
  <2> QED BY <2>2, <2>3, <2>4, LaunchKeeps
<1>3. CASE OpenAuction
  <2>1. PICK kept \in SUBSET {d \in Dsps : GetDspQueryList(d) # {}} :
          LaunchRtbForDsp("open", [d \in kept |-> GetDspQueryList(d)], "network")
    BY <1>3 DEF OpenAuction
  <2> DEFINE query == [d \in kept |-> GetDspQueryList(d)]
             s == "open"
  <2>2. DOMAIN query \subseteq Dsps /\ \A d \in DOMAIN query : query[d] \subseteq valid
    BY DEF ImpInv, Typed, TypeOK, GetDspQueryList
  <2>3. s \in Auctions /\ stage = s /\ (IF s = "preDeal" THEN "open" ELSE "network") = "network"
    BY <1>3 DEF Auctions, OpenAuction
  <2> HIDE DEF query
  <2>4. LaunchRtbForDsp(s, query, IF s = "preDeal" THEN "open" ELSE "network")
    BY <2>1, <2>3 DEF query
  <2> HIDE DEF s
  <2> QED BY <2>2, <2>3, <2>4, LaunchKeeps
<1>6. CASE CheckDspQpsRaises
  <2>1. /\ stage \in {"preDeal", "open"} /\ stage' = "failed"
        /\ asked' \subseteq Dsps /\ uncounted' \subseteq Dsps
        /\ UNCHANGED <<valid, network, pend, content, preDeal, bid, winList, confirmed, book>>
    BY <1>6 DEF CheckDspQpsRaises, QpsChecked
  <2>2. PricesFair'
    BY <2>1 DEF ImpInv, SalesInv, PricesFair
  <2> QED BY <1>0, <2>1, <2>2, RequestFails
<1>4. CASE Confirm
  <2>1. CASE stage = "cfmPreDeal" /\ CfmWinPrice("preDeal", "cfmOpen")
    <3>1. stage' = "cfmOpen" /\ "preDeal" \in Auctions
      BY <2>1 DEF CfmWinPrice, Auctions
    <3> QED BY <2>1, <3>1, ConfirmKeeps
  <2>2. CASE stage = "cfmOpen" /\ CfmWinPrice("open", "done")
    <3>1. stage' = "done" /\ "open" \in Auctions
      BY <2>2 DEF CfmWinPrice, Auctions
    <3> QED BY <2>2, <3>1, ConfirmKeeps
  <2> QED BY <1>4, <2>1, <2>2 DEF Confirm
<1>5. CASE UNCHANGED vars
  <2>0. /\ stage' = stage
        /\ UNCHANGED <<valid, network, pend, content, preDeal, bid, winList, confirmed, book,
                       asked, uncounted>>
    BY <1>5 DEF vars
  <2>1. TypeOK'
    BY <2>0 DEF ImpInv, Typed, TypeOK
  <2>2. Typed'
    BY <2>0, <2>1 DEF ImpInv, Typed
  <2>3. PlacesInv'
    BY <2>0 DEF ImpInv, PlacesInv, NeverOverfilled, PendingIffRoom, SettledInv,
                NoGapInResponse, Answered
  <2>4. SalesInv'
    BY <2>0, SalesUntouched DEF ImpInv, Unconfirmed, Answered
  <2> QED BY <2>2, <2>3, <2>4 DEF ImpInv
<1> QED BY <1>1, <1>2, <1>3, <1>4, <1>5, <1>6, QuerySinaKeeps, NetworkKeeps, BottomKeeps DEF Next

-----------------------------------------------------------------------------
(* How a request ends *)

\* A unit with a deal is pending, and its DSP is on the white list of the resource.
DealsInv ==
  stage \in {"sina", "preDeal"} =>
    \A d \in Dsps : \A u \in preDeal[d] : u \in pend /\ d \in PdWhiteList[u]

\* The stages after auction s.
Held(s) == stage \notin (IF s = "preDeal" THEN {"sina", "preDeal"} ELSE {"sina", "preDeal", "open"})

\* Sale a waits in winPriceList for the stage that confirms it.
Waits(a) == /\ a.bid = winList[a.auction].bid
            /\ \E x \in winList[a.auction].wins : x.unit = a.unit /\ x.dsp = a.win.dsp

Told(a) == \E c \in confirmed : c.unit = a.unit /\ c.dsp = a.win.dsp /\ c.bid = a.bid

\* No sale to a DSP with a confirm url is forgotten as long as no error ends the request.
ListedInv ==
  stage # "failed" =>
    \A a \in book :
      /\ a.auction \in Auctions /\ Held(a.auction)
      /\ a.win.dsp \in Confirming => IF Unconfirmed(a.auction) THEN Waits(a) ELSE Told(a)

EndInv == DealsInv /\ ListedInv /\ (stage = "failed" => FailedForCause)

\* A stage that leaves the sales alone.
LEMMA ListedUntouched ==
  ASSUME ListedInv, stage # "failed", UNCHANGED <<winList, confirmed, book>>,
         \A s \in Auctions : /\ Held(s) => Held(s)'
                             /\ Unconfirmed(s)' <=> Unconfirmed(s)
  PROVE  ListedInv'
BY DEF ListedInv, Waits, Told

\* The sales of an auction are put into its winPriceList.
LEMMA AuctionLists ==
  ASSUME Typed, ListedInv, NEW s \in Auctions, stage = s,
         stage' = (IF s = "preDeal" THEN "open" ELSE "network"),
         NEW query, DOMAIN query \subseteq Dsps, HandleBidRsp(s, query), confirmed' = confirmed
  PROVE  ListedInv'
<1>1. PICK sold \in SUBSET Units : \E out : Sells(sold, out, s, query)
  BY BidRsp
<1>2. PICK out : Sells(sold, out, s, query)
  BY <1>1
<1> DEFINE wins == {[unit |-> u, dsp |-> out[u].win.dsp, price |-> out[u].win.price] :
                      u \in {v \in sold : out[v].win.dsp \in Confirming}}
<1>3. /\ book' = book \cup {SaleEntry(s, u, out[u]) : u \in sold}
      /\ winList' = [winList EXCEPT ![s] = IF wins = {} THEN NoWins ELSE [bid |-> bid', wins |-> wins]]
  BY <1>2 DEF Sells
<1>4. winList \in [Auctions -> [bid : 0 .. 2, wins : SUBSET [unit : Units, dsp : Dsps, price : Nat]]]
  BY DEF Typed, TypeOK
<1>5. winList'[s] = IF wins = {} THEN NoWins ELSE [bid |-> bid', wins |-> wins]
  BY <1>3, <1>4
<1>6. /\ ~Held(s) /\ Held(s)' /\ stage # "failed"
      /\ \A t \in Auctions : Unconfirmed(t) /\ Unconfirmed(t)' /\ (Held(t) => Held(t)')
  BY DEF Held, Unconfirmed, Auctions
<1> SUFFICES ASSUME NEW a \in book'
             PROVE  /\ a.auction \in Auctions /\ Held(a.auction)'
                    /\ a.win.dsp \in Confirming =>
                         /\ a.bid = winList'[a.auction].bid
                         /\ \E x \in winList'[a.auction].wins : x.unit = a.unit /\ x.dsp = a.win.dsp
  BY <1>6 DEF ListedInv, Waits
<1>7. CASE a \in book
  <2>1. /\ a.auction \in Auctions /\ Held(a.auction) /\ a.auction # s
        /\ a.win.dsp \in Confirming => Waits(a)
    BY <1>6, <1>7 DEF ListedInv
  <2>2. winList'[a.auction] = winList[a.auction]
    BY <1>3, <1>4, <2>1
  <2> QED BY <1>6, <2>1, <2>2 DEF Waits
<1>8. ASSUME NEW u \in sold, a = SaleEntry(s, u, out[u])
      PROVE  /\ a.auction \in Auctions /\ Held(a.auction)'
             /\ a.win.dsp \in Confirming =>
                  /\ a.bid = winList'[a.auction].bid
                  /\ \E x \in winList'[a.auction].wins : x.unit = a.unit /\ x.dsp = a.win.dsp
  <2>1. a.auction = s /\ a.unit = u /\ a.bid = bid' /\ a.win = out[u].win
    BY <1>8 DEF SaleEntry
  <2>2. ASSUME out[u].win.dsp \in Confirming
        PROVE  /\ bid' = winList'[s].bid
               /\ \E x \in winList'[s].wins : x.unit = u /\ x.dsp = out[u].win.dsp
    <3> DEFINE x == [unit |-> u, dsp |-> out[u].win.dsp, price |-> out[u].win.price]
    <3>1. x \in wins /\ x.unit = u /\ x.dsp = out[u].win.dsp
      BY <2>2
    <3> HIDE DEF x, wins
    <3>2. winList'[s] = [bid |-> bid', wins |-> wins]
      BY <1>5, <3>1
    <3> QED BY <3>1, <3>2
  <2>3. Held(a.auction)'
    BY <1>6, <2>1 DEF Held, Auctions
  <2> QED BY <2>1, <2>2, <2>3
<1> QED BY <1>3, <1>7, <1>8

\* cfmWinPrice confirms what waits in the list, and leaves the other list alone
\* (rtb.lua:873-919).
LEMMA ConfirmLists ==
  ASSUME Typed, ListedInv, NEW s \in Auctions, CfmWinPrice(s, stage'),
         \/ s = "preDeal" /\ stage = "cfmPreDeal" /\ stage' = "cfmOpen"
         \/ s = "open" /\ stage = "cfmOpen" /\ stage' = "done"
  PROVE  ListedInv'
<1>1. /\ book' = book
      /\ \/ winList[s].wins = {} /\ UNCHANGED <<confirmed, winList>>
         \/ /\ winList' = [winList EXCEPT ![s].bid = 0]
            /\ confirmed' = confirmed \cup
                 {[dsp |-> x.dsp, unit |-> x.unit, price |-> x.price, bid |-> winList[s].bid] :
                    x \in winList[s].wins}
  BY DEF CfmWinPrice
<1>2. /\ Unconfirmed(s) /\ ~Unconfirmed(s)' /\ stage # "failed"
      /\ \A t \in Auctions : Held(t)' /\ (t # s => (Unconfirmed(t)' <=> Unconfirmed(t)))
  BY DEF Held, Unconfirmed, Auctions
<1>3. winList \in [Auctions -> [bid : 0 .. 2, wins : SUBSET [unit : Units, dsp : Dsps, price : Nat]]]
  BY DEF Typed, TypeOK
<1> SUFFICES ASSUME NEW a \in book
             PROVE  /\ a.auction \in Auctions /\ Held(a.auction)'
                    /\ a.win.dsp \in Confirming =>
                         IF Unconfirmed(a.auction)'
                           THEN /\ a.bid = winList'[a.auction].bid
                                /\ \E x \in winList'[a.auction].wins :
                                     x.unit = a.unit /\ x.dsp = a.win.dsp
                           ELSE \E c \in confirmed' :
                                  c.unit = a.unit /\ c.dsp = a.win.dsp /\ c.bid = a.bid
  BY <1>1 DEF ListedInv, Waits, Told
<1>4. /\ a.auction \in Auctions
      /\ a.win.dsp \in Confirming => IF Unconfirmed(a.auction) THEN Waits(a) ELSE Told(a)
  BY <1>2 DEF ListedInv
<1>5. CASE a.auction # s
  <2>1. winList'[a.auction] = winList[a.auction] /\ confirmed \subseteq confirmed'
    BY <1>1, <1>3, <1>4, <1>5
  <2> QED BY <1>2, <1>4, <1>5, <2>1 DEF Waits, Told
<1>6. CASE a.auction = s
  <2>1. ASSUME a.win.dsp \in Confirming
        PROVE  \E c \in confirmed' : c.unit = a.unit /\ c.dsp = a.win.dsp /\ c.bid = a.bid
    <3>1. a.bid = winList[s].bid /\ \E x \in winList[s].wins : x.unit = a.unit /\ x.dsp = a.win.dsp
      BY <1>2, <1>4, <1>6, <2>1 DEF Waits
    <3>2. PICK x \in winList[s].wins : x.unit = a.unit /\ x.dsp = a.win.dsp
      BY <3>1
    <3> DEFINE c == [dsp |-> x.dsp, unit |-> x.unit, price |-> x.price, bid |-> winList[s].bid]
    <3>3. c \in confirmed'
      BY <1>1, <3>2
    <3>4. c.unit = a.unit /\ c.dsp = a.win.dsp /\ c.bid = a.bid
      BY <3>1, <3>2
    <3> QED BY <3>3, <3>4
  <2> QED BY <1>2, <1>4, <1>6, <2>1
<1> QED BY <1>5, <1>6

\* The engine names deals for units it leaves room in (rtb.lua:77-108).
LEMMA QuerySinaDeals ==
  ASSUME Typed, PlacesInv, QuerySina
  PROVE  DealsInv'
<1> DEFINE query == pend \cap SinaUnits
<1>1. PICK a \in Selections([u \in query |-> SinaAnswers(u)]), ok \in SUBSET Dsps :
        /\ content' = [u \in Units |-> IF u \in query THEN content[u] \o Copies("sina", a[u].own)
                                       ELSE content[u]]
        /\ preDeal' = [d \in Dsps |-> {u \in query : /\ d \in a[u].deals \cap ok
                                                     /\ d \in PdWhiteList[u]}]
        /\ pend' = RemoveFull(query, content')
  BY DEF QuerySina
<1> SUFFICES ASSUME NEW d \in Dsps, NEW u \in preDeal'[d]
             PROVE  u \in pend' /\ d \in PdWhiteList[u]
  BY DEF DealsInv
<1>2. u \in query /\ d \in a[u].deals /\ d \in PdWhiteList[u]
  BY <1>1
<1>3. u \in Units /\ AdNum[u] \in Nat /\ content[u] \in Seq(Sources) /\ Len(content[u]) = 0
  <2>1. u \in Units /\ AdNum[u] \in Nat /\ content[u] \in Seq(Sources)
    BY <1>2, TypeFacts
  <2>2. content[u] = <<>>
    BY <2>1 DEF Typed, QuerySina
  <2> QED BY <2>1, <2>2, Empty
<1>4. /\ a[u].own \in 0 .. AdNum[u] /\ a[u].deals \in SUBSET Dsps
      /\ a[u].own + Cardinality(a[u].deals) <= AdNum[u]
  BY <1>2 DEF Selections, SinaAnswers
<1>5. Cardinality(a[u].deals) \in Nat /\ Cardinality(a[u].deals) # 0
  <2>1. IsFiniteSet(a[u].deals)
    BY <1>4, DspsAssumption, FS_Subset
  <2> QED BY <1>2, <2>1, FS_CardinalityType, FS_EmptySet
<1>6. a[u].own \in Nat /\ a[u].own < AdNum[u]
  BY <1>3, <1>4, <1>5
<1>7. Len(content'[u]) = a[u].own
  <2> DEFINE x == "sina"
             n == a[u].own
  <2>1. content'[u] = content[u] \o Copies(x, n)
    BY <1>1, <1>2, <1>3
  <2>2. x \in Sources
    BY DEF Sources
  <2>3. n \in Nat
    BY <1>6
  <2> HIDE DEF x, n
  <2>4. /\ content[u] \o Copies(x, n) \in Seq(Sources)
        /\ Len(content[u] \o Copies(x, n)) = Len(content[u]) + n
        /\ Range(content[u]) \subseteq Range(content[u] \o Copies(x, n))
        /\ n > 0 => x \in Range(content[u] \o Copies(x, n))
    BY <1>3, <2>2, <2>3, Appended
  <2>5. Len(content'[u]) = n
    BY <1>3, <2>1, <2>3, <2>4
  <2> QED BY <2>5 DEF n
<1>8. u \in pend'
  <2>1. ~(AdNum[u] - Len(content'[u]) <= 0)
    BY <1>3, <1>6, <1>7
  <2> QED BY <1>1, <1>2, <2>1 DEF RemoveFull, GetLeftAdNum
<1> QED BY <1>2, <1>8

\* launchRtbForDsp: the sales wait to be confirmed, or a stray DSP was asked.
LEMMA LaunchEnds ==
  ASSUME ImpInv, EndInv, NEW s \in Auctions, stage = s, NEW query, DOMAIN query \subseteq Dsps,
         LaunchRtbForDsp(s, query, IF s = "preDeal" THEN "open" ELSE "network")
  PROVE  EndInv'
<1> DEFINE next == IF s = "preDeal" THEN "open" ELSE "network"
<1>1. asked' = DOMAIN query /\ UNCHANGED confirmed
  BY DEF LaunchRtbForDsp
<1>2. \/ stage' = next /\ UNCHANGED <<winList, book>>
      \/ stage' = next /\ HandleBidRsp(s, query)
      \/ stage' = "failed" /\ HandleBidRspRaises(s, query)
  BY DEF LaunchRtbForDsp
<1>3. stage' \notin {"sina", "preDeal"} /\ stage # "failed"
  BY <1>2 DEF Auctions
<1>4. CASE stage' = next /\ UNCHANGED <<winList, book>>
  <2>1. \A t \in Auctions : /\ Held(t) => Held(t)'
                            /\ Unconfirmed(t)' <=> Unconfirmed(t)
    BY <1>4 DEF Held, Unconfirmed, Auctions
  <2>2. ListedInv'
    BY <1>1, <1>3, <1>4, <2>1, ListedUntouched DEF EndInv
  <2> QED BY <1>3, <1>4, <2>2 DEF EndInv, DealsInv
<1>5. CASE stage' = next /\ HandleBidRsp(s, query)
  <2>1. ListedInv'
    BY <1>1, <1>5, AuctionLists DEF EndInv, ImpInv
  <2> QED BY <1>3, <1>5, <2>1 DEF EndInv, DealsInv
<1>6. CASE stage' = "failed" /\ HandleBidRspRaises(s, query)
  <2>1. FailedForCause'
    BY <1>1, <1>6 DEF FailedForCause, HandleBidRspRaises
  <2> QED BY <1>6, <2>1 DEF EndInv, DealsInv, ListedInv
<1> QED BY <1>2, <1>4, <1>5, <1>6

LEMMA EndInit == Init => EndInv
BY DEF Init, EndInv, DealsInv, ListedInv

LEMMA EndStep == ImpInv /\ EndInv /\ [Next]_vars => EndInv'
<1> SUFFICES ASSUME ImpInv, EndInv, [Next]_vars PROVE EndInv'
  OBVIOUS
<1>0. Typed /\ PlacesInv /\ DealsInv /\ ListedInv
  BY DEF ImpInv, EndInv
<1>1. CASE QuerySina
  <2>1. /\ stage = "sina" /\ stage' = "preDeal" /\ UNCHANGED <<winList, confirmed, book>>
    BY <1>1 DEF QuerySina
  <2>2. ListedInv'
    BY <1>0, <2>1, ListedUntouched DEF Held, Unconfirmed
  <2> QED BY <1>0, <1>1, <2>1, <2>2, QuerySinaDeals DEF EndInv
<1>2. CASE SinaFails
  <2>1. /\ stage = "sina" /\ stage' = "preDeal"
        /\ UNCHANGED <<pend, preDeal, winList, confirmed, book>>
    BY <1>2 DEF SinaFails
  <2>2. ListedInv'
    BY <1>0, <2>1, ListedUntouched DEF Held, Unconfirmed
  <2> QED BY <1>0, <2>1, <2>2 DEF EndInv, DealsInv
<1>3. CASE PreferredDeal
  <2>1. PICK kept \in SUBSET {d \in Dsps : preDeal[d] # {}} :
          LaunchRtbForDsp("preDeal", [d \in kept |-> preDeal[d]], "open")
    BY <1>3 DEF PreferredDeal
  <2> DEFINE query == [d \in kept |-> preDeal[d]]
             s == "preDeal"
  <2>2. DOMAIN query \subseteq Dsps
    OBVIOUS
  <2>3. s \in Auctions /\ stage = s /\ (IF s = "preDeal" THEN "open" ELSE "network") = "open"
    BY <1>3 DEF Auctions, PreferredDeal
  <2> HIDE DEF query
  <2>4. LaunchRtbForDsp(s, query, IF s = "preDeal" THEN "open" ELSE "network")
    BY <2>1, <2>3 DEF query
  <2> HIDE DEF s
  <2> QED BY <2>2, <2>3, <2>4, LaunchEnds
<1>4. CASE OpenAuction
  <2>1. PICK kept \in SUBSET {d \in Dsps : GetDspQueryList(d) # {}} :
          LaunchRtbForDsp("open", [d \in kept |-> GetDspQueryList(d)], "network")
    BY <1>4 DEF OpenAuction
  <2> DEFINE query == [d \in kept |-> GetDspQueryList(d)]
             s == "open"
  <2>2. DOMAIN query \subseteq Dsps
    OBVIOUS
  <2>3. s \in Auctions /\ stage = s /\ (IF s = "preDeal" THEN "open" ELSE "network") = "network"
    BY <1>4 DEF Auctions, OpenAuction
  <2> HIDE DEF query
  <2>4. LaunchRtbForDsp(s, query, IF s = "preDeal" THEN "open" ELSE "network")
    BY <2>1, <2>3 DEF query
  <2> HIDE DEF s
  <2> QED BY <2>2, <2>3, <2>4, LaunchEnds
<1>5. CASE CheckDspQpsRaises
  <2>1. PICK d \in Dsps : QpsChecked(d) /\ uncounted' = {d}
    BY <1>5 DEF CheckDspQpsRaises
  <2>2. stage' = "failed" /\ pend' = pend
    BY <1>5 DEF CheckDspQpsRaises
  <2>3. \E u \in pend : d \in PdWhiteList[u] \cup WhiteList[u]
    BY <1>0, <2>1 DEF QpsChecked, DealsInv, GetDspQueryList
  <2>4. FailedForCause'
    BY <2>1, <2>2, <2>3 DEF FailedForCause
  <2> QED BY <2>2, <2>4 DEF EndInv, DealsInv, ListedInv
<1>6. CASE FillNetworkAd \/ FillBottomAd
  <2>1. /\ stage \in {"network", "bottom"} /\ stage' \in {"bottom", "cfmPreDeal"}
        /\ UNCHANGED <<winList, confirmed, book>>
    BY <1>6 DEF FillNetworkAd, FillBottomAd
  <2>2. ListedInv'
    BY <1>0, <2>1, ListedUntouched DEF Held, Unconfirmed
  <2> QED BY <2>1, <2>2 DEF EndInv, DealsInv
<1>7. CASE Confirm
  <2>1. PICK s \in Auctions :
          /\ CfmWinPrice(s, stage')
          /\ \/ s = "preDeal" /\ stage = "cfmPreDeal" /\ stage' = "cfmOpen"
             \/ s = "open" /\ stage = "cfmOpen" /\ stage' = "done"
    BY <1>7 DEF Confirm, CfmWinPrice, Auctions
  <2>2. ListedInv'
    BY <1>0, <2>1, ConfirmLists
  <2>3. stage' \in {"cfmOpen", "done"}
    BY <2>1
  <2> QED BY <2>2, <2>3 DEF EndInv, DealsInv
<1>8. CASE UNCHANGED vars
  BY <1>8 DEF vars, EndInv, DealsInv, ListedInv, Held, Unconfirmed, Waits, Told, FailedForCause
<1> QED BY <1>1, <1>2, <1>3, <1>4, <1>5, <1>6, <1>7, <1>8 DEF Next

-----------------------------------------------------------------------------
(* Theorems *)

\* The inductive invariant of a request, from the first stage to the confirmations.
THEOREM RequestRight == Spec => []ImpInv
BY ImpInit, ImpStep, PTL DEF Spec

\* Every variable has its type, and only units that passed the checks of getAdData are
\* ever pending (impress.lua:126-161).
THEOREM ImpressTypeCorrect == Spec => []TypeOK
<1>1. ImpInv => TypeOK
  BY DEF ImpInv, Typed
<1> QED BY <1>1, RequestRight, PTL

\* No unit gets more creatives than it has places, unless a stray DSP wins it
\* (rtb.lua:110-123, 483-544).
THEOREM UnitsNeverOverfilled == Spec => []NeverOverfilled
<1>1. ImpInv => NeverOverfilled
  BY DEF ImpInv, PlacesInv
<1> QED BY <1>1, RequestRight, PTL

\* A unit is pending exactly as long as it has room, until a network or a bottom ad
\* settles it (rtb.lua:160-162, 861-863).
THEOREM PendingExactlyWithRoom == Spec => []PendingIffRoom
<1>1. ImpInv => PendingIffRoom
  BY DEF ImpInv, PlacesInv
<1> QED BY <1>1, RequestRight, PTL

\* A unit with bottom ads has no gap in the response (impress.lua:272-312).
THEOREM NoGaps == Spec => []NoGapInResponse
<1>1. ImpInv => NoGapInResponse
  BY DEF ImpInv, PlacesInv
<1> QED BY <1>1, RequestRight, PTL

\* A confirmation carries the id of the auction in which the bid was made
\* (rtb.lua:866-878).
THEOREM OwnIdConfirmed == Spec => []ConfirmedUnderOwnId
<1>1. ImpInv => ConfirmedUnderOwnId
  BY DEF ImpInv, SalesInv
<1> QED BY <1>1, RequestRight, PTL

\* Whoever is told it has won is shown (impress.lua:203-204, 448-456).
THEOREM WinnersShown == Spec => []WinsAreShown
<1>1. ImpInv => WinsAreShown
  BY DEF ImpInv, SalesInv, ConfirmedUnderOwnId, ConfirmedLate, BookShown, WinsAreShown, Answered
<1> QED BY <1>1, RequestRight, PTL

\* Every price is fair, for any number of bids and any prices (rtb.lua:550-589).
THEOREM ImpressPricesFair == Spec => []PricesFair
<1>1. ImpInv => PricesFair
  BY DEF ImpInv, SalesInv
<1> QED BY <1>1, RequestRight, PTL

\* A request ends with every sale confirmed, or with an error that has one of the two
\* causes: what WinnersToldEventually says of the end of a request, for any units, DSPs
\* and prices; that the end is reached is left to TLC (impress.lua:180, 448-456,
\* rtb.lua:679).
THEOREM EndsToldOrFailed == Spec => [](stage \in {"done", "failed"} => AllTold \/ FailedForCause)
<1>1. EndInv => (stage \in {"done", "failed"} => AllTold \/ FailedForCause)
  <2> SUFFICES ASSUME EndInv, stage = "done" PROVE AllTold
    BY DEF EndInv
  <2>1. \A s \in Auctions : ~Unconfirmed(s)
    BY DEF Unconfirmed
  <2> QED BY <2>1 DEF EndInv, ListedInv, AllTold, Told
<1> QED BY <1>1, RequestRight, EndInit, EndStep, PTL DEF Spec
=============================================================================
