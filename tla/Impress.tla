------------------------------- MODULE Impress -------------------------------
(***************************************************************************)
(* One ad request on a sax worker: impress.lua newImpress and wapImpress,  *)
(* with the auctions of rtb.lua (module Auction).                          *)
(*                                                                         *)
(* The ad units of the request are filled in stages: by the sina ad        *)
(* engine, by the preferred deals it names, by the open auction among the  *)
(* DSPs, by an ad network and by bottom ads.  adPendList holds the units   *)
(* that still have room, adCreativeList what was found for each.  The      *)
(* response is sent, and only then are the winners told what they pay.     *)
(* An error that nothing catches ends the request: what was sold before it *)
(* is in the log, but is neither shown nor confirmed.                      *)
(*                                                                         *)
(* The answer of the engine stays within the question: only units asked    *)
(* for, at most as many creatives and deals as there are places, a DSP at  *)
(* most once per unit.  So do the DSPs, except the Stray ones: rtb.lua     *)
(* does not compare a bid with the request, so these bid for any unit of   *)
(* the request, asked for or not, with a creative too many, bid for units  *)
(* that nobody knows, or send a creative that is not JSON.                 *)
(*                                                                         *)
(* The list adPendList is a set here: no request names a unit twice.  The  *)
(* code does not refuse one that does, and then removeAdFromPendList takes *)
(* out the first of the two entries only.                                  *)
(***************************************************************************)
EXTENDS Auction, Functions

CONSTANTS Units,        \* the ad units of the request
          Dsps,
          AdNum,        \* AdNum[u]: places in u (1 for display type "fp")
          LowestPrice,  \* LowestPrice[u]: lowest price of u's publisher
          SinaUnits,    \* units whose resource has the flag of the ad engine
          WhiteList,    \* WhiteList[u]: DSPs of the open auction
          PdWhiteList,  \* PdWhiteList[u]: DSPs allowed a preferred deal
          Confirming,   \* DSPs that have a confirm url
          NetworkUnits, \* units with a valid network of positive weight
          BottomUnits,  \* units with bottom ads
          Prices,       \* max_cpm_price of a bid
          Stray         \* DSPs that do not stick to the bid request

ASSUME UnitsAssumption == /\ AdNum \in [Units -> Nat \ {0}]
                          /\ LowestPrice \in [Units -> Nat]
ASSUME PricesAssumption == Prices \subseteq Nat
ASSUME DspsAssumption == Confirming \cup Stray \subseteq Dsps /\ IsFiniteSet(Dsps)

VARIABLES valid,       \* the units that passed the checks of getAdData
          network,     \* a network may fill: not for every wap version
          stage,       \* the stage of the request
          pend,        \* adPendList
          content,     \* adCreativeList: content[u], a sequence of sources
          preDeal,     \* preDealQueryList: preDeal[d], units
          bid,         \* ngx.ctx.bid: the id of the latest auction
          winList,     \* winList[s]: the winPriceList of stage s
          confirmed,   \* the confirmations sent (one that fails is only logged)
          book,        \* the bids of each auction, as logged (history)
          asked,       \* the DSPs asked in the latest auction (history)
          uncounted    \* the DSP whose missing count ended the request (history)

vars == <<valid, network, stage, pend, content, preDeal, bid, winList, confirmed, book,
          asked, uncounted>>

Auctions == {"preDeal", "open"}
NoWins == [bid |-> 0, wins |-> {}]

\* Mutant: the units are pending without having been checked.
InitUnchecked ==
  /\ valid \in SUBSET Units
  /\ network \in BOOLEAN
  /\ stage = "sina"
  /\ pend = Units
  /\ content = [u \in Units |-> <<>>]
  /\ preDeal = [d \in Dsps |-> {}]
  /\ bid = 0
  /\ winList = [s \in Auctions |-> NoWins]
  /\ confirmed = {}
  /\ book = {}
  /\ asked = {}
  /\ uncounted = {}

\* getAdData: units unknown or switched off never become pending.
Init ==
  /\ valid \in SUBSET Units
  /\ network \in BOOLEAN
  /\ stage = "sina"
  /\ pend = valid
  /\ content = [u \in Units |-> <<>>]
  /\ preDeal = [d \in Dsps |-> {}]
  /\ bid = 0
  /\ winList = [s \in Auctions |-> NoWins]
  /\ confirmed = {}
  /\ book = {}
  /\ asked = {}
  /\ uncounted = {}

Copies(x, n) == [i \in 1 .. n |-> x]

\* Mutant: the places already taken are not subtracted.
GetAllAdNum(u, c) == AdNum[u]

GetLeftAdNum(u, c) == AdNum[u] - Len(c[u])

\* Mutants: the unit is removed whether or not it has room; one too late.
RemoveAlways(us, c) == pend \ us

RemoveOverfull(us, c) == pend \ {u \in us : GetLeftAdNum(u, c) < 0}

\* removeAdFromPendList, for the units of us that the contents c leave no room in.
RemoveFull(us, c) == pend \ {u \in us : GetLeftAdNum(u, c) <= 0}

-----------------------------------------------------------------------------
(* querySinaAdEngine *)

\* What the engine may put into unit u: some creatives of its own and some
\* preferred deals, no more than there are places.
SinaAnswers(u) == {a \in [own : 0 .. AdNum[u], deals : SUBSET Dsps] :
                     a.own + Cardinality(a.deals) <= AdNum[u]}

\* handleQueryRsp and fillAdCreativeListForSina.  A deal counts only if its DSP
\* is valid and on the white list of the resource.
QuerySina ==
  /\ stage = "sina"
  /\ stage' = "preDeal"
  /\ LET query == pend \cap SinaUnits
     IN  \E a \in Selections([u \in query |-> SinaAnswers(u)]), ok \in SUBSET Dsps :
           /\ content' = [u \in Units |-> IF u \in query THEN content[u] \o Copies("sina", a[u].own)
                                          ELSE content[u]]
           /\ preDeal' = [d \in Dsps |-> {u \in query : /\ d \in a[u].deals \cap ok
                                                        /\ d \in PdWhiteList[u]}]
           /\ pend' = RemoveFull(query, content')
  /\ UNCHANGED <<valid, network, bid, winList, confirmed, book, asked, uncounted>>

\* The engine does not answer, or not with JSON.
SinaFails ==
  /\ stage = "sina"
  /\ stage' = "preDeal"
  /\ UNCHANGED <<valid, network, pend, content, preDeal, bid, winList, confirmed, book,
                 asked, uncounted>>

-----------------------------------------------------------------------------
(* launchRtbForDsp *)

\* getAdLowestPrice: a preferred deal has none.
GetAdLowestPrice(s, u) == IF s = "preDeal" THEN 0 ELSE LowestPrice[u]

\* The numbers of creatives DSP d may offer for unit u.
Offers(u, d) ==
  LET left == GetLeftAdNum(u, content)
  IN  1 .. (IF d \in Stray THEN Max({left, 0}) + 1 ELSE left)

\* extractAdBid: the lists of bids for unit u of auction s.  A DSP that fails,
\* answers nonsense, bids too little or offers no valid creative has none.
BidSets(s, u, bidders) ==
  LET offer(d) == [dsp : {d}, num : Offers(u, d),
                   price : {p \in Prices : p >= GetAdLowestPrice(s, u)}]
  IN  UNION {Choices({offer(d) : d \in ds}) : ds \in SUBSET bidders}

\* What may come out of auction s for unit u: the bids and the winner.
Outcomes(s, u, bidders) ==
  UNION {{[bids |-> bids, win |-> x] : x \in Winners(bids, GetAdLowestPrice(s, u))} :
           bids \in BidSets(s, u, bidders) \ {{}}}

NoSale == [bids |-> {}, win |-> <<>>]

\* What may come of auction s, unit by unit, if query[d] are the units DSP d is
\* asked for.
Results(s, query) ==
  LET bidders(u) == {d \in DOMAIN query : u \in query[d] \/ d \in Stray}
  IN  Selections([u \in Units |-> Outcomes(s, u, bidders(u)) \cup {NoSale}])

Sold(out) == {u \in Units : out[u] # NoSale}
Sales(s, out) == {[auction |-> s, unit |-> u, bids |-> out[u].bids, bid |-> bid',
                   win |-> out[u].win] : u \in Sold(out)}
Wins(out) == {[unit |-> u, dsp |-> out[u].win.dsp, price |-> out[u].win.price] :
                u \in {v \in Sold(out) : out[v].win.dsp \in Confirming}}

\* handleBidRsp: winners get their creatives in, and an entry in winPriceList.
HandleBidRsp(s, query) ==
  \E out \in Results(s, query) :
    /\ content' = [u \in Units |->
                     IF u \in Sold(out) THEN content[u] \o Copies(out[u].win.dsp, out[u].win.num)
                     ELSE content[u]]
    /\ pend' = RemoveFull(Sold(out), content')
    /\ winList' = [winList EXCEPT ![s] = IF Wins(out) = {} THEN NoWins
                                         ELSE [bid |-> bid', wins |-> Wins(out)]]
    /\ book' = book \cup Sales(s, out)

\* It raises an error: a bid for a unit that nobody knows is refused before anything
\* is sold, but the creative of a winner is looked at when its unit, and perhaps
\* others, are sold.  winPriceList is lost.
HandleBidRspRaises(s, query) ==
  /\ DOMAIN query \cap Stray # {}
  /\ \/ UNCHANGED book
     \/ \E out \in Results(s, query) :
          /\ \E u \in Sold(out) : out[u].win.dsp \in Stray
          /\ book' = book \cup Sales(s, out)
  /\ UNCHANGED <<content, pend, winList>>

\* An auction among the DSPs of query, if there are any; next is the stage after.
LaunchRtbForDsp(s, query, next) ==
  /\ asked' = DOMAIN query
  /\ \/ /\ DOMAIN query = {}
        /\ stage' = next
        /\ UNCHANGED <<pend, content, bid, winList, book>>
     \/ /\ DOMAIN query # {}
        /\ bid' = bid + 1
        /\ \/ stage' = next /\ HandleBidRsp(s, query)
           \/ stage' = "failed" /\ HandleBidRspRaises(s, query)
  /\ UNCHANGED <<valid, network, preDeal, confirmed, uncounted>>

\* getPreDealQueryList: checkDspQps may drop any of the DSPs.
PreferredDeal ==
  /\ stage = "preDeal"
  /\ \E kept \in SUBSET {d \in Dsps : preDeal[d] # {}} :
       LaunchRtbForDsp("preDeal", [d \in kept |-> preDeal[d]], "open")

\* getDspQueryList: the pending units that DSP d is asked for, if it is valid.
GetDspQueryList(d) == {u \in pend : d \in WhiteList[u]}

\* The valid DSPs among them, less those checkDspQps drops.
OpenAuction ==
  /\ stage = "open"
  /\ \E kept \in SUBSET {d \in Dsps : GetDspQueryList(d) # {}} :
       LaunchRtbForDsp("open", [d \in kept |-> GetDspQueryList(d)], "network")

\* checkDspQps looks at the count of d before it asks anybody.
QpsChecked(d) == \/ stage = "preDeal" /\ preDeal[d] # {}
                 \/ stage = "open" /\ GetDspQueryList(d) # {}

\* It compares the count of a DSP for which getQpsInfoList has none (when that is so
\* is in module QpsWorker), and the error ends the request.
CheckDspQpsRaises ==
  /\ \E d \in Dsps : QpsChecked(d) /\ uncounted' = {d}
  /\ stage' = "failed"
  /\ asked' = {}
  /\ UNCHANGED <<valid, network, pend, content, preDeal, bid, winList, confirmed, book>>

-----------------------------------------------------------------------------
\* Mutant: a network fills units that have creatives already.
NetworkFillsAny(u) == u \in pend /\ u \in NetworkUnits

\* fillNetworkAd: a unit without any creative gets one of a network, and is
\* done whatever its number of places.
NetworkFills(u) == u \in pend /\ content[u] = <<>> /\ u \in NetworkUnits

FillNetworkAd ==
  /\ stage = "network"
  /\ stage' = "bottom"
  /\ LET filled == IF network THEN {u \in Units : NetworkFills(u)} ELSE {}
     IN  /\ content' = [u \in Units |-> IF u \in filled THEN <<"network">> ELSE content[u]]
         /\ pend' = pend \ filled
  /\ UNCHANGED <<valid, network, preDeal, bid, winList, confirmed, book, asked, uncounted>>

\* fillBottomAd: the places left are filled from the list, round robin.
FillBottomAd ==
  /\ stage = "bottom"
  /\ stage' = "cfmPreDeal"
  /\ LET filled == pend \cap BottomUnits
     IN  /\ content' = [u \in Units |->
                          IF u \in filled
                            THEN content[u] \o Copies("bottom", GetLeftAdNum(u, content))
                            ELSE content[u]]
         /\ pend' = pend \ filled
  /\ UNCHANGED <<valid, network, preDeal, bid, winList, confirmed, book, asked, uncounted>>

\* Mutant: the confirmation carries the id of the latest auction.
CfmUnderLatestId(s, next) ==
  /\ confirmed' = confirmed \cup {[dsp |-> x.dsp, unit |-> x.unit, price |-> x.price,
                                   bid |-> bid] : x \in winList[s].wins}
  /\ stage' = next
  /\ UNCHANGED <<valid, network, pend, content, preDeal, bid, winList, book, asked, uncounted>>

\* The response is sent between these stages; then cfmWinPrice tells the
\* winners of auction s, under the id kept in its list.
CfmWinPrice(s, next) ==
  /\ IF winList[s].wins = {} THEN UNCHANGED <<bid, confirmed, winList>>
     ELSE /\ bid' = winList[s].bid
          /\ winList' = [winList EXCEPT ![s].bid = 0]
          /\ confirmed' = confirmed \cup
               {[dsp |-> x.dsp, unit |-> x.unit, price |-> x.price, bid |-> bid'] :
                  x \in winList[s].wins}
  /\ stage' = next
  /\ UNCHANGED <<valid, network, pend, content, preDeal, book, asked, uncounted>>

\* Mutant: only one of the two lists is confirmed.
ConfirmEither ==
  \/ /\ stage = "cfmPreDeal"
     /\ CfmWinPrice("preDeal", IF winList["preDeal"].wins = {} THEN "cfmOpen" ELSE "done")
  \/ stage = "cfmOpen" /\ CfmWinPrice("open", "done")

Confirm ==
  \/ stage = "cfmPreDeal" /\ CfmWinPrice("preDeal", "cfmOpen")
  \/ stage = "cfmOpen" /\ CfmWinPrice("open", "done")

Next == \/ QuerySina \/ SinaFails \/ PreferredDeal \/ OpenAuction
        \/ CheckDspQpsRaises \/ FillNetworkAd \/ FillBottomAd \/ Confirm

Spec == Init /\ [][Next]_vars /\ WF_vars(Next)

-----------------------------------------------------------------------------
(* Properties *)

Sources == Dsps \cup {"sina", "network", "bottom"}
Answered == stage \in {"cfmPreDeal", "cfmOpen", "done"}

\* Every variable has its type; only units that passed the checks of getAdData are
\* ever pending (impress.lua:126-161).
TypeOK ==
  /\ pend \subseteq valid
  /\ stage \in {"sina", "preDeal", "open", "network", "bottom", "cfmPreDeal", "cfmOpen", "done",
               "failed"}
  /\ content \in [Units -> Seq(Sources)]
  /\ preDeal \in [Dsps -> SUBSET Units]
  /\ bid \in 0 .. 2
  /\ winList \in [Auctions -> [bid : 0 .. 2,
                               wins : SUBSET [unit : Units, dsp : Dsps, price : Nat]]]
  /\ confirmed \subseteq [unit : Units, dsp : Dsps, price : Nat, bid : 0 .. 2]
  /\ asked \subseteq Dsps /\ uncounted \subseteq Dsps

\* No unit has more creatives than places, and a unit that is switched off has
\* none, although every stage counts on its own what the ones before it have
\* left; unless a DSP that does not stick to the request has won the unit
\* (rtb.lua:110-123, 483-544).
NeverOverfilled ==
  \A u \in Units :
    \/ Len(content[u]) <= (IF u \in valid THEN AdNum[u] ELSE 0)
    \/ \E a \in book : a.unit = u /\ a.win.dsp \in Stray

\* Until a network or a bottom ad settles a unit, it is pending exactly if it
\* has room: no unit is offered twice, none is forgotten (rtb.lua:160-162, 861-863).
PendingIffRoom ==
  stage \in {"sina", "preDeal", "open", "network"} =>
    \A u \in valid : u \in pend <=> Len(content[u]) < AdNum[u]

\* In the response every unit with bottom ads is full, or shows the one ad of a
\* network; no unit is left with a gap (impress.lua:272-312).
NoGapInResponse ==
  Answered => \A u \in valid \cap BottomUnits :
                Len(content[u]) >= AdNum[u] \/ content[u] = <<"network">>

\* A DSP is told to pay only for what is shown: a response was sent, and the creative
\* of the DSP is in the unit it is told it has won; nobody pays in a request that an
\* error has ended (impress.lua:203-204, 438-456).
WinsAreShown == \A c \in confirmed : Answered /\ c.dsp \in Range(content[c.unit])

\* The winner has bid highest, pays at least the lowest price, more than everyone
\* who bid less, and less than one above its own bid: at most its bid when bids are
\* whole numbers, but a bid of 2.5 against one of 2 pays 3 (rtb.lua:550-589).
PricesFair ==
  \A a \in book :
    LET own == CHOOSE x \in a.bids : x.dsp = a.win.dsp
    IN  Fair(a.bids, own, a.win.price, GetAdLowestPrice(a.auction, a.unit))

\* A confirmation carries the id under which the bid was made, though both
\* auctions share ngx.ctx.bid (rtb.lua:866-878).
ConfirmedUnderOwnId ==
  \A c \in confirmed : \E a \in book : /\ a.bid = c.bid /\ a.unit = c.unit
                                       /\ a.win.dsp = c.dsp /\ a.win.price = c.price

\* The request has ended with an error: in an auction that a stray DSP was asked in
\* (rtb.lua:679), or for want of the count of a DSP that would have been asked for
\* one of the units still pending (impress.lua:180).
FailedForCause ==
  /\ stage = "failed"
  /\ \/ asked \cap Stray # {}
     \/ \E d \in uncounted, u \in pend : d \in PdWhiteList[u] \cup WhiteList[u]

\* Every sale to a DSP that has a confirm url is confirmed.
AllTold ==
  \A a \in book : a.win.dsp \in Confirming =>
    \E c \in confirmed : c.unit = a.unit /\ c.dsp = a.win.dsp /\ c.bid = a.bid

\* Every sale to a DSP that has a confirm url is confirmed in the end, also when
\* both auctions of the request sold something, unless an error with one of the
\* causes above has ended the request: the preferred deals sold before it are never
\* confirmed (impress.lua:448-456).
WinnersToldEventually == <>[](AllTold \/ FailedForCause)
=============================================================================
