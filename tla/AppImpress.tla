------------------------------ MODULE AppImpress ------------------------------
(***************************************************************************)
(* One ad request of the other clients: of the video player (video.lua and *)
(* video_rtb.lua), of the sina apps (mobile.lua and mobile_rtb.lua) and of *)
(* a foreign app (saxmob/rtb/impress.lua and rtb.lua).                     *)
(*                                                                         *)
(* They have the stages of module Impress in fewer variants: a unit is     *)
(* filled by one source or not at all, whatever its number of places, and  *)
(* there is no network and no confirmation.  The winner learns the price   *)
(* from the urls in its creative, and the win is in the log at once.       *)
(* Saxmob has only the open auction, among all DSPs.                       *)
(*                                                                         *)
(* As in Impress the engine and the DSPs stick to the question, except the *)
(* Stray DSPs, which bid for any unit of the request or answer with a      *)
(* creative that cannot be shown.  No DSP bids twice for a unit, and no    *)
(* request names a unit twice: adPendList, a list in the code, is a set.   *)
(***************************************************************************)
EXTENDS Auction

CONSTANTS Clients,      \* some of "video", "mobile", "saxmob"
          Units,        \* the ad units of the request
          FirstUnit,    \* the first of them: saxmob takes its ssp for all
          Dsps,
          LowestPrice,  \* LowestPrice[u]: lowest price of u, or of its publisher
          SinaUnits,    \* units whose resource has the flag of the ad engine
          WhiteList,    \* WhiteList[u]: DSPs of the open auction
          PdWhiteList,  \* PdWhiteList[u]: DSPs allowed a preferred deal
          BottomUnits,  \* units with bottom ads
          DspList,      \* saxmob: the DSPs as listed under "dspall"
          Prices,       \* price of a bid
          Stray         \* DSPs that do not stick to the bid request

ASSUME ClientsAssumption == Clients \subseteq {"video", "mobile", "saxmob"}
ASSUME AppUnitsAssumption == FirstUnit \in Units /\ LowestPrice \in [Units -> Nat]
ASSUME AppDspsAssumption == /\ Stray \subseteq Dsps /\ IsFiniteSet(Dsps)
                            /\ DspList \in Seq(Dsps) /\ Range(DspList) = Dsps
                            /\ Dsps \cap {"none", "own", "empty"} = {}
ASSUME AppPricesAssumption == Prices \subseteq Nat

VARIABLES client,     \* whose request it is
          status,     \* status[u]: "valid", "off", or "unknown" to the dict
          hostless,   \* saxmob: DSPs whose bid url has no host
          live,       \* the units that passed the checks of getAdData
          stage,      \* the stage of the request
          pend,       \* adPendList
          content,    \* adCreativeList: content[u], a sequence of sources
          pd,         \* the preferred deals: pd[d], units
          asked,      \* the DSPs asked in the latest auction (history)
          uncounted,  \* the DSP whose missing count ended the request (history)
          book        \* the sales, with the bids of each (history)

vars == <<client, status, hostless, live, stage, pend, content, pd, asked, uncounted, book>>

\* Where x is in the sequence s.
Place(s, x) == CHOOSE i \in DOMAIN s : s[i] = x

\* getAdData, get_ad_data: the units that become pending.  Saxmob drops them all
\* if the ssp of the first is unknown or switched off.
GetAdData ==
  LET on == {u \in Units : status[u] = "valid"}
  IN  IF client # "saxmob" THEN {on}
      ELSE IF status[FirstUnit] = "unknown" THEN {{}} ELSE {on, {}}

Init ==
  /\ client \in Clients
  /\ status \in [Units -> {"valid", "off", "unknown"}]
  /\ hostless \in IF client = "saxmob" THEN SUBSET Dsps ELSE {{}}
  /\ live \in GetAdData
  /\ stage = IF client = "saxmob" THEN "open" ELSE "sina"
  /\ pend = live
  /\ content = [u \in Units |-> <<>>]
  /\ pd = [d \in Dsps |-> {}]
  /\ asked = {}
  /\ uncounted = {}
  /\ book = {}

-----------------------------------------------------------------------------
(* querySinaAdEngine *)

\* What the engine may say of a unit: nothing, creatives of its own, a deal with
\* a DSP, or creatives without a source, which only the video player notices.
SinaAnswers == {"none", "own"} \cup Dsps \cup (IF client = "video" THEN {"empty"} ELSE {})

\* Mutant: a unit with a preferred deal is no longer pending.
DealSettles(a, u) == a[u] \notin {"none", "empty"}

\* fillAdCreativeListForSina returns true: the unit is filled.  A deal, allowed or
\* not, leaves it empty and pending.
FilledBySina(a, u) == a[u] = "own"

QuerySina ==
  /\ stage = "sina"
  /\ stage' = "preDeal"
  /\ LET query == pend \cap SinaUnits
     IN  \E a \in [query -> SinaAnswers], ok \in SUBSET Dsps :
           LET filled == {u \in query : FilledBySina(a, u)}
           IN  /\ content' = [u \in Units |-> IF u \in query /\ a[u] = "own" THEN <<"sina">>
                                              ELSE content[u]]
               /\ pend' = pend \ filled
               /\ pd' = [d \in Dsps |-> {u \in query : /\ a[u] = d /\ d \in ok
                                                       /\ d \in PdWhiteList[u]}]
  /\ UNCHANGED <<client, status, hostless, live, asked, uncounted, book>>

\* The engine does not answer, or not with JSON.
SinaFails ==
  /\ stage = "sina"
  /\ stage' = "preDeal"
  /\ UNCHANGED <<client, status, hostless, live, pend, content, pd, asked, uncounted, book>>

-----------------------------------------------------------------------------
(* launchRtbForDsp *)

\* getFloorPrice: a preferred deal has none.
GetFloorPrice(s, u) == IF s = "preDeal" THEN 0 ELSE LowestPrice[u]

\* The price of a bid in extractAdBid: the video player sets that of a deal to 0.
BidPrices(s, u) == IF s = "preDeal" /\ client = "video" THEN {0}
                   ELSE {p \in Prices : p >= GetFloorPrice(s, u)}

\* The lowest price of u can be looked up.  The video player keeps publishers of
\* live units only, the others find those of all units they know.
Priced(u) == IF client = "video" THEN u \in live ELSE status[u] # "unknown"

\* The units DSP d may bid for when query[d] is asked.
MayBid(d, query) == IF d \in Stray THEN Units ELSE query[d]

\* Some answer raises an error that nothing catches, and the request is over: a bid
\* for a unit without a price is compared with nil, or the creative of a mobile
\* winner has no view urls.
Raises(s, query) ==
  \E d \in DOMAIN query : \E u \in MayBid(d, query) :
    \/ s = "open" /\ ~Priced(u)
    \/ client = "mobile" /\ d \in Stray

\* extractAdBid: the sets of bids for unit u, none of them empty.  Bids of a DSP
\* count as bids of credit[d].
BidSets(s, u, query, credit) ==
  LET bidders == {d \in DOMAIN query : u \in MayBid(d, query)}
      bidsOf(d) == [by : {d}, dsp : {credit[d]}, price : BidPrices(s, u)]
  IN  UNION {Choices({bidsOf(d) : d \in ds}) : ds \in SUBSET bidders \ {{}}}

\* What the winner has in the response: a creative that cannot be parsed is shown
\* as an empty ad.  Saxmob has checked the markup before the auction.
Shown(win) == {<<win.dsp>>} \cup
              (IF win.by \in Stray /\ client # "saxmob" THEN {<<"blank">>} ELSE {})

\* fillAdCreativeListForDsp: the video player appends to what the unit has, the
\* others replace it.
Fill(old, new) == IF client = "video" THEN old \o new ELSE new

NoSale == [bids |-> {}, win |-> <<>>, show |-> <<>>]

Outcomes(s, u, query, credit) ==
  {NoSale} \cup
  UNION {UNION {{[bids |-> bids, win |-> win, show |-> show] : show \in Shown(win)} :
                  win \in Winners(bids, GetFloorPrice(s, u))} :
           bids \in BidSets(s, u, query, credit)}

\* What may come of an auction, unit by unit.
Results(s, query, credit) ==
  Selections([u \in {v \in Units : s = "preDeal" \/ Priced(v)} |-> Outcomes(s, u, query, credit)])

Sold(out) == {u \in DOMAIN out : out[u] # NoSale}
Sales(s, out) == {[auction |-> s, unit |-> u, bids |-> out[u].bids, win |-> out[u].win] :
                    u \in Sold(out)}

\* handleBidRsp.
HandleBidRsp(s, query, credit) ==
  \E out \in Results(s, query, credit) :
    /\ content' = [u \in Units |-> IF u \in Sold(out) THEN Fill(content[u], out[u].show)
                                   ELSE content[u]]
    /\ pend' = pend \ Sold(out)
    /\ book' = book \cup Sales(s, out)

\* It raises an error.  Bids are refused before anything is sold, but the creative of
\* a mobile winner may be looked at when other units are already sold.
HandleBidRspRaises(s, query, credit) ==
  /\ Raises(s, query)
  /\ \/ UNCHANGED book
     \/ /\ client = "mobile"
        /\ \E out \in Results(s, query, credit) : book' = book \cup Sales(s, out)
  /\ UNCHANGED <<pend, content>>

\* An auction among the DSPs of query, if there are any; next is the stage after.
LaunchRtb(s, query, credit, next) ==
  /\ asked' = DOMAIN query
  /\ \/ /\ DOMAIN query = {}
        /\ stage' = next
        /\ UNCHANGED <<pend, content, book>>
     \/ /\ DOMAIN query # {}
        /\ stage' = next
        /\ HandleBidRsp(s, query, credit)
     \/ /\ stage' = "failed"
        /\ HandleBidRspRaises(s, query, credit)
  /\ UNCHANGED <<client, status, hostless, live, pd, uncounted>>

Itself(ds) == [d \in ds |-> d]

\* getDspPdAdList, getPdBidList: checkDspQps may drop any of the DSPs.
PreferredDeal ==
  /\ stage = "preDeal"
  /\ \E kept \in SUBSET {d \in Dsps : pd[d] # {}} :
       LaunchRtb("preDeal", [d \in kept |-> pd[d]], Itself(kept), "open")

\* Mutants: all the units that passed the checks, filled or not; all the units
\* of the request.
AllLive(d) == {u \in live : d \in WhiteList[u]}

AllRequested(d) == {u \in Units : d \in WhiteList[u]}

\* getDspAdList, getOaBidList: the pending units that DSP d is asked for.
GetOaBidList(d) == {u \in pend : d \in WhiteList[u]}

OpenAuction ==
  /\ stage = "open"
  /\ client # "saxmob"
  /\ \E kept \in SUBSET {d \in Dsps : GetOaBidList(d) # {}} :
       LaunchRtb("open", [d \in kept |-> GetOaBidList(d)], Itself(kept), "bottom")

\* The place of d among ds, which are in the order of DspList.
Rank(d, ds) == Cardinality({e \in ds : Place(DspList, e) <= Place(DspList, d)})

\* Mutant: answers are looked up in the list that was not yet checked for qps.
CreditInWhiteList(bidList, reqs) ==
  [d \in reqs |-> CHOOSE e \in Dsps : Rank(e, Dsps) = Rank(d, reqs)]

\* extract_ad_bid: the i-th answer counts as that of the i-th DSP of the bid list,
\* although build_bid_req has sent it to the i-th that has a host.
Credit(bidList, reqs) ==
  [d \in reqs |-> CHOOSE e \in bidList : Rank(e, bidList) = Rank(d, reqs)]

\* launch_rtb_for_dsp of saxmob: the valid DSPs of the list that check_dsp_qps
\* keeps, each asked for all pending units.
SaxmobAuction ==
  /\ stage = "open"
  /\ client = "saxmob"
  /\ \E bidList \in SUBSET Dsps :
       LET reqs == IF pend = {} THEN {} ELSE bidList \ hostless
       IN  LaunchRtb("open", [d \in reqs |-> pend], Credit(bidList, reqs), "bottom")

\* checkDspQps looks at the count of d before it asks anybody.
QpsChecked(d) ==
  \/ stage = "preDeal" /\ pd[d] # {}
  \/ stage = "open" /\ IF client = "saxmob" THEN pend # {} ELSE GetOaBidList(d) # {}

\* It compares the count of a DSP for which getQpsInfoList has none (what may happen
\* is in module QpsWorker), and the error ends the request.
CheckDspQpsRaises ==
  /\ \E d \in Dsps : QpsChecked(d) /\ uncounted' = {d}
  /\ stage' = "failed"
  /\ asked' = {}
  /\ UNCHANGED <<client, status, hostless, live, pend, content, pd, book>>

-----------------------------------------------------------------------------
\* fillBottomAd of mobile.lua: one of the bottom ads.  Then the response is sent.
FillBottomAd ==
  /\ stage = "bottom"
  /\ stage' = "done"
  /\ LET filled == IF client = "mobile" THEN pend \cap BottomUnits ELSE {}
     IN  content' = [u \in Units |-> IF u \in filled THEN <<"bottom">> ELSE content[u]]
  /\ UNCHANGED <<client, status, hostless, live, pend, pd, asked, uncounted, book>>

Next == \/ QuerySina \/ SinaFails \/ PreferredDeal \/ OpenAuction \/ SaxmobAuction
        \/ CheckDspQpsRaises \/ FillBottomAd

Spec == Init /\ [][Next]_vars

-----------------------------------------------------------------------------
(* Properties *)

StrayWon(u) == \E a \in book : a.unit = u /\ a.win.by \in Stray

\* Until the response is built the pending units are those that passed the checks of
\* getAdData and for which nothing was found, though the engine names deals that may
\* come to nothing, and a stray DSP may buy units that are no longer pending
\* (video.lua:298-333, mobile_rtb.lua:110-139, 598-616).
PendingIffEmpty ==
  stage \in {"preDeal", "open", "bottom"} => pend = {u \in live : content[u] = <<>>}

\* In the response a unit shows what was sold for it and nothing else, unless a
\* stray DSP has won it: that one is shown in addition, or instead of the source
\* that has it already, or as an empty ad (video_rtb.lua:612-630,
\* mobile_rtb.lua:559-571, saxmob/rtb/rtb.lua:467-492).
SoldIsShown ==
  stage = "done" =>
    \A u \in Units : \/ StrayWon(u)
                     \/ /\ Len(content[u]) <= 1
                        /\ \A a \in book : a.unit = u => content[u] = <<a.win.dsp>>

\* The winner has bid highest, pays at least the lowest price, more than everyone
\* who bid less, and less than one above its own bid; nothing for a video deal
\* (video_rtb.lua:321-366, mobile_rtb.lua:441-480, saxmob/rtb/rtb.lua:365-405).
PricesFair ==
  \A a \in book :
    LET own == CHOOSE x \in a.bids : x.by = a.win.by
    IN  /\ Fair(a.bids, own, a.win.price, GetFloorPrice(a.auction, a.unit))
        /\ client = "video" /\ a.auction = "preDeal" => a.win.price = 0

\* The price is encrypted for the DSP that has bid, and the log names it, unless a
\* DSP listed before it has a bid url without a host: then saxmob credits the bid
\* to another DSP (saxmob/rtb/rtb.lua:116-147, 294-329).
CreditedToBidder ==
  \A a \in book :
    \/ a.win.dsp = a.win.by
    \/ \E d \in hostless : Place(DspList, d) < Place(DspList, a.win.by)

\* A request fails as a whole, with what was sold in it already, only in an auction
\* that a stray DSP was asked in, as the units asked for all have a price; or before
\* an auction, for want of the count of a DSP that would have been asked for one of
\* the units still pending (video_rtb.lua:260-262, mobile_rtb.lua:153-162,
\* saxmob/rtb/rtb.lua:306; video.lua:198, mobile.lua:108, saxmob/rtb/impress.lua:168).
FailsOnlyForCause ==
  stage = "failed" =>
    \/ asked \cap Stray # {}
    \/ \E d \in uncounted, u \in pend :
         client = "saxmob" \/ d \in PdWhiteList[u] \cup WhiteList[u]
=============================================================================
