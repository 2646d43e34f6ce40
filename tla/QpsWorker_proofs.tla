--------------------------- MODULE QpsWorker_proofs ---------------------------
(***************************************************************************)
(* The qps counters, for any number of processes, any limits and any       *)
(* number of requests.                                                     *)
(***************************************************************************)
EXTENDS QpsWorker, FiniteSetTheorems, TLAPS

\* Limits come from the center or are absent.
LimitKnown == dict["limit"] \in Limits \cup {Nil}

\* Process p has drawn a number from the count key and not yet used it.
Holds(p) == pc[p] \in {"total", "decide"} /\ info[p].count # Nil

\* The number t was drawn in window w: it has been given out, by the present
\* count key if that is the window's, and never again.
Drawn(w, t) == /\ t \in Nat \ {0}
               /\ w <= window
               /\ w = window /\ dict["count"] # Nil => t <= dict["count"]

\* No request has kept the DSP in with number t of window w.
Unused(w, t) ==
  \A i \in DOMAIN granted : granted[i].window = w => granted[i].ticket # t

\* Numbers in hand and numbers used were drawn, all of them distinct.
TicketsInHand ==
  \A p \in Procs : Holds(p) =>
    /\ Drawn(stamp[p], info[p].count)
    /\ Unused(stamp[p], info[p].count)

TicketsUsed ==
  \A i \in DOMAIN granted :
    /\ Drawn(granted[i].window, granted[i].ticket)
    /\ granted[i].ticket <= granted[i].limit
    /\ \A j \in DOMAIN granted : /\ granted[i].window = granted[j].window
                                 /\ granted[i].ticket = granted[j].ticket
                                 => i = j

TicketInv == TicketsInHand /\ TicketsDistinct /\ TicketsUsed

TInv == TypeOK /\ LimitKnown

-----------------------------------------------------------------------------
(* Types *)

LEMMA InitTypes == Init => TInv
BY LimitsAssumption, NilAssumption DEF Init, TInv, TypeOK, LimitKnown, Keys, Count, NoInfo

LEMMA GrantTyped ==
  ASSUME TypeOK, NEW i \in DOMAIN granted
  PROVE  granted[i].window \in Nat /\ granted[i].ticket \in Nat /\ granted[i].limit \in Limits
<1>1. granted \in Seq(Grants)
  BY DEF TypeOK
<1>2. granted[i] \in Grants
  BY <1>1
<1> QED BY <1>2 DEF Grants

LEMMA ReturnTypes ==
  ASSUME TypeOK, NEW p \in Procs, NEW k \in {"count", "total"}, NEW v \in Count,
         window' \in Nat, dict' \in [Keys -> Count], Return(p, k, v)
  PROVE  TypeOK'
<1>0. granted' \in Seq(Grants) /\ bids' \in Nat
  BY DEF Return, TypeOK
<1>1. CASE k = "count"
  <2>1. info' \in [Procs -> [limit : Limits \cup {0}, count : Count]]
    <3>1. info' = [info EXCEPT ![p] = [limit |-> info[p].limit, count |-> v]]
      BY <1>1 DEF Return, TypeOK
    <3> QED BY <3>1 DEF TypeOK
  <2>2. stamp' \in [Procs -> Nat] /\ counted' \in Nat
    BY <1>1 DEF Return, TypeOK
  <2> QED BY <1>0, <1>1, <2>1, <2>2 DEF Return, TypeOK
<1>2. CASE k = "total"
  <2>1. counted' \in Nat
    BY <1>2 DEF Return, TypeOK
  <2> QED BY <1>0, <1>2, <2>1 DEF Return, TypeOK
<1> QED BY <1>1, <1>2

LEMMA StepTypes == TInv /\ [Next]_vars => TInv'
<1> SUFFICES ASSUME TInv, [Next]_vars PROVE TInv'
  OBVIOUS
<1> USE DEF TInv
<1>0. 0 \in Count /\ 1 \in Count /\ Nil \in Count /\ Limits \subseteq Count
  BY LimitsAssumption DEF Count
<1>a. ASSUME NEW k \in Keys, dict[k] # Nil PROVE dict[k] \in Nat /\ dict[k] + 1 \in Count
  BY <1>a DEF TypeOK, Count
<1>1. ASSUME NEW p \in Procs, ReadLimit(p) PROVE TInv'
  <2>1. OrZero(dict["limit"]) \in Limits \cup {0}
    BY DEF LimitKnown, OrZero
  <2> QED BY <1>1, <1>0, <2>1 DEF ReadLimit, TypeOK, LimitKnown
<1>2. ASSUME NEW p \in Procs, NEW k \in {"count", "total"}, Increment(p, k) PROVE TInv'
  <2>1. dict' \in [Keys -> Count] /\ window' \in Nat
    BY <1>2, <1>a DEF Increment, TypeOK, Keys
  <2>2. TypeOK'
    BY <1>2, <1>a, <2>1, ReturnTypes DEF Increment, Keys
  <2> QED BY <1>2, <2>2 DEF Increment, LimitKnown
<1>3. ASSUME NEW p \in Procs, NEW k \in {"count", "total"}, IncrDict(p, k) PROVE TInv'
  <2>1. CASE Increment(p, k)
    BY <1>2, <2>1
  <2>2. CASE ~Increment(p, k)
    BY <1>3, <2>2 DEF IncrDict, TypeOK, LimitKnown
  <2> QED BY <2>1, <2>2
<1>4. ASSUME NEW p \in Procs, NEW k \in {"count", "total"}, AddDict(p, k) PROVE TInv'
  <2>1. CASE Return(p, k, 1) /\ dict' = [dict EXCEPT ![k] = 1]
             /\ window' = IF k = "count" THEN window + 1 ELSE window
    <3>1. dict' \in [Keys -> Count] /\ window' \in Nat
      BY <2>1, <1>0 DEF TypeOK, Keys
    <3>2. TypeOK'
      BY <2>1, <3>1, <1>0, ReturnTypes
    <3> QED BY <2>1, <3>2 DEF LimitKnown
  <2>2. CASE /\ at' = [at EXCEPT ![p] = "retry"]
             /\ dict' = dict \/ dict' = [dict EXCEPT ![k] = Nil]
             /\ UNCHANGED <<pc, info, bids, window, stamp, granted, counted>>
    BY <2>2, <1>0 DEF TypeOK, Keys, LimitKnown
  <2> QED BY <1>4, <2>1, <2>2 DEF AddDict
<1>5. ASSUME NEW p \in Procs, NEW k \in {"count", "total"}, RetryDict(p, k) PROVE TInv'
  <2>1. CASE Increment(p, k)
    BY <1>2, <2>1
  <2>2. CASE UNCHANGED <<dict, window>> /\ Return(p, k, Nil)
    <3>1. TypeOK'
      BY <2>2, <1>0, ReturnTypes DEF TypeOK
    <3> QED BY <2>2, <3>1 DEF LimitKnown
  <2> QED BY <1>5, <2>1, <2>2 DEF RetryDict
<1>6. ASSUME NEW p \in Procs, CheckDspQps(p) PROVE TInv'
  <2>1. info[p].limit \in Limits \cup {0} /\ info[p].count \in Count /\ stamp[p] \in Nat
    BY DEF TypeOK
  <2>2. granted' \in Seq(Grants)
    <3>1. CASE info[p].limit <= 0 \/ info[p].count = Nil \/ info[p].count > info[p].limit
      BY <1>6, <3>1 DEF CheckDspQps, TypeOK
    <3>2. CASE ~(info[p].limit <= 0 \/ info[p].count = Nil \/ info[p].count > info[p].limit)
      <4>1. info[p].limit \in Limits /\ info[p].count \in Nat
        BY <2>1, <3>2, LimitsAssumption DEF Count
      <4>2. [window |-> stamp[p], ticket |-> info[p].count, limit |-> info[p].limit] \in Grants
        BY <2>1, <4>1 DEF Grants
      <4>3. granted \in Seq(Grants)
        BY DEF TypeOK
      <4> QED BY <1>6, <3>2, <4>2, <4>3 DEF CheckDspQps
    <3> QED BY <3>1, <3>2
  <2> QED BY <1>6, <1>0, <2>2 DEF CheckDspQps, TypeOK, LimitKnown, NoInfo
<1>7. ASSUME NEW p \in Procs, SetQpsLimit(p) PROVE TInv'
  <2>1. CASE SetLimit(p)
    BY <2>1, <1>0 DEF SetLimit, TypeOK, LimitKnown, Keys
  <2>2. CASE ResetTotal(p)
    BY <2>2, <1>0 DEF ResetTotal, TypeOK, LimitKnown, Keys
  <2>3. CASE ResetCount(p)
    BY <2>3, <1>0 DEF ResetCount, TypeOK, LimitKnown, Keys
  <2> QED BY <1>7, <2>1, <2>2, <2>3 DEF SetQpsLimit
<1>8. ASSUME NEW k \in Keys, Drop(k) PROVE TInv'
  BY <1>8, <1>0 DEF Drop, TypeOK, LimitKnown
<1>9. CASE FlushAll
  BY <1>9, <1>0 DEF FlushAll, TypeOK, LimitKnown, Keys
<1>10. CASE UNCHANGED vars
  BY <1>10 DEF vars, TypeOK, LimitKnown
<1> QED
  BY <1>1, <1>3, <1>4, <1>5, <1>6, <1>7, <1>8, <1>9, <1>10 DEF Next, GetQpsInfoList

LEMMA TypesAlways == Spec => []TInv
BY InitTypes, StepTypes, PTL DEF Spec

\* Every variable has its type, for any number of processes (dsp.lua:133-138).
THEOREM CountersTyped == Spec => []TypeOK
BY TypesAlways, PTL DEF TInv
-----------------------------------------------------------------------------
(* The total *)

LEMMA TotalStep == TInv /\ TotalExact /\ [Next]_vars => TotalExact'
<1> SUFFICES ASSUME TInv, TotalExact, [Next]_vars PROVE TotalExact'
  OBVIOUS
<1> USE NilAssumption DEF TInv, TotalExact, OrZero
<1>0. dict \in [Keys -> Count] /\ counted \in Nat /\ "total" \in Keys /\ "count" \in Keys
  BY DEF TypeOK, Keys
<1>a. dict["total"] = Nil \/ dict["total"] \in Nat
  BY <1>0 DEF Count
<1>1. ASSUME NEW p \in Procs, ReadLimit(p) \/ CheckDspQps(p) \/ SetLimit(p) PROVE TotalExact'
  BY <1>1, <1>0 DEF ReadLimit, CheckDspQps, SetLimit
<1>2. ASSUME NEW p \in Procs, NEW k \in {"count", "total"}, Increment(p, k) PROVE TotalExact'
  BY <1>2, <1>0, <1>a DEF Increment, Return
<1>3. ASSUME NEW p \in Procs, NEW k \in {"count", "total"}, IncrDict(p, k) PROVE TotalExact'
  BY <1>2, <1>3 DEF IncrDict
<1>4. ASSUME NEW p \in Procs, NEW k \in {"count", "total"}, AddDict(p, k) PROVE TotalExact'
  BY <1>4, <1>0, <1>a DEF AddDict, Return, Unseen
<1>5. ASSUME NEW p \in Procs, NEW k \in {"count", "total"}, RetryDict(p, k) PROVE TotalExact'
  BY <1>2, <1>5 DEF RetryDict, Return
<1>6. ASSUME NEW p \in Procs, ResetTotal(p) \/ ResetCount(p) PROVE TotalExact'
  BY <1>6, <1>0 DEF ResetTotal, ResetCount
<1>7. ASSUME NEW k \in Keys, Drop(k) PROVE TotalExact'
  BY <1>7, <1>0 DEF Drop
<1>8. CASE FlushAll
  BY <1>8, <1>0 DEF FlushAll
<1>9. CASE UNCHANGED vars
  BY <1>9 DEF vars
<1> QED
  BY <1>1, <1>3, <1>4, <1>5, <1>6, <1>7, <1>8, <1>9 DEF Next, GetQpsInfoList, SetQpsLimit

\* The traffic reported to the center is the number of requests counted since the
\* last reset, however many processes count at the same time (dsp.lua:144-145).
THEOREM TotalCounted == Spec => []TotalExact
<1>1. Init => TotalExact
  BY NilAssumption DEF Init, TotalExact, OrZero, Keys
<1> QED BY <1>1, TotalStep, TypesAlways, PTL DEF Spec

-----------------------------------------------------------------------------
(* The numbers drawn from the count key *)

\* A step in which nobody draws a number or uses one.
LEMMA NothingDrawn ==
  ASSUME TypeOK, TypeOK', TicketInv,
         \/ window' > window
         \/ /\ window' = window
            /\ \/ dict'["count"] = Nil
               \/ dict["count"] # Nil /\ dict'["count"] >= dict["count"],
         granted' = granted,
         \A p \in Procs : Holds(p)' => /\ Holds(p)
                                       /\ info'[p].count = info[p].count
                                       /\ stamp'[p] = stamp[p]
  PROVE  TicketInv'
<1>0. /\ window \in Nat /\ window' \in Nat
      /\ dict["count"] \in Count /\ dict'["count"] \in Count
  BY DEF TypeOK, Keys
<1>1. TicketsUsed'
  <2>1. \A i \in DOMAIN granted : granted[i].window \in Nat /\ granted[i].ticket \in Nat
    BY GrantTyped
  <2> QED BY <1>0, <2>1, NilAssumption DEF TicketInv, TicketsUsed, Drawn, Count
<1>2. TicketsInHand'
  <2> SUFFICES ASSUME NEW p \in Procs, Holds(p)'
               PROVE  /\ Drawn(stamp[p], info[p].count)'
                      /\ Unused(stamp[p], info[p].count)'
    BY DEF TicketsInHand
  <2>1. Holds(p) /\ info'[p].count = info[p].count /\ stamp'[p] = stamp[p]
    OBVIOUS
  <2>2. stamp[p] \in Nat /\ info[p].count \in Nat
    BY <2>1 DEF TypeOK, Holds, Count
  <2>3. /\ Drawn(stamp[p], info[p].count)
        /\ Unused(stamp[p], info[p].count)
    BY <2>1 DEF TicketInv, TicketsInHand
  <2> QED BY <1>0, <2>1, <2>2, <2>3, NilAssumption DEF Drawn, Unused, Count
<1>3. TicketsDistinct'
  BY DEF TicketInv, TicketsDistinct, Holds
<1> QED BY <1>1, <1>2, <1>3 DEF TicketInv

\* A step in which process p draws a number: the next one of the present window, or
\* the first one of a new window.
LEMMA OneDrawn ==
  ASSUME TypeOK, TypeOK', TicketInv, NEW p \in Procs, NEW t \in Nat \ {0},
         Return(p, "count", t), dict'["count"] = t,
         \/ window' = window + 1
         \/ window' = window /\ dict["count"] # Nil /\ t = dict["count"] + 1
  PROVE  TicketInv'
<1>0. /\ window \in Nat /\ window' \in Nat
      /\ dict["count"] \in Count /\ dict'["count"] \in Count
  BY DEF TypeOK, Keys
<1>a. /\ granted' = granted /\ Holds(p)' /\ stamp'[p] = window' /\ info'[p].count = t
      /\ \A q \in Procs \ {p} : /\ stamp'[q] = stamp[q] /\ info'[q] = info[q]
                                /\ pc'[q] = pc[q]
  BY NilAssumption DEF Return, Holds, TypeOK
<1>b. ASSUME NEW w \in Nat, NEW u \in Nat, Drawn(w, u)
      PROVE  Drawn(w, u)' /\ (w = window' => u # t)
  BY <1>0, <1>b, NilAssumption DEF Drawn, Count
<1>c. \A i \in DOMAIN granted :
        /\ granted[i].window \in Nat /\ granted[i].ticket \in Nat
        /\ Drawn(granted[i].window, granted[i].ticket)
        /\ granted[i].ticket <= granted[i].limit
        /\ \A j \in DOMAIN granted : /\ granted[i].window = granted[j].window
                                     /\ granted[i].ticket = granted[j].ticket
                                     => i = j
  BY GrantTyped DEF TicketInv, TicketsUsed
<1>1. TicketsUsed'
  BY <1>a, <1>b, <1>c DEF TicketsUsed
<1>d. ASSUME NEW q \in Procs \ {p}, Holds(q)'
      PROVE  /\ Holds(q)
             /\ stamp[q] \in Nat /\ info[q].count \in Nat
             /\ Drawn(stamp[q], info[q].count)
             /\ Unused(stamp[q], info[q].count)
  <2>1. Holds(q)
    BY <1>a, <1>d DEF Holds
  <2> QED BY <2>1 DEF TicketInv, TicketsInHand, Holds, TypeOK, Count
<1>2. TicketsInHand'
  <2> SUFFICES ASSUME NEW q \in Procs, Holds(q)'
               PROVE  /\ Drawn(stamp[q], info[q].count)'
                      /\ Unused(stamp[q], info[q].count)'
    BY <1>a DEF TicketsInHand
  <2>1. CASE q = p
    <3>1. Drawn(stamp[q], info[q].count)'
      BY <1>0, <1>a, <2>1, NilAssumption DEF Drawn
    <3> QED BY <1>a, <1>b, <1>c, <2>1, <3>1 DEF Unused
  <2>2. CASE q # p
    <3>1. Drawn(stamp[q], info[q].count)'
      BY <1>0, <1>a, <1>d, <2>2, NilAssumption DEF Drawn, Count
    <3> QED BY <1>a, <1>d, <2>2, <3>1 DEF Unused
  <2> QED BY <2>1, <2>2
<1>3. TicketsDistinct'
  <2> SUFFICES ASSUME NEW q \in Procs, NEW r \in Procs, q # r, Holds(q)', Holds(r)',
                      stamp'[q] = stamp'[r]
               PROVE  info'[q].count # info'[r].count
    BY NilAssumption DEF TicketsDistinct, Holds
  <2>1. ASSUME NEW x \in Procs \ {p}, Holds(x)', stamp'[x] = window' PROVE info'[x].count # t
    BY <1>a, <1>b, <1>d, <2>1
  <2>2. CASE q # p /\ r # p
    BY <1>a, <1>d, <2>2 DEF TicketInv, TicketsDistinct, Holds
  <2> QED BY <1>a, <2>1, <2>2
<1> QED BY <1>1, <1>2, <1>3 DEF TicketInv

\* incr on either key draws a number, or leaves all numbers as they are.
LEMMA IncrDraws ==
  ASSUME TInv, TInv', TicketInv, NEW p \in Procs, NEW k \in {"count", "total"},
         IncrDict(p, k) \/ AddDict(p, k) \/ RetryDict(p, k)
  PROVE  TicketInv'
<1>0. /\ TypeOK /\ TypeOK'
      /\ dict \in [Keys -> Count] /\ "count" \in Keys /\ "total" \in Keys
      /\ window \in Nat /\ pc[p] = k
  BY DEF TInv, TypeOK, Keys, IncrDict, AddDict, RetryDict
<1>a. ASSUME NEW v \in Count, Return(p, k, v), window' = window, dict' = dict, v = Nil
      PROVE  TicketInv'
  <2>1. CASE k = "count"
    <3>1. \A q \in Procs : Holds(q)' => /\ Holds(q) /\ info'[q].count = info[q].count
                                        /\ stamp'[q] = stamp[q]
      BY <1>a, <2>1, <1>0 DEF Return, Holds, TypeOK
    <3> QED BY <1>0, <1>a, <3>1, NothingDrawn, NilAssumption DEF Return, Count
  <2>2. CASE k = "total"
    <3>1. \A q \in Procs : Holds(q)' => /\ Holds(q) /\ info'[q].count = info[q].count
                                        /\ stamp'[q] = stamp[q]
      BY <1>a, <2>2, <1>0 DEF Return, Holds, TypeOK
    <3> QED BY <1>0, <1>a, <3>1, NothingDrawn, NilAssumption DEF Return, Count
  <2> QED BY <2>1, <2>2
<1>b. ASSUME k = "total", window' = window, dict'["count"] = dict["count"],
             NEW v, Return(p, k, v)
      PROVE  TicketInv'
  <2>1. \A q \in Procs : Holds(q)' => /\ Holds(q) /\ info'[q].count = info[q].count
                                      /\ stamp'[q] = stamp[q]
    BY <1>b, <1>0 DEF Return, Holds, TypeOK
  <2>2. granted' = granted /\ (dict["count"] = Nil \/ dict["count"] \in Nat)
    BY <1>b, <1>0 DEF Return, Count
  <2> QED BY <1>0, <1>b, <2>1, <2>2, NothingDrawn
<1>c. ASSUME UNCHANGED <<pc, info, window, stamp, granted>>,
             dict'["count"] = dict["count"] \/ dict'["count"] = Nil
      PROVE  TicketInv'
  <2>1. \A q \in Procs : Holds(q)' => /\ Holds(q) /\ info'[q].count = info[q].count
                                      /\ stamp'[q] = stamp[q]
    BY <1>c DEF Holds
  <2>2. dict["count"] = Nil \/ dict["count"] \in Nat
    BY <1>0 DEF Count
  <2> QED BY <1>0, <1>c, <2>1, <2>2, NothingDrawn
<1>1. CASE Increment(p, k)
  <2>1. CASE k = "count"
    <3>1. dict["count"] \in Nat /\ dict'["count"] = dict["count"] + 1
      BY <1>0, <1>1, <2>1 DEF Increment, Count
    <3> QED BY <1>0, <1>1, <2>1, <3>1, OneDrawn DEF Increment
  <2>2. CASE k = "total"
    BY <1>0, <1>1, <1>b, <2>2 DEF Increment
  <2> QED BY <2>1, <2>2
<1>2. CASE IncrDict(p, k)
  BY <1>1, <1>2, <1>c DEF IncrDict
<1>3. CASE RetryDict(p, k)
  <2>1. Nil \in Count
    BY DEF Count
  <2> QED BY <1>1, <1>3, <1>a, <2>1 DEF RetryDict
<1>4. CASE AddDict(p, k)
  <2>1. CASE /\ Return(p, k, 1) /\ dict' = [dict EXCEPT ![k] = 1]
             /\ window' = IF k = "count" THEN window + 1 ELSE window
    <3>1. CASE k = "count"
      <4>1. dict'["count"] = 1 /\ window' = window + 1
        BY <1>0, <2>1, <3>1
      <4> QED BY <1>0, <2>1, <3>1, <4>1, OneDrawn
    <3>2. CASE k = "total"
      BY <1>0, <2>1, <1>b, <3>2
    <3> QED BY <3>1, <3>2
  <2>2. CASE /\ dict' = dict \/ dict' = [dict EXCEPT ![k] = Nil]
             /\ UNCHANGED <<pc, info, bids, window, stamp, granted, counted>>
    BY <1>0, <1>c, <2>2
  <2> QED BY <1>4, <2>1, <2>2 DEF AddDict
<1> QED BY <1>2, <1>3, <1>4

\* checkDspQps uses the number in hand, at most once.
LEMMA CheckUses ==
  ASSUME TInv, TInv', TicketInv, NEW p \in Procs, CheckDspQps(p)
  PROVE  TicketInv'
<1>0. /\ TypeOK /\ window' = window /\ dict' = dict
      /\ ~Holds(p)'
      /\ \A q \in Procs \ {p} : info'[q] = info[q] /\ stamp'[q] = stamp[q] /\ pc'[q] = pc[q]
  BY DEF CheckDspQps, TInv, TypeOK, Holds
<1>1. CASE granted' = granted
  <2>1. \A q \in Procs : Holds(q)' => /\ Holds(q) /\ info'[q].count = info[q].count
                                      /\ stamp'[q] = stamp[q]
    BY <1>0 DEF Holds
  <2>2. dict["count"] = Nil \/ dict["count"] \in Nat
    BY <1>0 DEF TypeOK, Count, Keys
  <2> QED BY <1>0, <1>1, <2>1, <2>2, NothingDrawn DEF TInv
<1>2. CASE granted' # granted
  <2> DEFINE new == [window |-> stamp[p], ticket |-> info[p].count, limit |-> info[p].limit]
  <2>1. granted' = Append(granted, new) /\ Holds(p) /\ ~(info[p].count > info[p].limit)
    BY <1>2 DEF CheckDspQps, Holds
  <2>2. /\ stamp[p] \in Nat /\ info[p].count \in Nat /\ info[p].limit \in Limits
        /\ info[p].limit \in Nat
        /\ new.window = stamp[p] /\ new.ticket = info[p].count /\ new.limit = info[p].limit
    <3>1. stamp[p] \in Nat /\ info[p].limit \in Limits \cup {0} /\ info[p].count \in Count
      BY DEF TInv, TypeOK
    <3>2. info[p].limit \in Limits
      BY <1>2, <3>1 DEF CheckDspQps
    <3> QED BY <2>1, <3>1, <3>2, LimitsAssumption DEF Holds, Count
  <2>3. /\ Drawn(new.window, new.ticket)
        /\ new.ticket <= new.limit
        /\ Unused(new.window, new.ticket)
    BY <2>1, <2>2 DEF TicketInv, TicketsInHand
  <2>a. new \in Grants
    BY <2>2 DEF Grants
  <2> HIDE DEF new
  <2>b. /\ DOMAIN granted' = DOMAIN granted \cup {Len(granted) + 1}
        /\ Len(granted) + 1 \notin DOMAIN granted
        /\ granted'[Len(granted) + 1] = new
        /\ \A i \in DOMAIN granted : granted'[i] = granted[i]
    <3>1. granted \in Seq(Grants)
      BY <1>0 DEF TypeOK
    <3> QED BY <2>1, <2>a, <3>1
  <2>4. TicketsUsed'
    <3>1. \A i \in DOMAIN granted' : /\ Drawn(granted'[i].window, granted'[i].ticket)
                                     /\ granted'[i].ticket <= granted'[i].limit
      BY <2>b, <2>3 DEF TicketInv, TicketsUsed
    <3>2. \A i, j \in DOMAIN granted' : /\ granted'[i].window = granted'[j].window
                                        /\ granted'[i].ticket = granted'[j].ticket
                                        => i = j
      BY <2>b, <2>3 DEF TicketInv, TicketsUsed, Unused
    <3> QED BY <1>0, <3>1, <3>2 DEF TicketsUsed, Drawn
  <2>5. TicketsInHand'
    <3> SUFFICES ASSUME NEW q \in Procs, Holds(q)'
                 PROVE  /\ Drawn(stamp[q], info[q].count)'
                        /\ Unused(stamp[q], info[q].count)'
      BY DEF TicketsInHand
    <3>1. q # p /\ Holds(q) /\ info'[q] = info[q] /\ stamp'[q] = stamp[q]
      BY <1>0 DEF Holds
    <3>2. Drawn(stamp[q], info[q].count)'
      BY <1>0, <3>1 DEF TicketInv, TicketsInHand, Drawn
    <3>3. stamp[q] = stamp[p] => info[q].count # info[p].count
      BY <2>1, <3>1 DEF TicketInv, TicketsDistinct, Holds
    <3>4. Unused(stamp[q], info[q].count)
      BY <3>1 DEF TicketInv, TicketsInHand
    <3> QED BY <2>b, <2>2, <3>1, <3>2, <3>3, <3>4 DEF Unused
  <2>6. TicketsDistinct'
    BY <1>0 DEF TicketInv, TicketsDistinct, Holds
  <2> QED BY <2>4, <2>5, <2>6 DEF TicketInv
<1> QED BY <1>1, <1>2

LEMMA TicketStep == TInv /\ TInv' /\ TicketInv /\ [Next]_vars => TicketInv'
<1> SUFFICES ASSUME TInv, TInv', TicketInv, [Next]_vars PROVE TicketInv'
  OBVIOUS
<1>0. /\ TypeOK /\ TypeOK' /\ window \in Nat
      /\ dict \in [Keys -> Count] /\ "count" \in Keys
      /\ dict["count"] = Nil \/ dict["count"] \in Nat
  BY DEF TInv, TypeOK, Keys, Count
<1>a. ASSUME granted' = granted,
             \A q \in Procs : Holds(q)' => /\ Holds(q) /\ info'[q].count = info[q].count
                                           /\ stamp'[q] = stamp[q],
             \/ window' = window + 1
             \/ window' = window /\ (dict'["count"] = Nil \/ dict'["count"] = dict["count"])
      PROVE  TicketInv'
  BY <1>0, <1>a, NothingDrawn
<1>1. ASSUME NEW p \in Procs, ReadLimit(p) PROVE TicketInv'
  BY <1>1, <1>a, <1>0 DEF ReadLimit, Holds, TypeOK
<1>2. ASSUME NEW p \in Procs, SetLimit(p) \/ ResetTotal(p) \/ ResetCount(p) PROVE TicketInv'
  <2>1. \A q \in Procs : Holds(q)' => /\ Holds(q) /\ info'[q].count = info[q].count
                                      /\ stamp'[q] = stamp[q]
    BY <1>2, <1>0 DEF SetLimit, ResetTotal, ResetCount, Holds, TypeOK
  <2>2. \/ window' = window + 1
        \/ window' = window /\ dict'["count"] = dict["count"]
    BY <1>2, <1>0 DEF SetLimit, ResetTotal, ResetCount
  <2> QED BY <1>2, <1>a, <2>1, <2>2 DEF SetLimit, ResetTotal, ResetCount
<1>3. ASSUME NEW k \in Keys, Drop(k) PROVE TicketInv'
  BY <1>3, <1>a, <1>0 DEF Drop, Holds
<1>4. CASE FlushAll
  BY <1>4, <1>a, <1>0 DEF FlushAll, Holds
<1>5. CASE UNCHANGED vars
  BY <1>5, <1>a, <1>0 DEF vars, Holds
<1> QED
  BY <1>1, <1>2, <1>3, <1>4, <1>5, IncrDraws, CheckUses
  DEF Next, GetQpsInfoList, SetQpsLimit

\* The inductive invariant: the numbers that processes have in hand and those that
\* have kept the DSP in were drawn from the count key, each once.
THEOREM TicketsOnce == Spec => []TicketInv
<1>1. Init => TicketInv
  BY DEF Init, TicketInv, TicketsInHand, TicketsDistinct, TicketsUsed, Holds, NoInfo
<1> QED BY <1>1, TicketStep, TypesAlways, PTL DEF Spec

\* No two ad requests draw the same number from one count key (dsp.lua:112-123).
THEOREM TicketsNeverShared == Spec => []TicketsDistinct
BY TicketsOnce, PTL DEF TicketInv

\* Distinct numbers of one window up to a limit are at most as many as the limit.
LEMMA CapFromTickets == TypeOK /\ TicketsUsed => WindowCap
<1> SUFFICES ASSUME TypeOK, TicketsUsed, NEW w \in 0 .. window, NEW m \in Limits,
                    \A i \in {j \in DOMAIN granted : granted[j].window = w} :
                      granted[i].limit <= m
             PROVE  Cardinality({i \in DOMAIN granted : granted[i].window = w}) <= m
  BY DEF WindowCap
<1> DEFINE inWindow == {i \in DOMAIN granted : granted[i].window = w}
           number == [i \in inWindow |-> granted[i].ticket]
<1>1. m \in Nat
  BY LimitsAssumption
<1>2. \A i \in inWindow : granted[i].ticket \in 1 .. m
  <2> SUFFICES ASSUME NEW i \in inWindow PROVE granted[i].ticket \in 1 .. m
    OBVIOUS
  <2>1. /\ granted[i].ticket \in Nat \ {0} /\ granted[i].ticket <= granted[i].limit
        /\ granted[i].limit <= m /\ granted[i].limit \in Nat
    BY GrantTyped, LimitsAssumption DEF TicketsUsed, Drawn
  <2> QED BY <1>1, <2>1
<1>3. number \in Injection(inWindow, 1 .. m)
  BY <1>2 DEF Injection, IsInjective, TicketsUsed
<1>4. IsFiniteSet(1 .. m) /\ Cardinality(1 .. m) = m
  BY <1>1, FS_Interval
<1> QED BY <1>3, <1>4, FS_Injection

\* While one count key lives, the DSP is kept for at most as many ad requests as the
\* largest limit any of them has read, for any number of processes
\* (dsp.lua:109-149, impress.lua:178-188).
THEOREM WindowNeverExceeded == Spec => []WindowCap
BY TicketsOnce, TypesAlways, CapFromTickets, PTL DEF TicketInv, TInv
=============================================================================
