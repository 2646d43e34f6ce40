------------------------------ MODULE QpsWorker ------------------------------
(***************************************************************************)
(* The qps counters of one DSP on one sax worker: dsp.lua getQpsInfoList   *)
(* and setQpsLimit, with the decision of impress.lua checkDspQps.          *)
(*                                                                         *)
(* A sax worker is a host whose nginx processes share the dict             *)
(* ngx.shared.sax, of which no more is assumed than LossyDict promises.    *)
(* Each dict operation is atomic; between two of them another process may  *)
(* run, the counter may expire, and the dict may evict the least recently  *)
(* used keys or be flushed by /sax/initobject.                             *)
(***************************************************************************)
EXTENDS Integers, Sequences, FiniteSets

CONSTANTS Procs,      \* nginx processes of the host
          Limits,     \* limits the center may send
          Nil,        \* what the dict returns for an absent key
          MaxBids,    \* bound: ad requests of a behaviour
          MaxWindows  \* bound: windows after which no new limit is set

ASSUME LimitsAssumption == Limits \subseteq Nat
ASSUME NilAssumption == Nil \notin Int
ASSUME BoundsAssumption == MaxBids \in Nat /\ MaxWindows \in Nat

VARIABLES dict,     \* the DSP's keys in ngx.shared.sax
          pc,       \* pc[p]: the key process p works on next
          at,       \* at[p]: where p stands in the local function incr
          info,     \* info[p]: the entry {limit, count} getQpsInfoList builds
          bids,     \* number of ad requests so far
          window,   \* number of times the count key was created (history)
          stamp,    \* stamp[p]: the window info[p].count belongs to (history)
          granted,  \* one entry for each ad request the DSP was kept for (history)
          counted   \* increments of the total key since it was created (history)

vars == <<dict, pc, at, info, bids, window, stamp, granted, counted>>

Keys == {"limit", "count", "total"}

OrZero(v) == IF v = Nil THEN 0 ELSE v

NoInfo == [limit |-> 0, count |-> Nil]

Init ==
  /\ dict = [k \in Keys |-> Nil]
  /\ pc = [p \in Procs |-> "idle"]
  /\ at = [p \in Procs |-> "incr"]
  /\ info = [p \in Procs |-> NoInfo]
  /\ bids = 0
  /\ window = 0
  /\ stamp = [p \in Procs |-> 0]
  /\ granted = <<>>
  /\ counted = 0

-----------------------------------------------------------------------------
(* getQpsInfoList: read the limit, count the request, count the total.     *)

\* Mutant: an absent limit is not replaced by 0.
ReadRawLimit(p) ==
  /\ pc[p] = "idle"
  /\ bids < MaxBids
  /\ bids' = bids + 1
  /\ info' = [info EXCEPT ![p] = [limit |-> dict["limit"], count |-> Nil]]
  /\ pc' = [pc EXCEPT ![p] = "count"]
  /\ UNCHANGED <<dict, at, window, stamp, granted, counted>>

ReadLimit(p) ==
  /\ pc[p] = "idle"
  /\ bids < MaxBids
  /\ bids' = bids + 1
  /\ info' = [info EXCEPT ![p] = [limit |-> OrZero(dict["limit"]), count |-> Nil]]
  /\ pc' = [pc EXCEPT ![p] = "count"]
  /\ UNCHANGED <<dict, at, window, stamp, granted, counted>>

(* The local function incr(key, 1, exptime), for key pc[p]. *)

\* incr returns v to p for key k, and p goes on.
Return(p, k, v) ==
  /\ at' = [at EXCEPT ![p] = "incr"]
  /\ IF k = "count"
       THEN /\ info' = [info EXCEPT ![p].count = v]
            /\ stamp' = [stamp EXCEPT ![p] = window']
            /\ pc' = [pc EXCEPT ![p] = "total"]
            /\ UNCHANGED counted
       ELSE /\ counted' = IF v = Nil THEN counted ELSE counted + 1
            /\ pc' = [pc EXCEPT ![p] = "decide"]
            /\ UNCHANGED <<info, stamp>>
  /\ UNCHANGED <<bids, granted>>

\* incrDict on a key that is there.
Increment(p, k) ==
  /\ dict[k] # Nil
  /\ dict' = [dict EXCEPT ![k] = @ + 1]
  /\ UNCHANGED window
  /\ Return(p, k, dict[k] + 1)

\* A process may find no key k: each has its own idea of the time, so the
\* count, which expires, may be gone for one process and not for another.
Unseen(k) == dict[k] = Nil \/ k = "count"

IncrDict(p, k) ==
  /\ pc[p] = k
  /\ at[p] = "incr"
  /\ \/ Increment(p, k)
     \/ /\ Unseen(k)
        /\ at' = [at EXCEPT ![p] = "add"]
        /\ UNCHANGED <<dict, pc, info, bids, window, stamp, granted, counted>>

\* Mutant: the key is set, also when another process has created it.
AddBySet(p, k) ==
  /\ pc[p] = k
  /\ at[p] = "add"
  /\ dict' = [dict EXCEPT ![k] = 1]
  /\ window' = IF k = "count" /\ dict[k] = Nil THEN window + 1 ELSE window
  /\ Return(p, k, 1)

\* addDict creates the key, unless another process has done so meanwhile or
\* there is no memory for it.
AddDict(p, k) ==
  /\ pc[p] = k
  /\ at[p] = "add"
  /\ \/ /\ Unseen(k)
        /\ dict' = [dict EXCEPT ![k] = 1]
        /\ window' = IF k = "count" THEN window + 1 ELSE window
        /\ Return(p, k, 1)
     \/ /\ at' = [at EXCEPT ![p] = "retry"]
        /\ \/ dict[k] # Nil /\ UNCHANGED dict
           \/ Unseen(k) /\ dict' = [dict EXCEPT ![k] = Nil]
        /\ UNCHANGED <<pc, info, bids, window, stamp, granted, counted>>

\* The second incrDict; it fails if the key is gone again.
RetryDict(p, k) ==
  /\ pc[p] = k
  /\ at[p] = "retry"
  /\ \/ Increment(p, k)
     \/ /\ Unseen(k)
        /\ UNCHANGED <<dict, window>>
        /\ Return(p, k, Nil)

\* checkDspQps: the DSP is dropped if its limit is zero or used up.  Comparing
\* a count that is nil ends the request with an error.
CheckDspQps(p) ==
  /\ pc[p] = "decide"
  /\ pc' = [pc EXCEPT ![p] = "idle"]
  /\ IF info[p].limit <= 0 \/ info[p].count = Nil \/ info[p].count > info[p].limit
       THEN UNCHANGED granted
       ELSE granted' = Append(granted, [window |-> stamp[p], ticket |-> info[p].count,
                                        limit |-> info[p].limit])
  /\ info' = [info EXCEPT ![p] = NoInfo]      \* not used again
  /\ stamp' = [stamp EXCEPT ![p] = 0]
  /\ UNCHANGED <<dict, at, bids, window, counted>>

-----------------------------------------------------------------------------
(* setQpsLimit: three dict writes, then flushExpiredDict, which changes    *)
(* nothing that get can see.                                               *)

SetLimit(p) ==
  /\ pc[p] = "idle"
  /\ window < MaxWindows
  /\ \E l \in Limits : dict' = [dict EXCEPT !["limit"] = l]
  /\ pc' = [pc EXCEPT ![p] = "resetTotal"]
  /\ UNCHANGED <<at, info, bids, window, stamp, granted, counted>>

ResetTotal(p) ==
  /\ pc[p] = "resetTotal"
  /\ dict' = [dict EXCEPT !["total"] = 0]
  /\ counted' = 0
  /\ pc' = [pc EXCEPT ![p] = "resetCount"]
  /\ UNCHANGED <<at, info, bids, window, stamp, granted>>

ResetCount(p) ==
  /\ pc[p] = "resetCount"
  /\ dict' = [dict EXCEPT !["count"] = 0]
  /\ window' = window + 1
  /\ pc' = [pc EXCEPT ![p] = "idle"]
  /\ UNCHANGED <<at, info, bids, stamp, granted, counted>>

-----------------------------------------------------------------------------
(* What the dict does by itself. *)

\* A key disappears: count one second after its creation, any key by eviction.
Drop(k) ==
  /\ dict[k] # Nil
  /\ dict' = [dict EXCEPT ![k] = Nil]
  /\ counted' = IF k = "total" THEN 0 ELSE counted
  /\ UNCHANGED <<pc, at, info, bids, window, stamp, granted>>

\* initObjectInfo begins with flushAllDict.
FlushAll ==
  /\ \E k \in Keys : dict[k] # Nil
  /\ dict' = [k \in Keys |-> Nil]
  /\ counted' = 0
  /\ UNCHANGED <<pc, at, info, bids, window, stamp, granted>>

GetQpsInfoList(p) ==
  \/ ReadLimit(p)
  \/ \E k \in {"count", "total"} : IncrDict(p, k) \/ AddDict(p, k) \/ RetryDict(p, k)

SetQpsLimit(p) == SetLimit(p) \/ ResetTotal(p) \/ ResetCount(p)

Next ==
  \/ \E p \in Procs : GetQpsInfoList(p) \/ CheckDspQps(p) \/ SetQpsLimit(p)
  \/ \E k \in Keys : Drop(k)
  \/ FlushAll

Spec == Init /\ [][Next]_vars

-----------------------------------------------------------------------------
(* Properties *)

Count == Nat \cup {Nil}
Grants == [window : Nat, ticket : Nat, limit : Limits]

\* Every variable has its type: an entry of getQpsInfoList has a limit also when
\* the key is absent (dsp.lua:133-138), and only a positive limit keeps a DSP.
TypeOK ==
  /\ dict \in [Keys -> Count]
  /\ pc \in [Procs -> {"idle", "count", "total", "decide", "resetTotal", "resetCount"}]
  /\ at \in [Procs -> {"incr", "add", "retry"}]
  /\ info \in [Procs -> [limit : Limits \cup {0}, count : Count]]
  /\ bids \in Nat
  /\ window \in Nat
  /\ stamp \in [Procs -> Nat]
  /\ granted \in Seq(Grants)
  /\ counted \in Nat

\* In the lifetime of one count key, the DSP is kept for at most as many ad
\* requests as the largest limit any of them has read, however the processes
\* interleave and the keys come and go (dsp.lua:109-149, impress.lua:178-188).
WindowCap ==
  \A w \in 0 .. window, m \in Limits :
    LET inWindow == {i \in DOMAIN granted : granted[i].window = w}
    IN  (\A i \in inWindow : granted[i].limit <= m) => Cardinality(inWindow) <= m

\* No two ad requests draw the same number from one count key: the race of two
\* processes to create the key loses no increment (dsp.lua:112-123).
TicketsDistinct ==
  \A p, q \in Procs :
    /\ p # q
    /\ pc[p] \in {"total", "decide"} /\ pc[q] \in {"total", "decide"}
    /\ info[p].count # Nil
    /\ stamp[p] = stamp[q]
    => info[p].count # info[q].count

\* The traffic reported to the center is the number of requests counted since
\* the counter was last reset (dsp.lua:144-145, 171-172).
TotalExact == OrZero(dict["total"]) = counted

\* What the comment at dsp.lua:128 says: "limit = 0 means no qps limit", so a
\* request that reads limit 0 keeps the DSP.
ZeroMeansUnlimited ==
  [][\A p \in Procs : pc[p] = "decide" /\ pc'[p] = "idle" /\ info[p].limit = 0
                        => granted' # granted]_vars

\* What the comment at dsp.lua:127 says: every entry has a limit and a count.
CountAlwaysReturned == \A p \in Procs : pc[p] = "decide" => info[p].count # Nil

=============================================================================
