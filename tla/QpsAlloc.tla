------------------------------ MODULE QpsAlloc ------------------------------
(***************************************************************************)
(* The distribution of one DSP's qps quota over the sax workers            *)
(* (center.lua updateQpsInfo, answered by sax.lua updateQpsInfo).          *)
(*                                                                         *)
(* A request /center/updateqps is a round.  A round reads the DSP's row,   *)
(* asks every worker for the traffic it has counted, divides the quota in  *)
(* proportion and sends each worker its share.  Nothing keeps two rounds   *)
(* apart, a worker that does not answer counts as idle, and a share that   *)
(* is not delivered is never sent again.  The dict keys of different DSPs  *)
(* are disjoint and reallocQpsLimit treats the DSPs one by one, so one DSP *)
(* stands for all.                                                         *)
(***************************************************************************)
EXTENDS Integers

CONSTANTS N,            \* number of rows of table server with type 's', the workers
          Rounds,       \* the /center/updateqps requests of a behaviour
          NoRound,      \* source of the limit of a worker that has none
          QpsValues,    \* values of the qps column of the DSP
          MaxTotal      \* bound: traffic counted by a worker between two resets

ASSUME NAssumption == N \in Nat \ {0}
ASSUME RoundsAssumption == NoRound \notin Rounds
ASSUME QpsAssumption == QpsValues \subseteq Nat
ASSUME MaxTotalAssumption == MaxTotal \in Nat

VARIABLES row,      \* the DSP's row in MySQL: status and qps
          limit,    \* limit[w]: the qps limit in the dict of worker w, 0 if absent
          total,    \* total[w]: the traffic counter in that dict, 0 if absent
          source,   \* source[w]: the round that set limit[w] (history)
          pc,       \* pc[r]: where round r stands
          qps,      \* qps[r]: dsp.qps, as round r read it
          seen,     \* seen[r]: dsp.total, as round r gathered it
          share,    \* share[r]: dsp.limit, as round r computed it
          pending,  \* pending[r]: the workers capture_multi still waits for
          late      \* set requests given up by the center, not yet by the network

vars == <<row, limit, total, source, pc, qps, seen, share, pending, late>>

Workers == 1 .. N

-----------------------------------------------------------------------------
(* reallocQpsLimit *)

\* The sums of f over 1 .. i, and over all the workers.
PartialSums(f) ==
  LET acc[i \in 0 .. N] == IF i = 0 THEN 0 ELSE acc[i - 1] + f[i] IN acc

Sum(f) == PartialSums(f)[N]

\* floor(quota * (v / sum)) in doubles: v / sum may be rounded down, and then a
\* product that should be a whole number falls just short of it.
FallsShort(quota, v, sum) == /\ v < sum
                             /\ quota * v > 0
                             /\ (quota * v) % sum = 0

\* Mutant: the tenth that is spread evenly is not taken off first.
ProportionalToWhole(q, t) ==
  {[w \in Workers |-> ((q * t[w]) \div Sum(t)) + (q \div (10 * N))]}

ProportionalLimits(q, t) ==
  LET sum == Sum(t)
      quota == (9 * q) \div 10
      avg == q \div (10 * N)
  IN  {[w \in Workers |-> ((quota * t[w]) \div sum) + avg
                            - (IF w \in short THEN 1 ELSE 0)] :
         short \in SUBSET {w \in Workers : FallsShort(quota, t[w], sum)}}

EqualLimits(q) == {[w \in Workers |-> q \div N]}

BaseLimits(q, t) == IF Sum(t) = 0 THEN EqualLimits(q) ELSE ProportionalLimits(q, t)

\* Mutants: the remainder is forgotten, or given to every worker.
ReallocNoRemainder(q, t) == BaseLimits(q, t)

ReallocToEach(q, t) == {[w \in Workers |-> f[w] + (q - Sum(f))] : f \in BaseLimits(q, t)}

\* What is left of the quota goes to a worker drawn at random.
ReallocQpsLimit(q, t) ==
  {[f EXCEPT ![i] = @ + (q - Sum(f))] : f \in BaseLimits(q, t), i \in Workers}

-----------------------------------------------------------------------------
Init ==
  /\ row \in [status : {0, 1}, qps : QpsValues]
  /\ limit = [w \in Workers |-> 0]
  /\ total = [w \in Workers |-> 0]
  /\ source = [w \in Workers |-> NoRound]
  /\ pc = [r \in Rounds |-> "idle"]
  /\ qps = [r \in Rounds |-> 0]
  /\ seen = [r \in Rounds |-> [w \in Workers |-> 0]]
  /\ share = [r \in Rounds |-> [w \in Workers |-> 0]]
  /\ pending = [r \in Rounds |-> {}]
  /\ late = {}

(* The round: getDspQpsInfoDB and getSaxServerAddr, then the three phases. *)

\* The DSP takes part only if it is enabled and has a quota.
Start(r) ==
  /\ pc[r] = "idle"
  /\ IF row.status = 1 /\ row.qps > 0
       THEN /\ pc' = [pc EXCEPT ![r] = "gather"]
            /\ qps' = [qps EXCEPT ![r] = row.qps]
            /\ pending' = [pending EXCEPT ![r] = Workers]
       ELSE /\ pc' = [pc EXCEPT ![r] = "done"]
            /\ UNCHANGED <<qps, pending>>
  /\ UNCHANGED <<row, limit, total, source, seen, share, late>>

\* getQpsTotalFromSax: worker w answers with its counter ...
GatherOk(r, w) ==
  /\ pc[r] = "gather"
  /\ w \in pending[r]
  /\ seen' = [seen EXCEPT ![r][w] = total[w]]
  /\ pending' = [pending EXCEPT ![r] = @ \ {w}]
  /\ UNCHANGED <<row, limit, total, source, pc, qps, share, late>>

\* ... or does not, and is taken for idle.
GatherFail(r, w) ==
  /\ pc[r] = "gather"
  /\ w \in pending[r]
  /\ seen' = [seen EXCEPT ![r][w] = 0]
  /\ pending' = [pending EXCEPT ![r] = @ \ {w}]
  /\ UNCHANGED <<row, limit, total, source, pc, qps, share, late>>

\* reallocQpsLimit, and the requests of setQpsLimitToSax go out.
Realloc(r) ==
  /\ pc[r] = "gather"
  /\ pending[r] = {}
  /\ \E l \in ReallocQpsLimit(qps[r], seen[r]) : share' = [share EXCEPT ![r] = l]
  /\ pc' = [pc EXCEPT ![r] = "set"]
  /\ seen' = [seen EXCEPT ![r] = [w \in Workers |-> 0]]     \* not used again
  /\ pending' = [pending EXCEPT ![r] = Workers]
  /\ UNCHANGED <<row, limit, total, source, qps, late>>

\* Mutant: the new limit is added to the old one.
ApplyAdds(r, w) ==
  /\ limit' = [limit EXCEPT ![w] = @ + share[r][w]]
  /\ total' = [total EXCEPT ![w] = 0]
  /\ source' = [source EXCEPT ![w] = r]

\* setQpsLimit on worker w: the limit is replaced, the counter starts again.
Apply(r, w) ==
  /\ limit' = [limit EXCEPT ![w] = share[r][w]]
  /\ total' = [total EXCEPT ![w] = 0]
  /\ source' = [source EXCEPT ![w] = r]

SetOk(r, w) ==
  /\ pc[r] = "set"
  /\ w \in pending[r]
  /\ Apply(r, w)
  /\ pending' = [pending EXCEPT ![r] = @ \ {w}]
  /\ UNCHANGED <<row, pc, qps, seen, share, late>>

\* The request is lost, or the worker refuses it: logged, never sent again.
SetFail(r, w) ==
  /\ pc[r] = "set"
  /\ w \in pending[r]
  /\ pending' = [pending EXCEPT ![r] = @ \ {w}]
  /\ UNCHANGED <<row, limit, total, source, pc, qps, seen, share, late>>

\* The proxy's timeout passes while the request is still on its way ...
SetTimeout(r, w) ==
  /\ pc[r] = "set"
  /\ w \in pending[r]
  /\ pending' = [pending EXCEPT ![r] = @ \ {w}]
  /\ late' = late \cup {<<r, w>>}
  /\ UNCHANGED <<row, limit, total, source, pc, qps, seen, share>>

\* ... and the worker executes it later.
LateSet(r, w) ==
  /\ <<r, w>> \in late
  /\ Apply(r, w)
  /\ late' = late \ {<<r, w>>}
  /\ UNCHANGED <<row, pc, qps, seen, share, pending>>

\* Mutant: the round waits until every worker has its limit.
FinishWhenAllSet(r) ==
  /\ pc[r] = "set"
  /\ \A w \in Workers : source[w] = r
  /\ pc' = [pc EXCEPT ![r] = "done"]
  /\ UNCHANGED <<row, limit, total, source, qps, seen, share, pending, late>>

Finish(r) ==
  /\ pc[r] = "set"
  /\ pending[r] = {}
  /\ pc' = [pc EXCEPT ![r] = "done"]
  /\ UNCHANGED <<row, limit, total, source, qps, seen, share, pending, late>>

-----------------------------------------------------------------------------
(* The surroundings of a round. *)

\* A bid request on worker w counts, whether or not the DSP is then asked.
Serve(w) ==
  /\ total[w] < MaxTotal
  /\ total' = [total EXCEPT ![w] = @ + 1]
  /\ UNCHANGED <<row, limit, source, pc, qps, seen, share, pending, late>>

\* /sax/initobject, or a restart: the qps keys live in the dict it flushes.
FlushDict(w) ==
  /\ limit' = [limit EXCEPT ![w] = 0]
  /\ total' = [total EXCEPT ![w] = 0]
  /\ source' = [source EXCEPT ![w] = NoRound]
  /\ UNCHANGED <<row, pc, qps, seen, share, pending, late>>

\* /center/updateobject rewrites the DSP's row.
UpdateRow ==
  /\ row' \in [status : {0, 1}, qps : QpsValues]
  /\ UNCHANGED <<limit, total, source, pc, qps, seen, share, pending, late>>

RoundStep(r) ==
  \/ Realloc(r) \/ Finish(r)
  \/ \E w \in Workers : \/ GatherOk(r, w) \/ GatherFail(r, w)
                        \/ SetOk(r, w) \/ SetFail(r, w) \/ SetTimeout(r, w)

Next ==
  \/ \E r \in Rounds : Start(r) \/ RoundStep(r) \/ (\E w \in Workers : LateSet(r, w))
  \/ \E w \in Workers : Serve(w) \/ FlushDict(w)
  \/ UpdateRow

\* capture_multi returns within the proxy's timeouts, and the handler runs on.
Fairness == \A r \in Rounds : WF_vars(RoundStep(r))

Spec == Init /\ [][Next]_vars /\ Fairness

-----------------------------------------------------------------------------
(* Properties *)

\* Every variable has its type: in particular no share is ever negative, although
\* the remainder is a difference (center.lua:355-356).
TypeOK ==
  /\ row \in [status : {0, 1}, qps : QpsValues]
  /\ limit \in [Workers -> Nat]
  /\ total \in [Workers -> Nat]
  /\ source \in [Workers -> Rounds \cup {NoRound}]
  /\ pc \in [Rounds -> {"idle", "gather", "set", "done"}]
  /\ qps \in [Rounds -> Nat]
  /\ seen \in [Rounds -> [Workers -> Nat]]
  /\ share \in [Rounds -> [Workers -> Nat]]
  /\ pending \in [Rounds -> SUBSET Workers]
  /\ late \subseteq Rounds \X Workers

\* Round r has computed the shares it sends, and they make up its quota.
Shared(r) == pc[r] \in {"set", "done"} /\ Sum(share[r]) = qps[r]

\* Why no quota is exceeded: the shares of a round never change once a worker may
\* hold one of them or a late request may carry one (center.lua:366-407), though
\* rounds overlap and each is answered by whichever worker is alive.  This is the
\* inductive strengthening of the two properties below.
SharesSettled ==
  /\ TypeOK
  /\ \A r \in Rounds :
       /\ pc[r] \in {"idle", "gather"} => share[r] = [w \in Workers |-> 0]
       /\ pc[r] = "set" => Shared(r)
       /\ Sum(share[r]) <= qps[r]
  /\ \A w \in Workers :
       source[w] # NoRound => Shared(source[w]) /\ limit[w] = share[source[w]][w]
  /\ \A x \in late : Shared(x[1])

\* What the workers hold of round r.
HeldFrom(r) == Sum([w \in Workers |-> IF source[w] = r THEN limit[w] ELSE 0])

\* Whatever is lost, late or overlapping, the limits that come from one round
\* never exceed together the quota that round read (center.lua:329-363).
RoundNeverOverallocates == \A r \in Rounds : HeldFrom(r) <= qps[r]

\* When all workers hold limits of the same round, they add up to exactly its
\* quota: nothing is lost to rounding (center.lua:355-356).
WholeQuotaInUse ==
  \A r \in Rounds : (\A w \in Workers : source[w] = r) => Sum(limit) = qps[r]

\* A round always ends, even if workers do not answer and rounds overlap: time and
\* again no round is under way (center.lua:409-430).
RoundEnds == []<>(\A r \in Rounds : pc[r] \in {"idle", "done"})

=============================================================================
