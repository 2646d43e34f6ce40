--------------------------- MODULE Targeting_proofs ---------------------------
(***************************************************************************)
(* What a flush guarantees, for any number of workers, requests, imports,  *)
(* redis peers and slaves, and that the hash ring over the peers is right. *)
(***************************************************************************)
EXTENDS Targeting, CHash, FiniteSetTheorems, TLAPS

USE DEF redis, imports, readers

\* Types of the records and entries.
LEMMA EntryType ==
  ASSUME NEW id \in Ids, NEW rec \in Records, NEW lag \in BOOLEAN
  PROVE  Entry(id, rec, lag) \in Entries
BY DEF Entry, Entries

LEMMA NoRecordType ==
  ASSUME NEW id \in Ids
  PROVE  NoRecord(id) \in Entries
BY DEF NoRecord, Entries, Records

LEMMA OutdatedType ==
  ASSUME NEW e \in Entries
  PROVE  /\ Outdated(e) \in Entries
         /\ Outdated(e).id = e.id /\ Outdated(e).old
BY DEF Outdated, Entries

LEMMA ImportTypes ==
  ASSUME NEW q \in Imports, NEW ids \in SUBSET Ids, NEW failed \in SUBSET Ids,
         NEW open \in SUBSET Peers
  PROVE  /\ [q EXCEPT !.pc = "done"] \in Imports
         /\ [q EXCEPT !.todo = ids] \in Imports
         /\ [q EXCEPT !.open = open] \in Imports
         /\ [q EXCEPT !.todo = ids, !.failed = failed] \in Imports
         /\ [q EXCEPT !.open = open, !.failed = failed] \in Imports
BY DEF Imports

LEMMA InitType == Init => TypeOK
BY FlushAssumption DEF Init, TypeOK, Records, NoBatch, Imports

\* Change keeps the types of what it changes.
LEMMA ChangeType ==
  ASSUME TypeOK, NEW ids \in SUBSET Ids, NEW rec \in Records, Change(ids, rec)
  PROVE  master' \in [Ids -> Records] /\ changed' \in [Workers -> SUBSET Ids]
BY DEF Change, TypeOK

LEMMA StepType == TypeOK /\ [Next]_vars => TypeOK'
<1> SUFFICES ASSUME TypeOK, [Next]_vars PROVE TypeOK'
  OBVIOUS
<1>1. ASSUME NEW b \in Batches, UpdateRedis(b) PROVE TypeOK'
  <2>0. /\ batch[b] \in Imports /\ batch[b].ids \in SUBSET Ids
        /\ batch[b].todo \in SUBSET Ids /\ batch[b].failed \in SUBSET Ids
        /\ batch[b].open \in SUBSET Peers
    BY DEF TypeOK, Imports
  <2> DEFINE Others == UNCHANGED <<redis, written, del, flushes, readers, changed>>
  <2>a. ASSUME NEW q \in Imports, batch' = [batch EXCEPT ![b] = q], Others PROVE TypeOK'
    BY <2>a DEF TypeOK
  <2>1. CASE Import(b)
    <3>1. ASSUME NEW ids \in SUBSET Ids
          PROVE  [pc |-> "write", ids |-> ids, todo |-> ids, failed |-> {},
                  open |-> {PeerOf[id] : id \in ids}] \in Imports
      BY PeersAssumption DEF Imports
    <3>2. [batch[b] EXCEPT !.pc = "done"] \in Imports
      BY <2>0, ImportTypes
    <3> QED BY <2>1, <2>a, <3>1, <3>2 DEF Import
  <2>2. CASE Reply(b)
    <3>1. [batch[b] EXCEPT !.pc = "done"] \in Imports
      BY <2>0, ImportTypes
    <3> QED BY <2>2, <2>a, <3>1 DEF Reply
  <2>3. ASSUME NEW id \in Ids, Set(b, id) PROVE TypeOK'
    <3>1. master' \in [Ids -> Records] /\ changed' \in [Workers -> SUBSET Ids]
      BY <2>3, ChangeType DEF Set, Records
    <3>2. [batch[b] EXCEPT !.todo = batch[b].todo \ {id}] \in Imports
      BY <2>0, ImportTypes
    <3>3. batch' \in [Batches -> Imports]
      BY <2>3, <3>2 DEF Set, TypeOK
    <3>4. written' \in [Batches -> SUBSET Ids]
      BY <2>3 DEF Set, TypeOK
    <3> QED BY <2>3, <3>1, <3>3, <3>4 DEF Set, TypeOK
  <2>4. ASSUME NEW id \in Ids, SetError(b, id) PROVE TypeOK'
    <3>1. [batch[b] EXCEPT !.todo = batch[b].todo \ {id},
                           !.failed = batch[b].failed \cup {id}] \in Imports
      BY <2>0, ImportTypes
    <3> QED BY <2>4, <2>a, <3>1 DEF SetError
  <2>5. ASSUME NEW p \in Peers, PeerDone(b, p) PROVE TypeOK'
    <3>1. [batch[b] EXCEPT !.open = batch[b].open \ {p}] \in Imports
      BY <2>0, ImportTypes
    <3> QED BY <2>5, <2>a, <3>1 DEF PeerDone
  <2>6. ASSUME NEW p \in Peers, PeerFail(b, p) PROVE TypeOK'
    <3>1. [batch[b] EXCEPT !.open = batch[b].open \ {p},
                           !.failed = batch[b].failed \cup (batch[b].ids \cap IdsOf(p))]
            \in Imports
      BY <2>0, ImportTypes
    <3> QED BY <2>6, <2>a, <3>1 DEF PeerFail
  <2> QED BY <1>1, <2>1, <2>2, <2>3, <2>4, <2>5, <2>6 DEF UpdateRedis
<1>2. CASE Finish
  BY <1>2, FlushAssumption DEF Finish, SendFlush, TypeOK
<1>3. CASE DelAll
  BY <1>3 DEF DelAll, TypeOK
<1>4. CASE DelFinish
  BY <1>4, FlushAssumption DEF DelFinish, SendFlush, TypeOK
<1>5. ASSUME NEW p \in Peers, DelPeer(p) PROVE TypeOK'
  <2>1. master' \in [Ids -> Records] /\ changed' \in [Workers -> SUBSET Ids]
    BY <1>5, ChangeType DEF DelPeer, TypeOK, IdsOf, Records
  <2> QED BY <1>5, <2>1 DEF DelPeer, TypeOK
<1>6. ASSUME NEW id \in Ids, Expire(id) PROVE TypeOK'
  <2>1. master' \in [Ids -> Records] /\ changed' \in [Workers -> SUBSET Ids]
    BY <1>6, ChangeType DEF Expire, Records
  <2> QED BY <1>6, <2>1 DEF Expire, TypeOK
<1>7. ASSUME NEW id \in Ids, NEW s \in Slaves, Replicate(s, id) PROVE TypeOK'
  BY <1>7 DEF Replicate, TypeOK
<1>8. ASSUME NEW w \in Workers, FlushDict(w) PROVE TypeOK'
  <2>1. flushes' \in [Workers -> 0 .. MaxFlush]
    BY <1>8, FlushAssumption DEF FlushDict, TypeOK
  <2>2. query' \in [Workers -> [Procs -> Entries \cup {Nil}]]
    BY <1>8, OutdatedType DEF FlushDict, TypeOK
  <2>3. dict' \in [Workers -> [Ids -> Entries \cup {Nil}]]
    BY <1>8 DEF FlushDict, TypeOK
  <2>4. \A v \in Workers, id \in Ids : dict'[v][id] # Nil => dict'[v][id].id = id
    BY <1>8 DEF FlushDict, TypeOK
  <2> QED BY <1>8, <2>1, <2>2, <2>3, <2>4 DEF FlushDict, TypeOK
<1>9. ASSUME NEW w \in Workers, LoseFlush(w) PROVE TypeOK'
  BY <1>9, FlushAssumption DEF LoseFlush, TypeOK
<1>10. ASSUME NEW w \in Workers, NEW id \in Ids, Evict(w, id) PROVE TypeOK'
  BY <1>10 DEF Evict, TypeOK
<1>11. ASSUME NEW w \in Workers, NEW p \in Procs, GetValue(w, p) PROVE TypeOK'
  <2>1. ASSUME NEW id \in Ids, FromObject(w, p, id) PROVE TypeOK'
    BY <2>1 DEF FromObject, Return, TypeOK
  <2>2. ASSUME NEW id \in Ids, FromDict(w, p, id) PROVE TypeOK'
    <3>1. dict[w][id].rec \in Records
      BY <2>2 DEF FromDict, TypeOK, Entries
    <3> QED BY <2>2, <3>1 DEF FromDict, Return, TypeOK
  <2>3. ASSUME NEW id \in Ids, Query(w, p, id) PROVE TypeOK'
    <3>1. \A s \in Slaves : Entry(id, slave[s][id], slave[s][id] # master[id]) \in Entries
      BY EntryType DEF TypeOK
    <3>2. PICK e \in Entries : query' = [query EXCEPT ![w][p] = e]
      BY <2>3, <3>1 DEF Query
    <3>3. query' \in [Workers -> [Procs -> Entries \cup {Nil}]]
      BY <3>2 DEF TypeOK
    <3> QED BY <2>3, <3>3 DEF Query, TypeOK
  <2>4. ASSUME NEW id \in Ids, QueryFail(w, p, id) PROVE TypeOK'
    BY <2>4 DEF QueryFail, Return, TypeOK, Records
  <2>5. CASE Store(w, p)
    <3>1. query[w][p] \in Entries
      BY <2>5 DEF Store, TypeOK
    <3>2. query[w][p].id \in Ids /\ query[w][p].rec \in Records
      BY <3>1 DEF Entries
    <3>3. PICK e \in Entries :
            /\ e = query[w][p] /\ e.id \in Ids /\ e.rec \in Records
            /\ dict' = [dict EXCEPT ![w][e.id] = e] \/ dict' = dict
            /\ object' = [object EXCEPT ![w][p][e.id] = e.rec]
            /\ got' = [got EXCEPT ![w][p][e.id] = @ \cup {e.rec}]
            /\ query' = [query EXCEPT ![w][p] = Nil]
      BY <2>5, <3>1, <3>2 DEF Store, Return
    <3>4. /\ dict' \in [Workers -> [Ids -> Entries \cup {Nil}]]
          /\ \A v \in Workers, id \in Ids : dict'[v][id] # Nil => dict'[v][id].id = id
      <4>1. CASE dict' = dict
        BY <4>1 DEF TypeOK
      <4>2. CASE dict' = [dict EXCEPT ![w][e.id] = e]
        <5>1. dict \in [Workers -> [Ids -> Entries \cup {Nil}]]
          BY DEF TypeOK
        <5>2. dict' \in [Workers -> [Ids -> Entries \cup {Nil}]]
          BY <3>3, <4>2, <5>1
        <5>3. ASSUME NEW v \in Workers, NEW id \in Ids
              PROVE  dict'[v][id] = IF v = w /\ id = e.id THEN e ELSE dict[v][id]
          BY <3>3, <4>2, <5>1
        <5>4. \A v \in Workers, id \in Ids : dict[v][id] # Nil => dict[v][id].id = id
          BY DEF TypeOK
        <5>5. \A v \in Workers, id \in Ids : dict'[v][id] # Nil => dict'[v][id].id = id
          BY <5>3, <5>4
        <5> QED BY <5>2, <5>5
      <4> QED BY <3>3, <4>1, <4>2
    <3>5. /\ object' \in [Workers -> [Procs -> [Ids -> Records \cup {Nil}]]]
          /\ got' \in [Workers -> [Procs -> [Ids -> SUBSET Records]]]
          /\ query' \in [Workers -> [Procs -> Entries \cup {Nil}]]
      BY <3>3 DEF TypeOK
    <3> QED BY <2>5, <3>4, <3>5 DEF Store, TypeOK
  <2>6. ASSUME NEW id \in Ids, QueryError(w, p, id) PROVE TypeOK'
    <3>1. query' = [query EXCEPT ![w][p] = NoRecord(id)] /\ NoRecord(id) \in Entries
      BY <2>6, NoRecordType DEF QueryError
    <3>2. query' \in [Workers -> [Procs -> Entries \cup {Nil}]]
      BY <3>1 DEF TypeOK
    <3> QED BY <2>6, <3>2 DEF QueryError, TypeOK
  <2> QED BY <1>11, <2>1, <2>2, <2>3, <2>4, <2>5, <2>6 DEF GetValue
<1>12. ASSUME NEW w \in Workers, NEW p \in Procs, NewRequest(w, p) PROVE TypeOK'
  BY <1>12 DEF NewRequest, TypeOK
<1>13. CASE UNCHANGED vars
  BY <1>13 DEF vars, TypeOK
<1> QED
  BY <1>1, <1>2, <1>3, <1>4, <1>5, <1>6, <1>7, <1>8, <1>9, <1>10, <1>11, <1>12, <1>13 DEF Next

-----------------------------------------------------------------------------
CacheInv == TypeOK /\ ServesCurrent

\* A change on the redis master is an excuse for every entry of the ids changed
\* and leaves the others as they were.
LEMMA ChangeKeepsCause ==
  ASSUME TypeOK, NEW ids \in SUBSET Ids, NEW rec \in Records, Change(ids, rec),
         NEW w \in Workers, NEW e \in Entries, CurrentOrCause(w, e)
  PROVE  CurrentOrCause(w, e)'
<1>1. e.id \in Ids
  BY DEF Entries
<1>2. CASE e.id \in ids
  BY <1>1, <1>2 DEF Change, CurrentOrCause
<1>3. CASE e.id \notin ids
  BY <1>1, <1>3 DEF Change, CurrentOrCause
<1> QED BY <1>2, <1>3

\* So it keeps ServesCurrent when the readers stand still.
LEMMA ChangeServes ==
  ASSUME CacheInv, NEW ids \in SUBSET Ids, NEW rec \in Records, Change(ids, rec),
         UNCHANGED <<dict, query>>
  PROVE  ServesCurrent'
<1> SUFFICES ASSUME NEW w \in Workers
             PROVE  /\ \A id \in Ids : dict[w][id] # Nil => CurrentOrCause(w, dict[w][id])'
                    /\ \A p \in Procs : query[w][p] # Nil => CurrentOrCause(w, query[w][p])'
  BY DEF ServesCurrent
<1>1. ASSUME NEW e \in Entries, CurrentOrCause(w, e) PROVE CurrentOrCause(w, e)'
  BY <1>1, ChangeKeepsCause DEF CacheInv
<1>2. ASSUME NEW id \in Ids, dict[w][id] # Nil PROVE CurrentOrCause(w, dict[w][id])'
  <2>1. dict[w][id] \in Entries /\ CurrentOrCause(w, dict[w][id]) /\ dict' = dict
    BY <1>2 DEF CacheInv, TypeOK, ServesCurrent
  <2> QED BY <1>1, <2>1 DEF CurrentOrCause
<1>3. ASSUME NEW p \in Procs, query[w][p] # Nil PROVE CurrentOrCause(w, query[w][p])'
  <2>1. query[w][p] \in Entries /\ CurrentOrCause(w, query[w][p]) /\ query' = query
    BY <1>3 DEF CacheInv, TypeOK, ServesCurrent
  <2> QED BY <1>1, <2>1 DEF CurrentOrCause
<1> QED BY <1>2, <1>3

LEMMA InitServes == Init => ServesCurrent
BY DEF Init, ServesCurrent

LEMMA StepServes == CacheInv /\ [Next]_vars => ServesCurrent'
<1> SUFFICES ASSUME CacheInv, [Next]_vars PROVE ServesCurrent'
  OBVIOUS
<1> DEFINE Still == UNCHANGED <<master, dict, query, changed>>
<1>0. Still => ServesCurrent'
  BY DEF CacheInv, ServesCurrent, CurrentOrCause
<1>1. ASSUME NEW b \in Batches, UpdateRedis(b) PROVE ServesCurrent'
  <2>1. ASSUME NEW id \in Ids, Set(b, id) PROVE ServesCurrent'
    BY <2>1, ChangeServes DEF Set, Records
  <2>2. CASE ~ \E id \in Ids : Set(b, id)
    <3>1. Still
      BY <1>1, <2>2 DEF UpdateRedis, Import, Reply, SetError, PeerDone, PeerFail
    <3> QED BY <1>0, <3>1
  <2> QED BY <2>1, <2>2
<1>2. CASE Finish \/ DelAll \/ DelFinish
  <2>1. Still
    BY <1>2 DEF Finish, DelAll, DelFinish
  <2> QED BY <1>0, <2>1
<1>3. ASSUME NEW p \in Peers, DelPeer(p) PROVE ServesCurrent'
  <2>1. CASE Change(IdsOf(p), Absent)
    BY <1>3, <2>1, ChangeServes DEF DelPeer, IdsOf, Records
  <2>2. CASE UNCHANGED <<master, changed>>
    BY <1>0, <1>3, <2>2 DEF DelPeer
  <2> QED BY <1>3, <2>1, <2>2 DEF DelPeer
<1>4. ASSUME NEW id \in Ids, Expire(id) PROVE ServesCurrent'
  BY <1>4, ChangeServes DEF Expire, Records
<1>5. ASSUME NEW id \in Ids, NEW s \in Slaves, Replicate(s, id) PROVE ServesCurrent'
  BY <1>0, <1>5 DEF Replicate
<1>6. ASSUME NEW w \in Workers, FlushDict(w) PROVE ServesCurrent'
  <2> SUFFICES ASSUME NEW v \in Workers
               PROVE  /\ \A id \in Ids : dict'[v][id] # Nil => CurrentOrCause(v, dict[v][id])'
                      /\ \A p \in Procs : query'[v][p] # Nil => CurrentOrCause(v, query[v][p])'
    BY DEF ServesCurrent
  <2>1. CASE v # w
    <3>1. dict'[v] = dict[v] /\ query'[v] = query[v] /\ changed'[v] = changed[v] /\ master' = master
      BY <1>6, <2>1 DEF FlushDict, CacheInv, TypeOK
    <3> QED BY <3>1 DEF CacheInv, ServesCurrent, CurrentOrCause
  <2>2. CASE v = w
    <3>1. \A id \in Ids : dict'[v][id] = Nil
      BY <1>6, <2>2 DEF FlushDict, CacheInv, TypeOK
    <3>2. ASSUME NEW p \in Procs, query'[v][p] # Nil PROVE query'[v][p].old
      <4>1. query'[v][p] = IF query[w][p] = Nil THEN Nil ELSE Outdated(query[w][p])
        BY <1>6, <2>2 DEF FlushDict, CacheInv, TypeOK
      <4>2. query[w][p] \in Entries
        BY <3>2, <4>1 DEF CacheInv, TypeOK
      <4> QED BY <3>2, <4>1, <4>2, OutdatedType
    <3> QED BY <3>1, <3>2 DEF CurrentOrCause
  <2> QED BY <2>1, <2>2
<1>7. ASSUME NEW w \in Workers, LoseFlush(w) PROVE ServesCurrent'
  BY <1>0, <1>7 DEF LoseFlush
<1>8. ASSUME NEW w \in Workers, NEW id \in Ids, Evict(w, id) PROVE ServesCurrent'
  <2>1. ASSUME NEW v \in Workers, NEW i \in Ids, dict'[v][i] # Nil PROVE dict'[v][i] = dict[v][i]
    BY <1>8, <2>1 DEF Evict, CacheInv, TypeOK
  <2>2. UNCHANGED <<master, changed, query>>
    BY <1>8 DEF Evict
  <2> QED BY <2>1, <2>2 DEF CacheInv, ServesCurrent, CurrentOrCause
<1>9. ASSUME NEW w \in Workers, NEW p \in Procs, GetValue(w, p) PROVE ServesCurrent'
  <2>1. ASSUME NEW id \in Ids, FromObject(w, p, id) \/ FromDict(w, p, id) \/ QueryFail(w, p, id)
        PROVE  ServesCurrent'
    BY <1>0, <2>1 DEF FromObject, FromDict, QueryFail
  <2>2. ASSUME NEW id \in Ids, Query(w, p, id) PROVE ServesCurrent'
    <3>1. PICK s \in Slaves :
            query' = [query EXCEPT ![w][p] = Entry(id, slave[s][id], slave[s][id] # master[id])]
      BY <2>2 DEF Query
    <3> DEFINE new == Entry(id, slave[s][id], slave[s][id] # master[id])
    <3>2. UNCHANGED <<master, dict, changed>>
      BY <2>2 DEF Query
    <3>3. CurrentOrCause(w, new)
      BY DEF CurrentOrCause, Entry
    <3> HIDE DEF new
    <3>4. query' = [query EXCEPT ![w][p] = new]
      BY <3>1 DEF new
    <3>5. ASSUME NEW v \in Workers, NEW q \in Procs
          PROVE  query'[v][q] = IF v = w /\ q = p THEN new ELSE query[v][q]
      BY <3>4 DEF CacheInv, TypeOK
    <3> QED BY <3>2, <3>3, <3>5 DEF CacheInv, ServesCurrent, CurrentOrCause
  <2>3. CASE Store(w, p)
    <3> DEFINE e == query[w][p]
    <3>1. e \in Entries /\ e.id \in Ids /\ CurrentOrCause(w, e)
      BY <2>3 DEF Store, CacheInv, TypeOK, Entries, ServesCurrent
    <3>2. /\ UNCHANGED <<master, changed>>
          /\ query' = [query EXCEPT ![w][p] = Nil]
          /\ dict' = [dict EXCEPT ![w][e.id] = e] \/ dict' = dict
      BY <2>3 DEF Store
    <3> HIDE DEF e
    <3>3. ASSUME NEW v \in Workers, NEW q \in Procs, query'[v][q] # Nil
          PROVE  query'[v][q] = query[v][q]
      BY <3>2, <3>3 DEF CacheInv, TypeOK
    <3>4. ASSUME NEW v \in Workers, NEW id \in Ids
          PROVE  dict'[v][id] = dict[v][id] \/ (v = w /\ dict'[v][id] = e)
      BY <3>1, <3>2 DEF CacheInv, TypeOK
    <3> QED BY <3>1, <3>2, <3>3, <3>4 DEF CacheInv, ServesCurrent, CurrentOrCause
  <2>4. ASSUME NEW id \in Ids, QueryError(w, p, id) PROVE ServesCurrent'
    <3> DEFINE new == NoRecord(id)
    <3>1. query' = [query EXCEPT ![w][p] = new] /\ UNCHANGED <<master, dict, changed>>
      BY <2>4 DEF QueryError
    <3>2. CurrentOrCause(w, new)
      BY DEF CurrentOrCause, NoRecord
    <3> HIDE DEF new
    <3>3. ASSUME NEW v \in Workers, NEW q \in Procs
          PROVE  query'[v][q] = IF v = w /\ q = p THEN new ELSE query[v][q]
      BY <3>1 DEF CacheInv, TypeOK
    <3> QED BY <3>1, <3>2, <3>3 DEF CacheInv, ServesCurrent, CurrentOrCause
  <2> QED BY <1>9, <2>1, <2>2, <2>3, <2>4 DEF GetValue
<1>10. ASSUME NEW w \in Workers, NEW p \in Procs, NewRequest(w, p) PROVE ServesCurrent'
  BY <1>0, <1>10 DEF NewRequest
<1>11. CASE UNCHANGED vars
  BY <1>0, <1>11 DEF vars
<1> QED
  BY <1>1, <1>2, <1>3, <1>4, <1>5, <1>6, <1>7, <1>8, <1>9, <1>10, <1>11 DEF Next

\* After a flush the dict of a worker differs from redis only for the named causes,
\* of which an error of the slave is one: it is kept as a missing record
\* (targeting.lua:72-130, worker.lua:4-10).
THEOREM FlushSuffices == Spec => []ServesCurrent
<1>1. Init => CacheInv
  BY InitType, InitServes DEF CacheInv
<1>2. CacheInv /\ [Next]_vars => CacheInv'
  BY StepType, StepServes DEF CacheInv
<1>3. CacheInv => ServesCurrent
  BY DEF CacheInv
<1> QED BY <1>1, <1>2, <1>3, PTL DEF Spec

\* Every variable keeps its type (targeting.lua, master.lua).
THEOREM TargetingTypeCorrect == Spec => []TypeOK
BY InitType, StepType, PTL DEF Spec

-----------------------------------------------------------------------------
\* What a request has seen of an id is the record its object holds, and nothing
\* as long as the object holds none; so it is while a query for the id is open.
SameRecord ==
  \A w \in Workers, p \in Procs :
    /\ \A id \in Ids : got[w][p][id] \subseteq {object[w][p][id]}
    /\ \A id \in Ids : object[w][p][id] = Nil => got[w][p][id] = {}
    /\ query[w][p] # Nil => object[w][p][query[w][p].id] = Nil

RequestInv == TypeOK /\ SameRecord

LEMMA InitSame == Init => SameRecord
BY DEF Init, SameRecord

\* The record of an id comes into the object of a request together with the first
\* attribute returned, whichever of the three sources it is from.
LEMMA KeptOnce ==
  ASSUME RequestInv, NEW w \in Workers, NEW p \in Procs, NEW id \in Ids, NEW rec \in Records,
         object[w][p][id] = Nil \/ object[w][p][id] = rec,
         object' = [object EXCEPT ![w][p][id] = rec],
         got' = [got EXCEPT ![w][p][id] = @ \cup {rec}],
         (query' = query /\ query[w][p] = Nil) \/ query' = [query EXCEPT ![w][p] = Nil]
  PROVE  SameRecord'
<1>1. /\ object \in [Workers -> [Procs -> [Ids -> Records \cup {Nil}]]]
      /\ got \in [Workers -> [Procs -> [Ids -> SUBSET Records]]]
      /\ query \in [Workers -> [Procs -> Entries \cup {Nil}]]
      /\ SameRecord
  BY DEF RequestInv, TypeOK
<1>2. rec # Nil
  BY ValuesAssumption DEF Records
<1> SUFFICES ASSUME NEW v \in Workers, NEW q \in Procs
             PROVE  /\ \A i \in Ids : got'[v][q][i] \subseteq {object'[v][q][i]}
                    /\ \A i \in Ids : object'[v][q][i] = Nil => got'[v][q][i] = {}
                    /\ query'[v][q] # Nil => object'[v][q][query'[v][q].id] = Nil
  BY DEF SameRecord
<1>3. CASE v = w /\ q = p
  <2>1. query'[v][q] = Nil
    BY <1>1, <1>3
  <2>2. ASSUME NEW i \in Ids, i # id
        PROVE  object'[v][q][i] = object[w][p][i] /\ got'[v][q][i] = got[w][p][i]
    BY <1>1, <1>3, <2>2
  <2>3. object'[v][q][id] = rec /\ got'[v][q][id] = got[w][p][id] \cup {rec}
    BY <1>1, <1>3
  <2>4. got[w][p][id] \subseteq {rec}
    BY <1>1 DEF SameRecord
  <2> QED BY <1>1, <1>2, <2>1, <2>2, <2>3, <2>4 DEF SameRecord
<1>4. CASE ~(v = w /\ q = p)
  <2>1. object'[v][q] = object[v][q] /\ got'[v][q] = got[v][q] /\ query'[v][q] = query[v][q]
    BY <1>1, <1>4
  <2> QED BY <1>1, <2>1 DEF SameRecord
<1> QED BY <1>3, <1>4

LEMMA StepSame == RequestInv /\ [Next]_vars => SameRecord'
<1> SUFFICES ASSUME RequestInv, [Next]_vars PROVE SameRecord'
  OBVIOUS
<1> DEFINE Still == UNCHANGED <<object, query, got>>
<1>0. Still => SameRecord'
  BY DEF RequestInv, SameRecord
<1>t. /\ object \in [Workers -> [Procs -> [Ids -> Records \cup {Nil}]]]
      /\ got \in [Workers -> [Procs -> [Ids -> SUBSET Records]]]
      /\ query \in [Workers -> [Procs -> Entries \cup {Nil}]]
      /\ dict \in [Workers -> [Ids -> Entries \cup {Nil}]]
      /\ SameRecord
  BY DEF RequestInv, TypeOK
<1>1. ASSUME NEW b \in Batches, UpdateRedis(b) PROVE SameRecord'
  <2>1. Still
    BY <1>1 DEF UpdateRedis, Import, Reply, Set, SetError, PeerDone, PeerFail
  <2> QED BY <1>0, <2>1
<1>2. CASE Finish \/ DelAll \/ DelFinish
  BY <1>0, <1>2 DEF Finish, DelAll, DelFinish
<1>3. ASSUME NEW p \in Peers, DelPeer(p) PROVE SameRecord'
  BY <1>0, <1>3 DEF DelPeer
<1>4. ASSUME NEW id \in Ids, Expire(id) \/ \E s \in Slaves : Replicate(s, id) PROVE SameRecord'
  BY <1>0, <1>4 DEF Expire, Replicate
<1>5. ASSUME NEW w \in Workers, LoseFlush(w) \/ \E id \in Ids : Evict(w, id) PROVE SameRecord'
  BY <1>0, <1>5 DEF LoseFlush, Evict
<1>6. ASSUME NEW w \in Workers, FlushDict(w) PROVE SameRecord'
  <2>1. UNCHANGED <<object, got>>
    BY <1>6 DEF FlushDict
  <2>2. ASSUME NEW v \in Workers, NEW q \in Procs, query'[v][q] # Nil
        PROVE  query[v][q] # Nil /\ query'[v][q].id = query[v][q].id
    <3>1. CASE v # w
      BY <1>6, <1>t, <2>2, <3>1 DEF FlushDict
    <3>2. CASE v = w
      <4>1. query'[v][q] = IF query[v][q] = Nil THEN Nil ELSE Outdated(query[v][q])
        BY <1>6, <1>t, <3>2 DEF FlushDict
      <4>2. query[v][q] # Nil /\ query[v][q] \in Entries
        BY <1>t, <2>2, <4>1
      <4> QED BY <4>1, <4>2, OutdatedType
    <3> QED BY <3>1, <3>2
  <2> SUFFICES ASSUME NEW v \in Workers, NEW q \in Procs, query'[v][q] # Nil
               PROVE  object'[v][q][query'[v][q].id] = Nil
    BY <1>t, <2>1 DEF SameRecord
  <2>3. object[v][q][query[v][q].id] = Nil
    BY <1>t, <2>2 DEF SameRecord
  <2> QED BY <2>1, <2>2, <2>3
<1>7. ASSUME NEW w \in Workers, NEW p \in Procs, GetValue(w, p) PROVE SameRecord'
  <2>1. ASSUME NEW id \in Ids, FromObject(w, p, id) PROVE SameRecord'
    <3>1. PICK rec \in Records : object[w][p][id] = rec
      BY <1>t, <2>1 DEF FromObject
    <3>2. object' = [object EXCEPT ![w][p][id] = rec]
      BY <1>t, <2>1, <3>1 DEF FromObject
    <3>3. /\ got' = [got EXCEPT ![w][p][id] = @ \cup {rec}]
          /\ query' = query /\ query[w][p] = Nil
      BY <2>1, <3>1 DEF FromObject, Return
    <3> QED BY <3>1, <3>2, <3>3, KeptOnce
  <2>2. ASSUME NEW id \in Ids, FromDict(w, p, id) PROVE SameRecord'
    <3>1. dict[w][id].rec \in Records
      BY <1>t, <2>2 DEF FromDict, Entries
    <3> QED BY <2>2, <3>1, KeptOnce DEF FromDict, Return
  <2>3. ASSUME NEW id \in Ids, Query(w, p, id) \/ QueryError(w, p, id) PROVE SameRecord'
    <3>1. PICK e : e.id = id /\ query' = [query EXCEPT ![w][p] = e]
      BY <2>3 DEF Query, QueryError, Entry, NoRecord
    <3>2. UNCHANGED <<object, got>> /\ object[w][p][id] = Nil
      BY <2>3 DEF Query, QueryError, Missing
    <3>3. ASSUME NEW v \in Workers, NEW q \in Procs
          PROVE  query'[v][q] = IF v = w /\ q = p THEN e ELSE query[v][q]
      BY <1>t, <3>1
    <3> QED BY <1>t, <3>1, <3>2, <3>3 DEF SameRecord
  <2>4. ASSUME NEW id \in Ids, QueryFail(w, p, id) PROVE SameRecord'
    BY <2>4, KeptOnce DEF QueryFail, Missing, Return, Records
  <2>5. CASE Store(w, p)
    <3>1. query[w][p] \in Entries /\ object[w][p][query[w][p].id] = Nil
      BY <1>t, <2>5 DEF Store, SameRecord
    <3>2. query[w][p].id \in Ids /\ query[w][p].rec \in Records
      BY <3>1 DEF Entries
    <3> QED BY <2>5, <3>1, <3>2, KeptOnce DEF Store, Return
  <2> QED BY <1>7, <2>1, <2>2, <2>3, <2>4, <2>5 DEF GetValue
<1>8. ASSUME NEW w \in Workers, NEW p \in Procs, NewRequest(w, p) PROVE SameRecord'
  <2>1. /\ query' = query /\ query[w][p] = Nil
        /\ object' = [object EXCEPT ![w][p] = [id \in Ids |-> Nil]]
        /\ got' = [got EXCEPT ![w][p] = [id \in Ids |-> {}]]
    BY <1>8 DEF NewRequest
  <2> SUFFICES ASSUME NEW v \in Workers, NEW q \in Procs
               PROVE  /\ \A i \in Ids : got'[v][q][i] \subseteq {object'[v][q][i]}
                      /\ \A i \in Ids : object'[v][q][i] = Nil => got'[v][q][i] = {}
                      /\ query'[v][q] # Nil => object'[v][q][query'[v][q].id] = Nil
    BY DEF SameRecord
  <2>2. CASE v = w /\ q = p
    BY <1>t, <2>1, <2>2
  <2>3. CASE ~(v = w /\ q = p)
    <3>1. object'[v][q] = object[v][q] /\ got'[v][q] = got[v][q]
      BY <1>t, <2>1, <2>3
    <3> QED BY <1>t, <2>1, <3>1 DEF SameRecord
  <2> QED BY <2>2, <2>3
<1>9. CASE UNCHANGED vars
  BY <1>0, <1>9 DEF vars
<1> QED
  BY <1>1, <1>2, <1>3, <1>4, <1>5, <1>6, <1>7, <1>8, <1>9 DEF Next

\* An ad request bases all its answers for a udid on one record, whatever imports,
\* flushes, evictions and failed queries come between them (targeting.lua:31-56, 96-125).
THEOREM RequestSeesOneRecord == Spec => []OneRecordPerRequest
<1>1. Init => RequestInv
  BY InitType, InitSame DEF RequestInv
<1>2. RequestInv /\ [Next]_vars => RequestInv'
  BY StepType, StepSame DEF RequestInv
<1>3. RequestInv => OneRecordPerRequest
  <2> SUFFICES ASSUME RequestInv, NEW w \in Workers, NEW p \in Procs, NEW id \in Ids
               PROVE  Cardinality(got[w][p][id]) <= 1
    BY DEF OneRecordPerRequest
  <2>1. got[w][p][id] \subseteq {object[w][p][id]}
    BY DEF RequestInv, SameRecord
  <2>2. got[w][p][id] = {} \/ got[w][p][id] = {object[w][p][id]}
    BY <2>1
  <2>3. CASE got[w][p][id] = {}
    BY <2>3, FS_EmptySet
  <2>4. CASE got[w][p][id] = {object[w][p][id]}
    <3>1. Cardinality({object[w][p][id]}) = 1
      BY FS_Singleton
    <3> QED BY <2>4, <3>1
  <2> QED BY <2>2, <2>3, <2>4
<1> QED BY <1>1, <1>2, <1>3, PTL DEF Spec

-----------------------------------------------------------------------------
\* Every id of an import is written, reported, or still to be set by a thread
\* that has not ended; only an import that is under way has such threads.
Accounted ==
  \A b \in Batches :
    /\ \A id \in batch[b].ids : \/ id \in written[b] \cup batch[b].failed
                                \/ id \in batch[b].todo /\ PeerOf[id] \in batch[b].open
    /\ batch[b].pc # "write" => batch[b].open = {}

ImportInv == TypeOK /\ Accounted

LEMMA InitAccounted == Init => Accounted
BY DEF Init, Accounted, NoBatch

\* A step of one import leaves the others alone.
LEMMA OneImport ==
  ASSUME ImportInv, NEW b \in Batches, NEW q \in Imports, NEW done \in SUBSET Ids,
         batch' = [batch EXCEPT ![b] = q],
         written' = [written EXCEPT ![b] = done],
         \A id \in q.ids : \/ id \in done \cup q.failed
                           \/ id \in q.todo /\ PeerOf[id] \in q.open,
         q.pc # "write" => q.open = {}
  PROVE  Accounted'
<1> SUFFICES ASSUME NEW c \in Batches
             PROVE  /\ \A id \in batch'[c].ids :
                         \/ id \in written'[c] \cup batch'[c].failed
                         \/ id \in batch'[c].todo /\ PeerOf[id] \in batch'[c].open
                    /\ batch'[c].pc # "write" => batch'[c].open = {}
  BY DEF Accounted
<1>1. CASE c = b
  <2>1. batch'[c] = q /\ written'[c] = done
    BY <1>1 DEF ImportInv, TypeOK
  <2> QED BY <2>1
<1>2. CASE c # b
  <2>1. batch'[c] = batch[c] /\ written'[c] = written[c]
    BY <1>2 DEF ImportInv, TypeOK
  <2> QED BY <2>1 DEF ImportInv, Accounted
<1> QED BY <1>1, <1>2

LEMMA StepAccounted == ImportInv /\ [Next]_vars => Accounted'
<1> SUFFICES ASSUME ImportInv, [Next]_vars PROVE Accounted'
  OBVIOUS
<1> DEFINE Still == UNCHANGED <<batch, written>>
<1>0. Still => Accounted'
  BY DEF ImportInv, Accounted
<1>1. ASSUME NEW b \in Batches, UpdateRedis(b) PROVE Accounted'
  <2> DEFINE q == batch[b]
  <2>0. /\ q \in Imports /\ q.ids \in SUBSET Ids /\ q.todo \in SUBSET Ids
        /\ q.failed \in SUBSET Ids /\ q.open \in SUBSET Peers
        /\ q.pc \in {"idle", "write", "done"}
        /\ written[b] \in SUBSET Ids
        /\ written = [written EXCEPT ![b] = written[b]]
    BY DEF ImportInv, TypeOK, Imports
  <2>a. /\ \A id \in q.ids : \/ id \in written[b] \cup q.failed
                             \/ id \in q.todo /\ PeerOf[id] \in q.open
        /\ q.pc # "write" => q.open = {}
    BY DEF ImportInv, Accounted
  <2>1. CASE Import(b)
    <3>1. ASSUME NEW ids \in SUBSET Ids,
                 batch' = [batch EXCEPT ![b] = [pc |-> "write", ids |-> ids, todo |-> ids, failed |-> {},
                                                open |-> {PeerOf[id] : id \in ids}]]
          PROVE  Accounted'
      <4> DEFINE n == [pc |-> "write", ids |-> ids, todo |-> ids, failed |-> {},
                       open |-> {PeerOf[id] : id \in ids}]
      <4>1. n \in Imports
        BY PeersAssumption DEF Imports
      <4>2. \A id \in n.ids : id \in n.todo /\ PeerOf[id] \in n.open
        OBVIOUS
      <4>3. n.pc = "write" /\ batch' = [batch EXCEPT ![b] = n]
        BY <3>1
      <4>4. written' = [written EXCEPT ![b] = written[b]]
        BY <2>0, <2>1 DEF Import
      <4> HIDE DEF n
      <4> QED BY <2>0, <4>1, <4>2, <4>3, <4>4, OneImport
    <3>2. CASE batch' = [batch EXCEPT ![b].pc = "done"]
      <4> DEFINE n == [q EXCEPT !.pc = "done"]
      <4>1. /\ n \in Imports /\ n.ids = q.ids /\ n.todo = q.todo /\ n.failed = q.failed
            /\ n.open = q.open /\ n.open = {}
        BY <2>0, <2>1, <2>a DEF Import, Imports
      <4>2. batch' = [batch EXCEPT ![b] = n] /\ written' = [written EXCEPT ![b] = written[b]]
        BY <2>0, <2>1, <3>2 DEF Import
      <4> HIDE DEF n
      <4> QED BY <2>0, <2>a, <4>1, <4>2, OneImport
    <3> QED BY <2>1, <3>1, <3>2 DEF Import
  <2>2. CASE Reply(b)
    <3> DEFINE n == [q EXCEPT !.pc = "done"]
    <3>1. /\ n \in Imports /\ n.ids = q.ids /\ n.todo = q.todo /\ n.failed = q.failed
          /\ n.open = q.open /\ n.open = {}
      BY <2>0, <2>2 DEF Reply, Imports
    <3>2. batch' = [batch EXCEPT ![b] = n] /\ written' = [written EXCEPT ![b] = written[b]]
      BY <2>0, <2>2 DEF Reply
    <3> HIDE DEF n
    <3> QED BY <2>0, <2>a, <3>1, <3>2, OneImport
  <2>3. ASSUME NEW id \in Ids, Set(b, id) PROVE Accounted'
    <3> DEFINE n == [q EXCEPT !.todo = q.todo \ {id}]
    <3>1. /\ n \in Imports /\ n.ids = q.ids /\ n.todo = q.todo \ {id} /\ n.failed = q.failed
          /\ n.open = q.open /\ n.pc = q.pc
      BY <2>0 DEF Imports
    <3>2. /\ batch' = [batch EXCEPT ![b] = n]
          /\ written' = [written EXCEPT ![b] = written[b] \cup {id}]
      BY <2>3 DEF Set
    <3> HIDE DEF n
    <3>3. /\ written[b] \cup {id} \in SUBSET Ids
          /\ \A i \in n.ids : \/ i \in (written[b] \cup {id}) \cup n.failed
                              \/ i \in n.todo /\ PeerOf[i] \in n.open
          /\ n.pc # "write" => n.open = {}
      BY <2>0, <2>a, <3>1
    <3> HIDE DEF q
    <3> QED BY <3>1, <3>2, <3>3, OneImport
  <2>4. ASSUME NEW id \in Ids, SetError(b, id) PROVE Accounted'
    <3> DEFINE n == [q EXCEPT !.todo = q.todo \ {id}, !.failed = q.failed \cup {id}]
    <3>1. /\ n \in Imports /\ n.ids = q.ids /\ n.todo = q.todo \ {id}
          /\ n.failed = q.failed \cup {id} /\ n.open = q.open /\ n.pc = q.pc
      BY <2>0 DEF Imports
    <3>2. batch' = [batch EXCEPT ![b] = n] /\ written' = [written EXCEPT ![b] = written[b]]
      BY <2>0, <2>4 DEF SetError
    <3> HIDE DEF n
    <3>3. \A i \in n.ids : \/ i \in written[b] \cup n.failed
                           \/ i \in n.todo /\ PeerOf[i] \in n.open
      BY <2>a, <3>1
    <3> QED BY <2>0, <2>a, <3>1, <3>2, <3>3, OneImport
  <2>5. ASSUME NEW p \in Peers, PeerDone(b, p) PROVE Accounted'
    <3> DEFINE n == [q EXCEPT !.open = q.open \ {p}]
    <3>1. /\ n \in Imports /\ n.ids = q.ids /\ n.todo = q.todo /\ n.failed = q.failed
          /\ n.open = q.open \ {p} /\ n.pc = q.pc
      BY <2>0 DEF Imports
    <3>2. batch' = [batch EXCEPT ![b] = n] /\ written' = [written EXCEPT ![b] = written[b]]
      BY <2>0, <2>5 DEF PeerDone
    <3>3. \A id \in q.todo : PeerOf[id] # p
      BY <2>0, <2>5 DEF PeerDone, IdsOf
    <3> HIDE DEF n
    <3>4. \A i \in n.ids : \/ i \in written[b] \cup n.failed
                           \/ i \in n.todo /\ PeerOf[i] \in n.open
      BY <2>a, <3>1, <3>3
    <3>5. n.pc # "write" => n.open = {}
      BY <2>a, <3>1
    <3> HIDE DEF q
    <3> QED BY <2>0, <3>1, <3>2, <3>4, <3>5, OneImport
  <2>6. ASSUME NEW p \in Peers, PeerFail(b, p) PROVE Accounted'
    <3> DEFINE n == [q EXCEPT !.open = q.open \ {p},
                              !.failed = q.failed \cup (q.ids \cap IdsOf(p))]
    <3>1. /\ n \in Imports /\ n.ids = q.ids /\ n.todo = q.todo
          /\ n.failed = q.failed \cup (q.ids \cap IdsOf(p))
          /\ n.open = q.open \ {p} /\ n.pc = q.pc
      BY <2>0 DEF Imports
    <3>2. batch' = [batch EXCEPT ![b] = n] /\ written' = [written EXCEPT ![b] = written[b]]
      BY <2>0, <2>6 DEF PeerFail
    <3>3. \A id \in q.ids : PeerOf[id] = p => id \in n.failed
      BY <2>0, <3>1 DEF IdsOf
    <3> HIDE DEF n
    <3>4. \A i \in n.ids : \/ i \in written[b] \cup n.failed
                           \/ i \in n.todo /\ PeerOf[i] \in n.open
      BY <2>a, <3>1, <3>3
    <3>5. n.pc # "write" => n.open = {}
      BY <2>a, <3>1
    <3> HIDE DEF q
    <3> QED BY <2>0, <3>1, <3>2, <3>4, <3>5, OneImport
  <2> QED BY <1>1, <2>1, <2>2, <2>3, <2>4, <2>5, <2>6 DEF UpdateRedis
<1>2. CASE ~ \E b \in Batches : UpdateRedis(b)
  <2>1. ASSUME NEW w \in Workers, NEW p \in Procs, GetValue(w, p) \/ NewRequest(w, p) PROVE Still
    BY <2>1 DEF GetValue, FromObject, FromDict, Query, QueryError, QueryFail, Store, NewRequest
  <2>2. ASSUME NEW w \in Workers, FlushDict(w) \/ LoseFlush(w) \/ \E id \in Ids : Evict(w, id)
        PROVE  Still
    BY <2>2 DEF FlushDict, LoseFlush, Evict
  <2>3. ASSUME NEW id \in Ids, Expire(id) \/ \E s \in Slaves : Replicate(s, id) PROVE Still
    BY <2>3 DEF Expire, Replicate
  <2>4. ASSUME NEW p \in Peers, DelPeer(p) PROVE Still
    BY <2>4 DEF DelPeer
  <2>5. ASSUME Finish \/ DelAll \/ DelFinish PROVE Still
    BY <2>5 DEF Finish, DelAll, DelFinish
  <2>6. ASSUME UNCHANGED vars PROVE Still
    BY <2>6 DEF vars
  <2> HIDE DEF Still
  <2>7. ASSUME Next PROVE Still
    BY <1>2, <2>1, <2>2, <2>3, <2>4, <2>5, <2>7 DEF Next
  <2> QED BY <1>0, <2>6, <2>7
<1> QED BY <1>1, <1>2

\* An id missing from the answer to an import has been written, however its threads
\* fail or end late (master.lua:67-85, 142-164).
THEOREM NoFailureOverlooked == Spec => []FailuresReported
<1>1. Init => ImportInv
  BY InitType, InitAccounted DEF ImportInv
<1>2. ImportInv /\ [Next]_vars => ImportInv'
  BY StepType, StepAccounted DEF ImportInv
<1>3. ImportInv => FailuresReported
  BY DEF ImportInv, Accounted, FailuresReported
<1> QED BY <1>1, <1>2, <1>3, PTL DEF Spec

-----------------------------------------------------------------------------
(* The hash ring, for every number of peers and of buckets and every       *)
(* choice of the hash function.                                            *)

RingInv == RingTypeOK /\ Sorted /\ SearchBounds /\ BucketsRight

\* There is at least one node: point_per_node is not zero (c_hash.lua:87).
LEMMA NodesPositive == Nodes \in Nat /\ Nodes >= 1
<1> DEFINE q == Buckets \div Servers
<1>1. /\ Buckets = Servers * q + (Buckets % Servers)
      /\ Buckets % Servers \in 0 .. Servers - 1
      /\ q \in Int
  BY RingAssumption
<1>2. q >= 1
  <2>1. CASE q <= 0
    <3>1. Servers * q <= 0
      BY <1>1, <2>1, RingAssumption
    <3> QED BY <1>1, <3>1, RingAssumption
  <2> QED BY <1>1, <2>1
<1>3. Servers * q \in Int /\ Servers * q >= 1
  BY <1>1, <1>2, RingAssumption
<1> QED BY <1>3 DEF Nodes

\* The points of the buckets are whole numbers.
LEMMA PointType == ASSUME NEW i \in Nat PROVE Point(i) \in Int
<1>1. Buckets \in Nat \ {0} /\ MaxHash \in Nat
  BY RingAssumption
<1>2. MaxHash \div Buckets \in Int
  BY <1>1
<1> QED BY <1>2 DEF Point

\* So are the wanted point and the points of the ring.
LEMMA RingNumbers ==
  ASSUME RingTypeOK
  PROVE  Wanted \in Int /\ \A j \in 1 .. Nodes : points[j] \in Int
<1>1. Len(buckets) \in Nat
  BY DEF RingTypeOK
<1>2. Wanted \in Int
  BY <1>1, PointType DEF Wanted
<1>3. \A j \in 1 .. Nodes : points[j] \in Int
  BY RingAssumption DEF RingTypeOK, Hashes
<1> QED BY <1>2, <1>3

\* The search ends with the node the wanted point falls to (c_hash.lua:22-28).
LEMMA FoundRight ==
  ASSUME RingTypeOK, Sorted, SearchBounds, l >= r - 1
  PROVE  Found \in 1 .. Nodes /\ NodeFor(Found, Wanted)
<1>1. Nodes \in Nat /\ l \in 1 .. Nodes /\ r \in 1 .. Nodes /\ l <= r /\ r <= l + 1
  BY NodesPositive DEF RingTypeOK, SearchBounds
<1>2. Wanted \in Int /\ \A j \in 1 .. Nodes : points[j] \in Int
  BY RingNumbers
<1>3. \A j \in 1 .. l - 1 : points[j] < Wanted
  BY DEF SearchBounds
<1>4. CASE Wanted <= points[l]
  BY <1>1, <1>2, <1>3, <1>4 DEF Found, NodeFor
<1>5. CASE ~(Wanted <= points[l]) /\ Wanted <= points[r]
  <2>1. r = l + 1
    BY <1>1, <1>5
  <2>2. \A j \in 1 .. r - 1 : points[j] < Wanted
    BY <1>1, <1>2, <1>3, <1>5, <2>1
  <2> QED BY <1>1, <1>2, <1>5, <2>2 DEF Found, NodeFor
<1>6. CASE ~(Wanted <= points[l]) /\ ~(Wanted <= points[r])
  <2>1. r = Nodes
    BY <1>6 DEF SearchBounds
  <2>2. \A j \in 1 .. Nodes : points[j] < Wanted
    BY <1>1, <1>2, <1>3, <1>6, <2>1
  <2> QED BY <1>1, <1>6, <2>1, <2>2 DEF Found, NodeFor
<1> QED BY <1>4, <1>5, <1>6

LEMMA InitRing == RingInit => RingInv
<1> SUFFICES ASSUME RingInit PROVE RingInv
  OBVIOUS
<1>1. RingTypeOK
  BY NodesPositive, RingAssumption DEF RingInit, RingTypeOK
<1>2. SearchBounds
  BY NodesPositive DEF RingInit, SearchBounds
<1>3. BucketsRight
  BY DEF RingInit, BucketsRight
<1> QED BY <1>1, <1>2, <1>3 DEF RingInit, RingInv

LEMMA StepRing == RingInv /\ [RingNext]_ringVars => RingInv'
<1> SUFFICES ASSUME RingInv, [RingNext]_ringVars PROVE RingInv'
  OBVIOUS
<1> USE DEF RingInv
<1>0. Nodes \in Nat /\ Nodes >= 1 /\ Buckets \in Nat
  BY NodesPositive, RingAssumption
<1>1. CASE Halve
  <2> DEFINE m == l + (r - l) \div 2
  <2>1. /\ l \in Int /\ r \in Int /\ m \in Int
        /\ 1 <= l /\ l < m /\ m < r /\ r <= Nodes
    BY <1>0, <1>1 DEF RingTypeOK, Halve
  <2>2. UNCHANGED <<points, buckets>> /\ Wanted' = Wanted
    BY <1>1 DEF Halve, Wanted
  <2>3. IF Wanted > points[m] THEN l' = m + 1 /\ r' = r ELSE r' = m /\ l' = l
    BY <1>1 DEF Halve
  <2>4. Wanted \in Int /\ \A j \in 1 .. Nodes : points[j] \in Int
    BY RingNumbers
  <2> HIDE DEF m
  <2>5. RingTypeOK'
    BY <1>0, <2>1, <2>2, <2>3 DEF RingTypeOK
  <2>6. SearchBounds'
    <3>1. CASE Wanted > points[m]
      <4>1. \A j \in 1 .. m : points[j] < Wanted
        <5> SUFFICES ASSUME NEW j \in 1 .. m PROVE points[j] < Wanted
          OBVIOUS
        <5>1. points[j] <= points[m]
          BY <1>0, <2>1, <2>4 DEF Sorted
        <5> QED BY <1>0, <2>1, <2>4, <3>1, <5>1
      <4>2. l' = m + 1 /\ r' = r
        BY <2>3, <3>1
      <4> QED BY <2>1, <2>2, <4>1, <4>2 DEF SearchBounds
    <3>2. CASE ~(Wanted > points[m])
      <4>1. Wanted <= points[m]
        BY <1>0, <2>1, <2>4, <3>2
      <4> QED BY <2>1, <2>2, <2>3, <3>2, <4>1 DEF SearchBounds
    <3> QED BY <3>1, <3>2
  <2>7. BucketsRight' /\ Sorted'
    BY <2>2 DEF BucketsRight, NodeFor, Sorted
  <2> QED BY <2>5, <2>6, <2>7
<1>2. CASE Fill
  <2>1. Found \in 1 .. Nodes /\ NodeFor(Found, Wanted)
    BY <1>2, FoundRight DEF Fill
  <2>2. /\ l' = 1 /\ r' = Nodes /\ points' = points
        /\ buckets' = Append(buckets, Found) /\ Len(buckets) < Buckets
    BY <1>2 DEF Fill
  <2>3. buckets \in Seq(1 .. Nodes)
    BY DEF RingTypeOK
  <2>4. /\ buckets' \in Seq(1 .. Nodes)
        /\ Len(buckets') = Len(buckets) + 1
        /\ \A i \in 1 .. Len(buckets) : buckets'[i] = buckets[i]
        /\ buckets'[Len(buckets) + 1] = Found
        /\ Len(buckets) \in Nat
    BY <2>1, <2>2, <2>3
  <2>5. RingTypeOK'
    BY <1>0, <2>2, <2>4 DEF RingTypeOK
  <2>6. SearchBounds'
    BY <1>0, <2>2 DEF SearchBounds
  <2>7. BucketsRight'
    <3> SUFFICES ASSUME NEW i \in 1 .. Len(buckets) + 1
                 PROVE  NodeFor(buckets[i], Point(i - 1))'
      BY <2>4 DEF BucketsRight
    <3>1. CASE i = Len(buckets) + 1
      BY <2>1, <2>2, <2>4, <3>1 DEF Wanted, NodeFor
    <3>2. CASE i # Len(buckets) + 1
      <4>1. i \in 1 .. Len(buckets)
        BY <2>4, <3>2
      <4> QED BY <2>2, <2>4, <4>1 DEF BucketsRight, NodeFor
    <3> QED BY <3>1, <3>2
  <2> QED BY <2>2, <2>5, <2>6, <2>7 DEF Sorted
<1>3. CASE UNCHANGED ringVars
  BY <1>3 DEF ringVars, RingTypeOK, Sorted, SearchBounds, BucketsRight, NodeFor, Wanted
<1> QED BY <1>1, <1>2, <1>3 DEF RingNext

\* Every bucket of every ring holds the node its point falls to (c_hash.lua:75-114).
THEOREM RingRight == RingSpec => []BucketsRight
<1>1. RingInv => BucketsRight
  BY DEF RingInv
<1> QED BY <1>1, InitRing, StepRing, PTL DEF RingSpec

\* No bucket is ever without a node, and the search never leaves the ring
\* (c_hash.lua:10-29).
THEOREM RingTypeCorrect == RingSpec => []RingTypeOK
<1>1. RingInv => RingTypeOK
  BY DEF RingInv
<1> QED BY <1>1, InitRing, StepRing, PTL DEF RingSpec

\* The bounds of the binary search enclose the wanted point at every turn of the
\* loop (c_hash.lua:13-20).
THEOREM SearchSound == RingSpec => []SearchBounds
<1>1. RingInv => SearchBounds
  BY DEF RingInv
<1> QED BY <1>1, InitRing, StepRing, PTL DEF RingSpec

=============================================================================
