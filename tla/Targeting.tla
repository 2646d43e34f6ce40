------------------------------ MODULE Targeting ------------------------------
(***************************************************************************)
(* The targeting records of saxmob (tdm): tdm/master.lua, tdm/worker.lua,  *)
(* tdm/targeting.lua and common/redis.lua.                                 *)
(*                                                                         *)
(* The master writes batches of records to the redis masters, one thread   *)
(* per peer; a redis slave follows its master after a while.  A worker     *)
(* answers get_value from the object of the ad request, else from its      *)
(* dict ngx.shared.targeting, else from a slave, and keeps what it got in  *)
(* both.  Entries of the dict have no expiry; a missing record is kept as  *)
(* "[]", and so is one the slave answers with an error for: only           *)
(* /targeting/flush, which the master sends after an import, removes them. *)
(***************************************************************************)
EXTENDS Integers, FiniteSets

CONSTANTS Ids,       \* udids
          Peers,     \* redis peers
          PeerOf,    \* PeerOf[id]: get_consistent_hash_peer
          Slaves,    \* rd_slave of each peer, all peers alike
          Batches,   \* the /targeting/import requests of a behaviour
          Absent,    \* no record
          Nil,       \* no dict entry, no object entry
          Workers,
          Procs,     \* ad requests of one worker at a time
          MaxFlush   \* bound: flush messages on their way to a worker

ASSUME PeersAssumption == PeerOf \in [Ids -> Peers]
ASSUME ValuesAssumption == /\ Absent \notin Batches
                           /\ Nil \notin Batches \cup {Absent}
ASSUME FlushAssumption == MaxFlush \in Nat \ {0}

VARIABLES master,   \* master[id]: the batch that wrote the record, or Absent
          slave,    \* slave[s][id]
          batch,    \* batch[b]: an import
          written,  \* written[b]: ids whose SET took effect (history)
          del,      \* del_all: the peers still to be flushed, or Nil
          flushes,  \* flushes[w]: flush messages on their way
          dict,     \* dict[w][id]: ngx.shared.targeting
          object,   \* object[w][p][id]: self.object of the request of process p
          query,    \* query[w][p]: what p is about to store, or Nil
          got,      \* got[w][p][id]: the records the request has seen (history)
          changed   \* changed[w]: ids changed since w last flushed (history)

vars == <<master, slave, batch, written, del, flushes, dict, object, query, got, changed>>
redis == <<master, slave>>
imports == <<batch, written, del>>
readers == <<dict, object, query, got>>

Records == Batches \cup {Absent}
IdsOf(p) == {id \in Ids : PeerOf[id] = p}
NoBatch == [pc |-> "idle", ids |-> {}, open |-> {}, todo |-> {}, failed |-> {}]

\* A record is kept with what is known of the read it stems from (history):
\* whether the slave was behind, whether the dict was flushed before the store,
\* whether the slave gave no record but an error.
Entry(id, rec, lag) == [id |-> id, rec |-> rec, lag |-> lag, old |-> FALSE, refused |-> FALSE]
NoRecord(id) == [id |-> id, rec |-> Absent, lag |-> FALSE, old |-> FALSE, refused |-> TRUE]
Outdated(e) == [e EXCEPT !.old = TRUE]

Init ==
  /\ master = [id \in Ids |-> Absent]
  /\ slave = [s \in Slaves |-> master]
  /\ batch = [b \in Batches |-> NoBatch]
  /\ written = [b \in Batches |-> {}]
  /\ del = Nil
  /\ flushes = [w \in Workers |-> 0]
  /\ dict = [w \in Workers |-> [id \in Ids |-> Nil]]
  /\ object = [w \in Workers |-> [p \in Procs |-> [id \in Ids |-> Nil]]]
  /\ query = [w \in Workers |-> [p \in Procs |-> Nil]]
  /\ got = [w \in Workers |-> [p \in Procs |-> [id \in Ids |-> {}]]]
  /\ changed = [w \in Workers |-> {}]

-----------------------------------------------------------------------------
(* update_redis *)

\* The record of each id of ids becomes rec on the redis master.
Change(ids, rec) ==
  /\ master' = [id \in Ids |-> IF id \in ids THEN rec ELSE master[id]]
  /\ changed' = [w \in Workers |-> changed[w] \cup ids]

\* _format_data: a batch with an invalid record is refused before any write.
Import(b) ==
  /\ batch[b].pc = "idle"
  /\ \/ \E ids \in SUBSET Ids \ {{}} :
          batch' = [batch EXCEPT ![b] = [pc |-> "write", ids |-> ids, todo |-> ids, failed |-> {},
                                         open |-> {PeerOf[id] : id \in ids}]]
     \/ batch' = [batch EXCEPT ![b].pc = "done"]
  /\ UNCHANGED <<redis, written, del, flushes, readers, changed>>

\* The redis master executes a SET of the pipeline, in time or after the
\* connection was given up.
Set(b, id) ==
  /\ id \in batch[b].todo
  /\ Change({id}, b)
  /\ batch' = [batch EXCEPT ![b].todo = @ \ {id}]
  /\ written' = [written EXCEPT ![b] = @ \cup {id}]
  /\ UNCHANGED <<slave, del, flushes, readers>>

\* It answers the SET with an error.
SetError(b, id) ==
  /\ id \in batch[b].todo
  /\ PeerOf[id] \in batch[b].open
  /\ batch' = [batch EXCEPT ![b] = [@ EXCEPT !.todo = batch[b].todo \ {id},
                                            !.failed = batch[b].failed \cup {id}]]
  /\ UNCHANGED <<redis, written, del, flushes, readers, changed>>

PeerDone(b, p) ==
  /\ p \in batch[b].open
  /\ batch[b].todo \cap IdsOf(p) = {}
  /\ batch' = [batch EXCEPT ![b].open = @ \ {p}]
  /\ UNCHANGED <<redis, written, del, flushes, readers, changed>>

\* Mutant: _check_failed looks at single results only.
PeerFailUnseen(b, p) ==
  /\ p \in batch[b].open
  /\ batch' = [batch EXCEPT ![b].open = @ \ {p}]
  /\ UNCHANGED <<redis, written, del, flushes, readers, changed>>

\* No connection, or no answer in time: _check_failed reports all ids of the peer.
PeerFail(b, p) ==
  /\ p \in batch[b].open
  /\ batch' = [batch EXCEPT ![b] = [@ EXCEPT !.open = batch[b].open \ {p},
                              !.failed = batch[b].failed \cup (batch[b].ids \cap IdsOf(p))]]
  /\ UNCHANGED <<redis, written, del, flushes, readers, changed>>

Reply(b) ==
  /\ batch[b].pc = "write"
  /\ batch[b].open = {}
  /\ batch' = [batch EXCEPT ![b].pc = "done"]
  /\ UNCHANGED <<redis, written, del, flushes, readers, changed>>

-----------------------------------------------------------------------------
(* finish and del_all *)

\* finish: a message to every worker.
SendFlush ==
  /\ \A w \in Workers : flushes[w] < MaxFlush
  /\ flushes' = [w \in Workers |-> flushes[w] + 1]

\* /targeting/done.
Finish ==
  /\ SendFlush
  /\ UNCHANGED <<redis, imports, readers, changed>>

DelAll ==
  /\ del = Nil
  /\ del' = Peers
  /\ UNCHANGED <<redis, batch, written, flushes, readers, changed>>

\* redis.del_all: FLUSHALL on one master after the other; one without a
\* connection is skipped.
DelPeer(p) ==
  /\ del # Nil
  /\ p \in del
  /\ del' = del \ {p}
  /\ Change(IdsOf(p), Absent) \/ UNCHANGED <<master, changed>>
  /\ UNCHANGED <<slave, batch, written, flushes, readers>>

\* ... and then finish, which gives up if it cannot read the list of workers.
DelFinish ==
  /\ del = {}
  /\ del' = Nil
  /\ SendFlush \/ UNCHANGED flushes
  /\ UNCHANGED <<redis, batch, written, readers, changed>>

\* The record expires 30 days after it was set.
Expire(id) ==
  /\ master[id] # Absent
  /\ Change({id}, Absent)
  /\ UNCHANGED <<slave, imports, flushes, readers>>

\* A slave catches up with its master.
Replicate(s, id) ==
  /\ slave[s][id] # master[id]
  /\ slave' = [slave EXCEPT ![s][id] = master[id]]
  /\ UNCHANGED <<master, imports, flushes, readers, changed>>

-----------------------------------------------------------------------------
(* A worker *)

\* Mutant: flush_expired in place of flush_all: the entries have no expiry and stay.
FlushExpired(w) ==
  /\ flushes[w] > 0
  /\ flushes' = [flushes EXCEPT ![w] = @ - 1]
  /\ query' = [query EXCEPT ![w] =
                 [p \in Procs |-> IF query[w][p] = Nil THEN Nil ELSE Outdated(query[w][p])]]
  /\ changed' = [changed EXCEPT ![w] = {}]
  /\ UNCHANGED <<redis, imports, dict, object, got>>

\* flush_dict.  Reads that are under way will store what they got before.
FlushDict(w) ==
  /\ flushes[w] > 0
  /\ flushes' = [flushes EXCEPT ![w] = @ - 1]
  /\ dict' = [dict EXCEPT ![w] = [id \in Ids |-> Nil]]
  /\ query' = [query EXCEPT ![w] =
                 [p \in Procs |-> IF query[w][p] = Nil THEN Nil ELSE Outdated(query[w][p])]]
  /\ changed' = [changed EXCEPT ![w] = {}]
  /\ UNCHANGED <<redis, imports, object, got>>

\* The message gets lost, or the worker is down; it is not repeated.
LoseFlush(w) ==
  /\ flushes[w] > 0
  /\ flushes' = [flushes EXCEPT ![w] = @ - 1]
  /\ UNCHANGED <<redis, imports, readers, changed>>

Evict(w, id) ==
  /\ dict[w][id] # Nil
  /\ dict' = [dict EXCEPT ![w][id] = Nil]
  /\ UNCHANGED <<redis, imports, flushes, object, query, got, changed>>

\* get_value returns an attribute of rec to the request of p.
Return(w, p, id, rec) == got' = [got EXCEPT ![w][p][id] = @ \cup {rec}]

\* _get_attr: the object has the record ...
FromObject(w, p, id) ==
  /\ query[w][p] = Nil
  /\ object[w][p][id] # Nil
  /\ Return(w, p, id, object[w][p][id])
  /\ UNCHANGED <<redis, imports, flushes, dict, object, query, changed>>

\* Mutant: what is found in the dict is not kept in the object.
FromDictOnly(w, p, id) ==
  /\ query[w][p] = Nil
  /\ object[w][p][id] = Nil
  /\ dict[w][id] # Nil
  /\ Return(w, p, id, dict[w][id].rec)
  /\ UNCHANGED <<redis, imports, flushes, dict, object, query, changed>>

\* ... or the dict has it.
FromDict(w, p, id) ==
  /\ query[w][p] = Nil
  /\ object[w][p][id] = Nil
  /\ dict[w][id] # Nil
  /\ object' = [object EXCEPT ![w][p][id] = dict[w][id].rec]
  /\ Return(w, p, id, dict[w][id].rec)
  /\ UNCHANGED <<redis, imports, flushes, dict, query, changed>>

Missing(w, p, id) == /\ query[w][p] = Nil
                     /\ object[w][p][id] = Nil
                     /\ dict[w][id] = Nil

\* Mutant: ngx.null is not replaced by "[]".
QueryRawNull(w, p, id) ==
  /\ Missing(w, p, id)
  /\ \E s \in Slaves :
       LET rec == IF slave[s][id] = Absent THEN Nil ELSE slave[s][id]
       IN  query' = [query EXCEPT ![w][p] = Entry(id, rec, slave[s][id] # master[id])]
  /\ UNCHANGED <<redis, imports, flushes, dict, object, got, changed>>

\* redis.get, answered by a slave of the peer.
Query(w, p, id) ==
  /\ Missing(w, p, id)
  /\ \E s \in Slaves :
       query' = [query EXCEPT ![w][p] = Entry(id, slave[s][id], slave[s][id] # master[id])]
  /\ UNCHANGED <<redis, imports, flushes, dict, object, got, changed>>

\* The slave answers GET with an error, which commit_pipeline hands on as
\* {false, err}, or with a value that is not JSON: either becomes "[]".
QueryError(w, p, id) ==
  /\ Missing(w, p, id)
  /\ query' = [query EXCEPT ![w][p] = NoRecord(id)]
  /\ UNCHANGED <<redis, imports, flushes, dict, object, got, changed>>

\* redis.get fails, without a connection or an answer: the request goes on
\* without the record.
QueryFail(w, p, id) ==
  /\ Missing(w, p, id)
  /\ object' = [object EXCEPT ![w][p][id] = Absent]
  /\ Return(w, p, id, Absent)
  /\ UNCHANGED <<redis, imports, flushes, dict, query, changed>>

\* _set_attr: into the object, and into the dict unless that has no memory.
Store(w, p) ==
  /\ query[w][p] # Nil
  /\ LET e == query[w][p]
     IN  /\ dict' = [dict EXCEPT ![w][e.id] = e] \/ UNCHANGED dict
         /\ object' = [object EXCEPT ![w][p][e.id] = e.rec]
         /\ Return(w, p, e.id, e.rec)
  /\ query' = [query EXCEPT ![w][p] = Nil]
  /\ UNCHANGED <<redis, imports, flushes, changed>>

\* The request ends; the next one of this process has a new object.
NewRequest(w, p) ==
  /\ query[w][p] = Nil
  /\ \E id \in Ids : object[w][p][id] # Nil
  /\ object' = [object EXCEPT ![w][p] = [id \in Ids |-> Nil]]
  /\ got' = [got EXCEPT ![w][p] = [id \in Ids |-> {}]]
  /\ UNCHANGED <<redis, imports, flushes, dict, query, changed>>

GetValue(w, p) ==
  \/ \E id \in Ids : \/ FromObject(w, p, id) \/ FromDict(w, p, id)
                     \/ Query(w, p, id) \/ QueryError(w, p, id) \/ QueryFail(w, p, id)
  \/ Store(w, p)

UpdateRedis(b) ==
  \/ Import(b) \/ Reply(b)
  \/ \E id \in Ids : Set(b, id) \/ SetError(b, id)
  \/ \E p \in Peers : PeerDone(b, p) \/ PeerFail(b, p)

Next ==
  \/ \E b \in Batches : UpdateRedis(b)
  \/ Finish \/ DelAll \/ DelFinish
  \/ \E p \in Peers : DelPeer(p)
  \/ \E id \in Ids : Expire(id) \/ (\E s \in Slaves : Replicate(s, id))
  \/ \E w \in Workers : \/ FlushDict(w) \/ LoseFlush(w)
                        \/ \E id \in Ids : Evict(w, id)
                        \/ \E p \in Procs : GetValue(w, p) \/ NewRequest(w, p)

Spec == Init /\ [][Next]_vars

-----------------------------------------------------------------------------
(* Properties *)

Imports == [pc : {"idle", "write", "done"}, ids : SUBSET Ids, open : SUBSET Peers,
            todo : SUBSET Ids, failed : SUBSET Ids]
Entries == [id : Ids, rec : Records, lag : BOOLEAN, old : BOOLEAN, refused : BOOLEAN]

\* Every variable has its type; an entry is stored under its own id.
TypeOK ==
  /\ master \in [Ids -> Records]
  /\ slave \in [Slaves -> [Ids -> Records]]
  /\ batch \in [Batches -> Imports]
  /\ written \in [Batches -> SUBSET Ids]
  /\ del \in (SUBSET Peers) \cup {Nil}
  /\ flushes \in [Workers -> 0 .. MaxFlush]
  /\ dict \in [Workers -> [Ids -> Entries \cup {Nil}]]
  /\ \A w \in Workers, id \in Ids : dict[w][id] # Nil => dict[w][id].id = id
  /\ object \in [Workers -> [Procs -> [Ids -> Records \cup {Nil}]]]
  /\ query \in [Workers -> [Procs -> Entries \cup {Nil}]]
  /\ got \in [Workers -> [Procs -> [Ids -> SUBSET Records]]]
  /\ changed \in [Workers -> SUBSET Ids]

\* The record of e is the one on the redis master, or a cause is known: the id
\* has changed since w was last flushed, the slave was behind, the dict was
\* flushed between the read and the store, or the slave gave an error, and then
\* the entry says that there is no record.
CurrentOrCause(w, e) ==
  \/ e.rec = master[e.id]
  \/ e.id \in changed[w]
  \/ e.lag \/ e.old
  \/ e.refused /\ e.rec = Absent

\* A flush is enough: after it the entries of a worker's dict, also those for
\* missing records, and the ones about to be stored differ from redis only for one
\* of those causes, whatever imports, deletions, flushes and reads overlap.  The
\* record of an id for which a slave gave an error stays away until the next flush
\* or eviction, as the code does not tell it from a missing one
\* (targeting.lua:72-130, master.lua:89-115).
ServesCurrent ==
  \A w \in Workers :
    /\ \A id \in Ids : dict[w][id] # Nil => CurrentOrCause(w, dict[w][id])
    /\ \A p \in Procs : query[w][p] # Nil => CurrentOrCause(w, query[w][p])

\* All attributes an ad request gets for one udid are of the same record, though
\* imports and flushes happen between the calls (targeting.lua:31-56, 96-125).
OneRecordPerRequest ==
  \A w \in Workers, p \in Procs, id \in Ids : Cardinality(got[w][p][id]) <= 1

\* An id that is missing in the answer to an import has been written: threads
\* that fail are not overlooked (master.lua:67-85, 142-164).
FailuresReported ==
  \A b \in Batches : batch[b].pc = "done" => batch[b].ids \subseteq written[b] \cup batch[b].failed

=============================================================================
