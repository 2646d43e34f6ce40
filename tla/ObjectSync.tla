------------------------------ MODULE ObjectSync ------------------------------
(***************************************************************************)
(* Replication of the business objects from MySQL into the shared dicts of *)
(* the sax workers: center.lua updateObjectInfo, sax.lua updateObjectInfo  *)
(* and initObjectInfo, and the *SD methods of model/object.lua.            *)
(*                                                                         *)
(* The center checks each id of a request, writes each row, replies, and   *)
(* then tells every worker what to delete or to load again.  Requests      *)
(* overlap, a query yields, so the handlers of one worker overlap as well, *)
(* notifications arrive in any order or not at all, and none is repeated.  *)
(*                                                                         *)
(* All requests of a behaviour are about one table: tables do not interact.*)
(* A resource is cached together with its virtual object, the publisher.   *)
(* The dict key of most objects is their id; that of a creative or an      *)
(* advertiser is made from columns of the row (dspid .. dspideaid), which  *)
(* are not unique, may be updated, and are gone once the row is deleted.   *)
(***************************************************************************)
EXTENDS Integers, Sequences, FiniteSets

CONSTANTS Ids,        \* ids of the objects
          Keys,       \* dict keys of creatives
          Workers,    \* rows of table server with type 's'
          Reqs,       \* the /center/updateobject requests of a behaviour
          Lists,      \* content lists: sequences of ids
          Tables,     \* some of "dsp", "resource", "creative"
          Seed,       \* content of a row before any request
          Absent,     \* no row, no dict entry
          Boot,       \* the task /sax/initobject
          MaxOverlap  \* bound: requests and boots under way at the same time

ASSUME ListsAssumption == Lists \subseteq Seq(Ids) \ {<<>>}
ASSUME TablesAssumption == Tables \subseteq {"dsp", "resource", "creative"}
ASSUME DistinctAssumption == Boot \notin Reqs

\* Absent is none of the things that can be there instead.
ASSUME AbsentAssumption == /\ Absent \notin Keys \cup Ids
                           /\ Absent \notin [by : Reqs \cup {Seed}, key : Keys \cup Ids]
                           /\ Absent \notin Ids \X (Reqs \cup {Seed})

VARIABLES table,     \* the table the requests are about
          db,        \* db[id]: the row: the request that wrote it, and its dict key
          sd,        \* sd[w][kind][key]: the entry in w's dict, an id and a request
          req,       \* req[r]: a request at the center
          task,      \* task[t]: t = <<r, w>>, the notification of w by r; or a Boot
          cause,     \* cause[w]: entries <<kind, key>> with an excuse (history)
          clash      \* keys that two rows have had at the same time (history)

vars == <<table, db, sd, req, task, cause, clash>>

\* objectTable and virtualObjectName: what a table is cached as.
Kinds == IF table = "resource" THEN <<"resource", "publisher">> ELSE <<table>>
KindSet == {Kinds[i] : i \in DOMAIN Kinds}

AllKinds == {"dsp", "resource", "publisher", "creative"}
AllKeys == Keys \cup Ids
KeysOf(id) == IF table = "creative" THEN Keys ELSE {id}
Tasks == (Reqs \cup {Boot}) \X Workers
SeqToSet(c) == {c[i] : i \in DOMAIN c}
InDb == {id \in Ids : db[id] # Absent}
IdsAt(key) == {id \in InDb : db[id].key = key}

NoReq == [pc |-> "idle", op |-> "update", ids |-> <<>>, keys |-> <<>>, exist |-> <<>>, next |-> 1]
Done == [NoReq EXCEPT !.pc = "done"]
NoTask == [pc |-> "none", op |-> "update", ids |-> <<>>, keys |-> <<>>,
           kinds |-> <<>>, rows |-> {}, met |-> {}]

IsBoot(t) == t[1] = Boot
TaskIds(t) == IF IsBoot(t) THEN Ids ELSE SeqToSet(task[t].ids)
TaskKeys(t) == IF IsBoot(t) THEN AllKeys ELSE SeqToSet(task[t].keys) \ {Absent}
Running(t) == task[t].pc \in {"read", "set"}

\* The requests not yet applied everywhere, and the boots.
Busy == {r \in Reqs : req[r].pc \in {"check", "write"}} \cup
        {t[1] : t \in {u \in Tasks : task[u].pc # "none"}}

Init ==
  /\ table \in Tables
  /\ db \in [Ids -> [by : {Seed}, key : AllKeys] \cup {Absent}]
  /\ \A id \in InDb : db[id].key \in KeysOf(id) /\ IdsAt(db[id].key) = {id}
  /\ sd = [w \in Workers |-> [k \in AllKinds |-> [key \in AllKeys |->
             IF k \in KindSet /\ IdsAt(key) # {} THEN <<CHOOSE id \in IdsAt(key) : TRUE, Seed>>
             ELSE Absent]]]
  /\ req = [r \in Reqs |-> NoReq]
  /\ task = [t \in Tasks |-> NoTask]
  /\ cause = [w \in Workers |-> {}]
  /\ clash = {}

Blame(w, keys) == cause' = [cause EXCEPT ![w] = @ \cup (KindSet \X keys)]
BlameAll(keys) == cause' = [w \in Workers |-> cause[w] \cup (KindSet \X keys)]

-----------------------------------------------------------------------------
(* The center: updateObjectInfo *)

\* argsParse.  keys[i] is the key of the row that an update makes of ids[i].
Begin(r) ==
  /\ req[r].pc = "idle"
  /\ Cardinality(Busy) < MaxOverlap
  /\ \E op \in {"update", "delete"}, c \in Lists :
       \E keys \in IF op = "delete" THEN {<<>>}
                   ELSE {k \in [DOMAIN c -> AllKeys] : \A i \in DOMAIN c : k[i] \in KeysOf(c[i])} :
         req' = [req EXCEPT ![r] = [NoReq EXCEPT !.pc = "check", !.op = op, !.ids = c, !.keys = keys]]
  /\ UNCHANGED <<table, db, sd, task, cause, clash>>

\* contentParse, one checkExist query at a time; a delete needs all the rows.
Check(r) ==
  /\ req[r].pc = "check"
  /\ LET q == req[r]
         flags == Append(q.exist, q.ids[q.next] \in InDb)
         refused == q.op = "delete" /\ \E i \in DOMAIN flags : ~flags[i]
     IN  req' = [req EXCEPT ![r] =
                   IF q.next < Len(q.ids) THEN [q EXCEPT !.exist = flags, !.next = @ + 1]
                   ELSE IF refused THEN Done
                   ELSE [q EXCEPT !.pc = "write", !.exist = flags, !.next = 1]]
  /\ UNCHANGED <<table, db, sd, task, cause, clash>>

\* The query fails, or an attribute is not valid.
CheckFail(r) ==
  /\ req[r].pc = "check"
  /\ req' = [req EXCEPT ![r] = Done]
  /\ UNCHANGED <<table, db, sd, task, cause, clash>>

Writing(r) == req[r].pc = "write" /\ req[r].next <= Len(req[r].ids)
ThisId(r) == req[r].ids[req[r].next]
KeyKnown(r) == Len(req[r].keys) >= req[r].next

\* deleteInfoDB asks for the dict key before it deletes the row: getObjectId.
\* If the row is gone by now, there is nothing to tell the workers.
GetObjectId(r) ==
  /\ Writing(r)
  /\ ~KeyKnown(r)
  /\ LET key == IF ThisId(r) \in InDb THEN db[ThisId(r)].key
                ELSE IF table = "creative" THEN Absent ELSE ThisId(r)
     IN  req' = [req EXCEPT ![r].keys = Append(@, key)]
  /\ UNCHANGED <<table, db, sd, task, cause, clash>>

\* The row after the statement of updateInfo, insertInfo or deleteInfo: an
\* update of a row that is gone has no effect, and is no error.
RowAfter(r) ==
  LET q == req[r]
  IN  IF q.op = "delete" \/ (q.exist[q.next] /\ ThisId(r) \notin InDb) THEN Absent
      ELSE [by |-> r, key |-> q.keys[q.next]]

DuplicateKey(r) == /\ req[r].op = "update" /\ ~req[r].exist[req[r].next]
                   /\ ThisId(r) \in InDb

\* The new row has the key of another one.
NoteClash ==
  clash' = clash \cup
  {key \in Keys : \E i, j \in Ids : /\ i # j /\ db'[i] # Absent /\ db'[j] # Absent
                                   /\ db'[i].key = key /\ db'[j].key = key}

\* The key of the old row, if nobody will be told of it: an update has changed
\* the key, or another request did so after getObjectId.
Orphaned(r) ==
  IF ThisId(r) \in InDb /\ db[ThisId(r)].key # req[r].keys[req[r].next]
    THEN {db[ThisId(r)].key} ELSE {}

\* updateInfoDB and deleteInfoDB, one statement at a time.
Write(r) ==
  /\ Writing(r)
  /\ KeyKnown(r)
  /\ ~DuplicateKey(r)
  /\ db' = [db EXCEPT ![ThisId(r)] = RowAfter(r)]
  /\ NoteClash
  /\ BlameAll(Orphaned(r))
  /\ req' = [req EXCEPT ![r].next = @ + 1]
  /\ UNCHANGED <<table, sd, task>>

\* The keys at which what r has written so far, this row included, is seen.
Touched(r) == {req[r].keys[i] : i \in (1 .. req[r].next) \cap DOMAIN req[r].keys} \ {Absent}

\* The statement fails, or its answer is lost after it took effect.  The rows
\* written before stay, and nobody is told.
WriteFail(r) ==
  /\ Writing(r)
  /\ KeyKnown(r)
  /\ \/ UNCHANGED db
     \/ ~DuplicateKey(r) /\ db' = [db EXCEPT ![ThisId(r)] = RowAfter(r)]
  /\ NoteClash
  /\ BlameAll(Touched(r) \cup Orphaned(r))
  /\ req' = [req EXCEPT ![r] = Done]
  /\ UNCHANGED <<table, sd, task>>

AllWritten(r) == req[r].pc = "write" /\ req[r].next > Len(req[r].ids)

\* The answer is sent; then notifySax tells all workers: of the ids to load
\* again, or of the keys to delete.  With nothing to delete the list of keys is
\* empty, and the workers refuse it.
NotifySax(r) ==
  /\ AllWritten(r)
  /\ task' = [t \in Tasks |->
                IF t[1] = r /\ Touched(r) # {}
                  THEN [NoTask EXCEPT !.pc = "sent", !.op = req[r].op, !.ids = req[r].ids,
                                      !.keys = req[r].keys]
                  ELSE task[t]]
  /\ req' = [req EXCEPT ![r] = Done]
  /\ UNCHANGED <<table, db, sd, cause, clash>>

\* The query for the list of workers fails.
NotifyFail(r) ==
  /\ AllWritten(r)
  /\ BlameAll(Touched(r))
  /\ req' = [req EXCEPT ![r] = Done]
  /\ UNCHANGED <<table, db, sd, task, clash>>

-----------------------------------------------------------------------------
(* A worker: updateObjectInfo and initObjectInfo *)

IsDelete(t) == task[t].op = "delete"

\* Task t starts, with the kinds ks to load.
Launch(t, ks) == task' = [task EXCEPT ![t].pc = "read", ![t].kinds = ks]

\* Mutant: the virtual object is not loaded again.
DeliverPlain(t) ==
  /\ task[t].pc = "sent"
  /\ Launch(t, <<Head(Kinds)>>)
  /\ UNCHANGED <<table, db, sd, req, cause, clash>>

Deliver(t) ==
  /\ task[t].pc = "sent"
  /\ Launch(t, Kinds)
  /\ UNCHANGED <<table, db, sd, req, cause, clash>>

\* The notification is lost or refused; the center logs it and goes on.
Lose(t) ==
  /\ task[t].pc = "sent"
  /\ task' = [task EXCEPT ![t] = NoTask]
  /\ Blame(t[2], TaskKeys(t))
  /\ UNCHANGED <<table, db, sd, req, clash>>

\* initObjectInfo: flushAllDict, then cacheInfoSD for every object.
FlushAndCache(w) ==
  /\ task[<<Boot, w>>].pc = "none"
  /\ Cardinality(Busy) < MaxOverlap
  /\ sd' = [sd EXCEPT ![w] = [k \in AllKinds |-> [key \in AllKeys |-> Absent]]]
  /\ Launch(<<Boot, w>>, Kinds)
  /\ UNCHANGED <<table, db, req, cause, clash>>

\* updateInfoSD, for a list of one id, gives up if the row is missing; the
\* handler then skips the virtual object too.
RowMissing(t) == ~IsDelete(t) /\ Len(task[t].ids) = 1 /\ task[t].ids[1] \notin InDb

\* Mutants: the entry is stored under the id of the row; only the first id of
\* the list is loaded.
RowsByDbId(t) ==
  IF IsDelete(t) THEN {<<key, Absent>> : key \in TaskKeys(t)}
  ELSE {<<id, <<id, db[id].by>>>> : id \in TaskIds(t) \cap InDb}

RowOfFirst(t) ==
  IF IsDelete(t) THEN {<<key, Absent>> : key \in TaskKeys(t)}
  ELSE {<<db[id].key, <<id, db[id].by>>>> :
          id \in InDb \cap (IF IsBoot(t) THEN Ids ELSE {task[t].ids[1]})}

\* The entries a task is about to store: the rows read from the database
\* (updateInfoSD, updateInfoListSD, updateInfoAllSD), each with its dict key;
\* or, for deleteInfoListSD, nil under every key.
RowsFor(t) ==
  IF IsDelete(t) THEN {<<key, Absent>> : key \in TaskKeys(t)}
  ELSE {<<db[id].key, <<id, db[id].by>>>> : id \in TaskIds(t) \cap InDb}

ReadRows(t) ==
  /\ task[t].pc = "read"
  /\ task' = [task EXCEPT ![t] = IF RowMissing(t) THEN NoTask
                                  ELSE [@ EXCEPT !.pc = "set", !.rows = RowsFor(t), !.met = {}]]
  /\ UNCHANGED <<table, db, sd, req, cause, clash>>

\* Entry e is what a row with this key says, or there is neither.
Right(key, e) == \/ e = Absent /\ IdsAt(key) = {}
                 \/ \E id \in IdsAt(key) : e = <<id, db[id].by>>

\* Handler t stores row: it keeps the others, and every other handler that has
\* rows in hand for the same worker notes the entry in met.
Stored(t, row) ==
  [u \in Tasks |->
     IF u = t THEN [task[t] EXCEPT !.rows = @ \ {row}]
     ELSE IF u[2] = t[2] /\ task[u].pc = "set"
       THEN [task[u] EXCEPT !.met = @ \cup {<<Head(task[t].kinds), row[1]>>}]
     ELSE task[u]]

\* setDict, or deleteInfoSD, for one row.  What is stored is right, or the row
\* has changed since it was read and the handler of that change is still to
\* come.  The entry is left wrong if another handler has stored it since this
\* one read its rows, or if a delete removes what was inserted again, or what
\* another row has stored under the same key.
SetEntry(t) ==
  /\ task[t].pc = "set"
  /\ \E row \in task[t].rows :
       LET w == t[2]
           e == <<Head(task[t].kinds), row[1]>>
       IN  /\ sd' = [sd EXCEPT ![w][e[1]][e[2]] = row[2]]
           /\ task' = Stored(t, row)
           /\ cause' = [cause EXCEPT ![w] =
                          IF Right(row[1], row[2]) THEN @ \ {e}
                          ELSE IF IsDelete(t) \/ e \in task[t].met THEN @ \cup {e} ELSE @]
  /\ UNCHANGED <<table, db, req, clash>>

\* All rows stored: the virtual object is next, if there is one.
NextKind(t) ==
  /\ task[t].pc = "set"
  /\ task[t].rows = {}
  /\ LET ks == task[t].kinds
     IN  task' = [task EXCEPT ![t] = IF Len(ks) = 1 THEN NoTask
                                     ELSE [@ EXCEPT !.pc = "read", !.kinds = Tail(ks)]]
  /\ UNCHANGED <<table, db, sd, req, cause, clash>>

\* Mutant: a handler that fails starts again, however often it does.
StartAgain(t) ==
  /\ Running(t)
  /\ task' = [task EXCEPT ![t].pc = "read", ![t].rows = {}]
  /\ UNCHANGED <<table, db, sd, req, cause, clash>>

\* A query fails, transformInfo raises an error, setDict reports that the dict
\* was full, or the process dies: the handler stops where it is.
Abort(t) ==
  /\ Running(t)
  /\ task' = [task EXCEPT ![t] = NoTask]
  /\ Blame(t[2], TaskKeys(t) \cup {db[id].key : id \in TaskIds(t) \cap InDb})
  /\ UNCHANGED <<table, db, sd, req, clash>>

\* A full dict evicts entries.
Evict(w, k, key) ==
  /\ sd[w][k][key] # Absent
  /\ sd' = [sd EXCEPT ![w][k][key] = Absent]
  /\ cause' = [cause EXCEPT ![w] = @ \cup {<<k, key>>}]
  /\ UNCHANGED <<table, db, req, task, clash>>

Center(r) == \/ Check(r) \/ CheckFail(r) \/ GetObjectId(r) \/ Write(r) \/ WriteFail(r)
             \/ NotifySax(r) \/ NotifyFail(r)

Handler(t) == ReadRows(t) \/ SetEntry(t) \/ NextKind(t) \/ Abort(t)

Next ==
  \/ \E r \in Reqs : Begin(r) \/ Center(r)
  \/ \E t \in Tasks : Deliver(t) \/ Lose(t) \/ Handler(t)
  \/ \E w \in Workers : FlushAndCache(w)
  \/ \E w \in Workers, k \in AllKinds, key \in AllKeys : Evict(w, k, key)

\* A handler that has been started runs on: every query and every proxied
\* request ends within its timeout.
Fairness == /\ \A r \in Reqs : WF_vars(Center(r))
            /\ \A t \in Tasks : WF_vars(Handler(t)) /\ WF_vars(Deliver(t) \/ Lose(t))

Spec == Init /\ [][Next]_vars /\ Fairness

-----------------------------------------------------------------------------
(* Properties *)

Entries == AllKinds \X AllKeys
Writers == Reqs \cup {Seed}

\* Every variable has its type: rows and dict entries hold what some request has
\* written, or nothing, and an entry is filed under a key such objects can have
\* (db.lua:258-346, 369-409, object.lua:23-37).
TypeOK ==
  /\ table \in Tables
  /\ db \in [Ids -> [by : Writers, key : AllKeys] \cup {Absent}]
  /\ sd \in [Workers -> [AllKinds -> [AllKeys -> (Ids \X Writers) \cup {Absent}]]]
  /\ \A w \in Workers, e \in Entries :
       sd[w][e[1]][e[2]] # Absent => e[1] \in KindSet /\ e[2] \in KeysOf(sd[w][e[1]][e[2]][1])
  /\ \A r \in Reqs : req[r].pc \in {"idle", "check", "write", "done"}
  /\ \A t \in Tasks : task[t].pc \in {"none", "sent", "read", "set"}
  /\ cause \in [Workers -> SUBSET Entries]

\* A change seen at key is on its way to worker w, or being applied there.
Underway(w, key) ==
  \/ \E r \in Reqs : /\ req[r].pc = "write"
                      /\ \E i \in 1 .. req[r].next - 1 : req[r].keys[i] = key
  \/ \E t \in Tasks : t[2] = w /\ task[t].pc # "none" /\ key \in TaskKeys(t)

\* A dict entry differs from the rows only while a change is under way or for one
\* of the known causes: a step that failed or was lost, an eviction, an older
\* row stored over a newer one, a delete that arrives after the id was inserted
\* again or that removes the entry of another row with the same key, and a row
\* whose key has changed: its old entry is never removed, nor is it when the key
\* changes between getObjectId and the delete (center.lua:84-159, sax.lua:47-86,
\* object.lua:75-114, creative.lua:87-92).
StaleHasCause ==
  \A w \in Workers, k \in KindSet, key \in AllKeys :
    ~Right(key, sd[w][k][key]) =>
      Underway(w, key) \/ <<k, key>> \in cause[w] \/ key \in clash

\* No entry without such a cause stays wrong for ever: the handlers that have
\* the change in hand end (center.lua:246-248).
NotStaleForever ==
  \A w \in Workers, e \in Entries :
    []<>(\/ e[1] \notin KindSet \/ Right(e[2], sd[w][e[1]][e[2]])
         \/ e \in cause[w] \/ e[2] \in clash)

=============================================================================
