------------------------------- MODULE MobSync -------------------------------
(***************************************************************************)
(* Replication of the DSPs from MySQL into the shared dicts of the saxmob  *)
(* workers: bdm/master.lua update_object_info, bdm/worker.lua              *)
(* update_object_info and init_object_info, and the *_sd methods of        *)
(* bdm/object.lua.                                                         *)
(*                                                                         *)
(* It differs from the sax center (ObjectSync) in two ways.  A delete is   *)
(* not refused when a row is missing, and next to the entry of each DSP a  *)
(* worker keeps the list of all of them under the key dspall, which every  *)
(* handler builds anew, with a query of its own, after it has stored its   *)
(* entries.  So handlers that work on different ids meet in the list.      *)
(***************************************************************************)
EXTENDS Integers, Sequences, FiniteSets

CONSTANTS Ids,        \* ids of the DSPs
          Workers,    \* rows of table server with type 's'
          Reqs,       \* the update_object_info requests of a behaviour
          Contents,   \* content lists: sequences of ids
          Seed,       \* content of a row before any request
          Absent,     \* no row, no dict entry
          Boot,       \* the task init_object_info
          MaxOverlap  \* bound: requests and boots under way at the same time

ASSUME ContentsAssumption == Contents \subseteq Seq(Ids) \ {<<>>}
ASSUME DistinctAssumption == Absent \notin Reqs \cup {Seed} /\ Boot \notin Reqs

VARIABLES db,        \* db[id]: the row; its content is the request that wrote it
          sd,        \* sd[w][id]: the entry of the DSP in w's dict
          list,      \* list[w]: the ids under dspall; a missing list reads as no id
          req,       \* req[r]: a request at the master
          task,      \* task[t]: t = <<r, w>>, the notification of w by r; or a Boot
          cause,     \* cause[w]: ids whose entry has an excuse (history)
          listCause  \* listCause[w]: the list has an excuse (history)

dicts == <<sd, list>>
excuses == <<cause, listCause>>
vars == <<db, dicts, req, task, excuses>>

Tasks == (Reqs \cup {Boot}) \X Workers
IdSet(c) == {c[i] : i \in DOMAIN c}
InDb == {id \in Ids : db[id] # Absent}

NoReq == [pc |-> "idle", op |-> "update", content |-> <<>>, exist |-> <<>>, next |-> 1]
NoTask == [pc |-> "none", op |-> "update", content |-> <<>>, rows |-> {}, ids |-> {}, met |-> {}]
Done == [NoReq EXCEPT !.pc = "done"]

TaskIds(t) == IF t[1] = Boot THEN Ids ELSE IdSet(task[t].content)
Running(t) == task[t].pc \in {"read", "set", "list"}

\* The other handlers at work on worker t[2]: all of them build the list.
Rivals(t) == {u \in Tasks \ {t} : u[2] = t[2] /\ Running(u)}

\* The requests not yet applied everywhere, and the boots.
Busy == {r \in Reqs : req[r].pc \in {"check", "write"}} \cup
        {t[1] : t \in {u \in Tasks : task[u].pc # "none"}}

Init ==
  /\ db \in [Ids -> {Seed, Absent}]
  /\ sd = [w \in Workers |-> db]
  /\ list = [w \in Workers |-> InDb]
  /\ req = [r \in Reqs |-> NoReq]
  /\ task = [t \in Tasks |-> NoTask]
  /\ cause = [w \in Workers |-> {}]
  /\ listCause = [w \in Workers |-> FALSE]

Blame(w, ids) == /\ cause' = [cause EXCEPT ![w] = @ \cup ids]
                 /\ listCause' = [listCause EXCEPT ![w] = TRUE]
BlameAll(ids) == /\ cause' = [w \in Workers |-> cause[w] \cup ids]
                 /\ listCause' = [w \in Workers |-> TRUE]

-----------------------------------------------------------------------------
(* The master: update_object_info *)

Begin(r) ==
  /\ req[r].pc = "idle"
  /\ Cardinality(Busy) < MaxOverlap
  /\ \E op \in {"update", "delete"}, c \in Contents :
       req' = [req EXCEPT ![r].pc = "check", ![r].op = op, ![r].content = c]
  /\ UNCHANGED <<db, dicts, task, excuses>>

\* content_parse, one check_is_exist query at a time.  It is called without
\* is_delete: a missing row is no error, whatever the operation.
Check(r) ==
  /\ req[r].pc = "check"
  /\ LET q == req[r]
         flags == Append(q.exist, db[q.content[q.next]] # Absent)
     IN  req' = [req EXCEPT ![r] =
                   IF q.next < Len(q.content)
                     THEN [q EXCEPT !.exist = flags, !.next = @ + 1]
                     ELSE [q EXCEPT !.pc = "write", !.exist = flags, !.next = 1]]
  /\ UNCHANGED <<db, dicts, task, excuses>>

\* The query fails, or an attribute is not valid.
CheckFail(r) ==
  /\ req[r].pc = "check"
  /\ req' = [req EXCEPT ![r] = Done]
  /\ UNCHANGED <<db, dicts, task, excuses>>

\* The row after query_mysql_update, query_mysql_insert or query_mysql_delete:
\* an update of a row that is gone has no effect, and is no error.
RowAfter(q, r, old) ==
  IF q.op = "delete" \/ (q.exist[q.next] /\ old = Absent) THEN Absent ELSE r

DuplicateKey(q) == q.op = "update" /\ ~q.exist[q.next] /\ db[q.content[q.next]] # Absent

\* update_info_db and delete_info_db, one statement at a time.
Write(r) ==
  /\ req[r].pc = "write"
  /\ req[r].next <= Len(req[r].content)
  /\ ~DuplicateKey(req[r])
  /\ LET id == req[r].content[req[r].next]
     IN  db' = [db EXCEPT ![id] = RowAfter(req[r], r, @)]
  /\ req' = [req EXCEPT ![r].next = @ + 1]
  /\ UNCHANGED <<dicts, task, excuses>>

\* The statement fails, or its answer is lost after it took effect.  The rows
\* written before stay, and nobody is told.
WriteFail(r) ==
  /\ req[r].pc = "write"
  /\ req[r].next <= Len(req[r].content)
  /\ LET id == req[r].content[req[r].next]
     IN  \/ UNCHANGED db
         \/ ~DuplicateKey(req[r]) /\ db' = [db EXCEPT ![id] = RowAfter(req[r], r, @)]
  /\ BlameAll({req[r].content[i] : i \in 1 .. req[r].next})
  /\ req' = [req EXCEPT ![r] = Done]
  /\ UNCHANGED <<dicts, task>>

\* The answer is sent; then notify_sax tells all workers.
NotifySax(r) ==
  /\ req[r].pc = "write"
  /\ req[r].next > Len(req[r].content)
  /\ task' = [t \in Tasks |->
                IF t[1] = r THEN [NoTask EXCEPT !.pc = "sent", !.op = req[r].op,
                                                !.content = req[r].content]
                ELSE task[t]]
  /\ req' = [req EXCEPT ![r] = Done]
  /\ UNCHANGED <<db, dicts, excuses>>

\* get_saxmob_worker_all fails: ipairs(nil) raises an error.
NotifyFail(r) ==
  /\ req[r].pc = "write"
  /\ req[r].next > Len(req[r].content)
  /\ BlameAll(IdSet(req[r].content))
  /\ req' = [req EXCEPT ![r] = Done]
  /\ UNCHANGED <<db, dicts, task>>

-----------------------------------------------------------------------------
(* A worker: update_object_info and init_object_info *)

IsDelete(t) == task[t].op = "delete"

\* Task t starts.  met collects the ids that handlers running at the same time
\* as this one have in hand.
Launch(t) ==
  task' = [u \in Tasks |->
             IF u = t THEN [task[t] EXCEPT !.pc = "read", !.met = UNION {TaskIds(v) : v \in Rivals(t)}]
             ELSE IF u \in Rivals(t) THEN [task[u] EXCEPT !.met = @ \cup TaskIds(t)]
             ELSE task[u]]

\* Mutant: the workers skip the notification of a delete.
DeliverUpdate(t) ==
  /\ task[t].pc = "sent"
  /\ IF IsDelete(t) THEN task' = [task EXCEPT ![t] = NoTask] ELSE Launch(t)
  /\ UNCHANGED <<db, dicts, req, excuses>>

Deliver(t) ==
  /\ task[t].pc = "sent"
  /\ Launch(t)
  /\ UNCHANGED <<db, dicts, req, excuses>>

\* The notification is lost or refused; the master sends an alarm and goes on.
Lose(t) ==
  /\ task[t].pc = "sent"
  /\ task' = [task EXCEPT ![t] = NoTask]
  /\ Blame(t[2], TaskIds(t))
  /\ UNCHANGED <<db, dicts, req>>

\* init_object_info: flush_all_dict, then update_info_all_sd.
FlushAll(w) ==
  /\ task[<<Boot, w>>].pc = "none"
  /\ Cardinality(Busy) < MaxOverlap
  /\ sd' = [sd EXCEPT ![w] = [id \in Ids |-> Absent]]
  /\ list' = [list EXCEPT ![w] = {}]
  /\ Launch(<<Boot, w>>)
  /\ UNCHANGED <<db, req, excuses>>

\* Mutant: id and row are swapped.
RowsSwapped(t) == {<<db[id], id>> : id \in TaskIds(t)}

\* The rows a task is about to store: read from the database (update_info_sd,
\* update_info_list_sd, update_info_all_sd) or, for delete_info_list_sd, all nil.
RowsFor(t) ==
  IF IsDelete(t) THEN {<<id, Absent>> : id \in TaskIds(t)}
  ELSE {<<id, db[id]>> : id \in TaskIds(t) \cap InDb}

\* update_info_sd, for a list of one id, returns nil if the row is missing; the
\* handler then answers 500 and does not build the list.
RowMissing(t) == /\ ~IsDelete(t)
                 /\ Len(task[t].content) = 1
                 /\ task[t].content[1] \notin InDb

ReadRows(t) ==
  /\ task[t].pc = "read"
  /\ task' = [task EXCEPT ![t] = IF RowMissing(t) THEN NoTask
                                  ELSE [@ EXCEPT !.pc = "set", !.rows = RowsFor(t)]]
  /\ UNCHANGED <<db, dicts, req, excuses>>

\* set_dict, or delete_info_sd, for one row.  What is stored is right, or the
\* row has changed since it was read and the handler of that change is still to
\* come.  If it has overlapped with this one, or if the id was inserted again
\* before a delete arrives, the entry is left wrong.
SetEntry(t) ==
  /\ task[t].pc = "set"
  /\ \E row \in task[t].rows :
       LET w == t[2]
           id == row[1]
       IN  /\ sd' = [sd EXCEPT ![w][id] = row[2]]
           /\ task' = [task EXCEPT ![t].rows = @ \ {row}]
           /\ cause' = [cause EXCEPT ![w] =
                          IF row[2] = db[id] THEN @ \ {id}
                          ELSE IF IsDelete(t) \/ id \in task[t].met THEN @ \cup {id} ELSE @]
  /\ UNCHANGED <<db, list, req, listCause>>

\* Mutant: the list is made from the ids of the notification.
ReadOwnList(t) ==
  /\ task[t].pc = "set"
  /\ task[t].rows = {}
  /\ task' = [task EXCEPT ![t].pc = "list", ![t].ids = InDb \cap TaskIds(t)]
  /\ UNCHANGED <<db, dicts, req, excuses>>

\* get_all_dsp_db, the query of set_dsplist_sd.
ReadList(t) ==
  /\ task[t].pc = "set"
  /\ task[t].rows = {}
  /\ task' = [task EXCEPT ![t].pc = "list", ![t].ids = InDb]
  /\ UNCHANGED <<db, dicts, req, excuses>>

\* The query fails: set_dsplist_sd logs "no dsp found in db" and goes on to
\* delete the list.  The handler answers that all is well.
ReadListFails(t) ==
  /\ task[t].pc = "set"
  /\ task[t].rows = {}
  /\ task' = [task EXCEPT ![t] = NoTask]
  /\ list' = [list EXCEPT ![t[2]] = {}]
  /\ listCause' = [listCause EXCEPT ![t[2]] = TRUE]
  /\ UNCHANGED <<db, sd, req, cause>>

\* The list is stored; any handler that has overlapped may have stored a newer one.
SetDspList(t) ==
  /\ task[t].pc = "list"
  /\ list' = [list EXCEPT ![t[2]] = task[t].ids]
  /\ listCause' = [listCause EXCEPT ![t[2]] = task[t].ids # InDb /\ (@ \/ task[t].met # {})]
  /\ task' = [task EXCEPT ![t] = NoTask]
  /\ UNCHANGED <<db, sd, req, cause>>

\* Mutant: a handler that fails starts again, however often it does.
StartAgain(t) ==
  /\ Running(t)
  /\ task' = [task EXCEPT ![t].pc = "read", ![t].rows = {}, ![t].ids = {}]
  /\ UNCHANGED <<db, dicts, req, excuses>>

\* A query fails, trans_form_info raises an error, set_dict reports that the
\* dict was full, or the process dies: the handler stops where it is.
Abort(t) ==
  /\ Running(t)
  /\ task' = [task EXCEPT ![t] = NoTask]
  /\ Blame(t[2], TaskIds(t))
  /\ UNCHANGED <<db, dicts, req>>

\* A full dict evicts an entry, or the list.
Evict(w, id) ==
  /\ sd[w][id] # Absent
  /\ sd' = [sd EXCEPT ![w][id] = Absent]
  /\ cause' = [cause EXCEPT ![w] = @ \cup {id}]
  /\ UNCHANGED <<db, list, req, task, listCause>>

EvictList(w) ==
  /\ list[w] # {}
  /\ list' = [list EXCEPT ![w] = {}]
  /\ listCause' = [listCause EXCEPT ![w] = TRUE]
  /\ UNCHANGED <<db, sd, req, task, cause>>

Master(r) == \/ Check(r) \/ CheckFail(r) \/ Write(r) \/ WriteFail(r)
             \/ NotifySax(r) \/ NotifyFail(r)

Handler(t) == \/ ReadRows(t) \/ SetEntry(t) \/ ReadList(t) \/ ReadListFails(t)
              \/ SetDspList(t) \/ Abort(t)

Next ==
  \/ \E r \in Reqs : Begin(r) \/ Master(r)
  \/ \E t \in Tasks : Deliver(t) \/ Lose(t) \/ Handler(t)
  \/ \E w \in Workers : FlushAll(w) \/ EvictList(w)
  \/ \E w \in Workers, id \in Ids : Evict(w, id)

\* A handler that has been started runs on: every query ends within a second,
\* every notification within ten (mysql.lua:11, master.lua:235).
Fairness == /\ \A r \in Reqs : WF_vars(Master(r))
            /\ \A t \in Tasks : WF_vars(Handler(t)) /\ WF_vars(Deliver(t) \/ Lose(t))

Spec == Init /\ [][Next]_vars /\ Fairness

-----------------------------------------------------------------------------
(* Properties *)

Rows == Reqs \cup {Seed, Absent}

\* Every variable has its type: rows and dict entries hold what some request has
\* written, or nothing, and the list holds ids (master.lua:156-206, worker.lua:42-63).
TypeOK ==
  /\ db \in [Ids -> Rows]
  /\ sd \in [Workers -> [Ids -> Rows]]
  /\ list \in [Workers -> SUBSET Ids]
  /\ \A r \in Reqs : /\ req[r].pc \in {"idle", "check", "write", "done"}
                      /\ req[r].content \in Contents \cup {<<>>}
  /\ \A t \in Tasks : /\ task[t].pc \in {"none", "sent", "read", "set", "list"}
                       /\ task[t].rows \subseteq Ids \X Rows
                       /\ task[t].ids \subseteq Ids
  /\ cause \in [Workers -> SUBSET Ids]
  /\ listCause \in [Workers -> BOOLEAN]

\* A change of id is on its way to worker w, or being applied there.
Underway(w, id) ==
  \/ \E r \in Reqs : /\ req[r].pc = "write"
                      /\ \E i \in 1 .. req[r].next - 1 : req[r].content[i] = id
  \/ \E t \in Tasks : t[2] = w /\ task[t].pc # "none" /\ id \in TaskIds(t)

\* The DSPs an ad request on w may ask for a bid: on the list, and with an entry.
Askable(w) == {id \in list[w] : sd[w][id] # Absent}

\* The entry of a DSP differs from its row only while a change is under way or
\* after a step that failed or was lost, an eviction, an older row stored over
\* a newer one, or a delete that arrives after the id was inserted again
\* (master.lua:280-318, object.lua:124-163).
EntryStaleHasCause ==
  \A w \in Workers, id \in Ids :
    sd[w][id] # db[id] => Underway(w, id) \/ id \in cause[w]

\* A DSP is left out of the list, or kept in it, wrongly only for such a cause.
\* In particular, no handler of one DSP spoils the list for another unless the
\* two overlap, although each writes all of it (worker.lua:42-49, 85-110).
ListStaleHasCause ==
  \A w \in Workers : listCause[w] \/
    \A id \in Ids : (id \in list[w]) # (id \in InDb) => Underway(w, id)

\* A DSP for which nothing has gone wrong does not stay unasked for ever while it is
\* in the database, nor asked once it is gone: the handlers that have the change in
\* hand end (master.lua:280-318, saxmob/rtb/impress.lua:115-131).
AskedEventually ==
  \A w \in Workers, id \in Ids :
    []<>(\/ (id \in Askable(w)) = (id \in InDb)
         \/ listCause[w] \/ id \in cause[w])

=============================================================================
