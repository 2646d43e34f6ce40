---------------------------- MODULE MobSync_proofs ----------------------------
(***************************************************************************)
(* The dicts of the saxmob workers differ from the database only for a     *)
(* known cause, for any number of DSPs, workers, requests and overlapping  *)
(* handlers.                                                               *)
(***************************************************************************)
EXTENDS MobSync, TLAPS

USE DEF dicts, excuses

Ops == {"update", "delete"}
Lists == Contents \cup {<<>>}
Requests == [pc : {"idle", "check", "write", "done"}, op : Ops, content : Lists,
             exist : Seq(BOOLEAN), next : Nat \ {0}]
Jobs == [pc : {"none", "sent", "read", "set", "list"}, op : Ops, content : Lists,
         rows : SUBSET (Ids \X Rows), ids : SUBSET Ids, met : SUBSET Ids]

\* Every variable has its type, the records too.
Types ==
  /\ db \in [Ids -> Rows]
  /\ sd \in [Workers -> [Ids -> Rows]]
  /\ list \in [Workers -> SUBSET Ids]
  /\ req \in [Reqs -> Requests]
  /\ task \in [Tasks -> Jobs]
  /\ cause \in [Workers -> SUBSET Ids]
  /\ listCause \in [Workers -> BOOLEAN]

\* A request at work has its list, and a place in it.
Placed ==
  \A r \in Reqs :
    /\ req[r].pc = "idle" => req[r].next = 1
    /\ req[r].pc \in {"check", "write"} => req[r].content \in Contents
    /\ req[r].pc = "check" => req[r].next <= Len(req[r].content)
    /\ req[r].pc = "write" => req[r].next <= Len(req[r].content) + 1

\* Nobody is told of a request that is not done, an idle task is blank, and the
\* notification of a request has its list.
Told ==
  \A t \in Tasks :
    /\ t[1] # Boot => (req[t[1]].pc # "done" => task[t].pc = "none")
    /\ task[t].pc = "none" => task[t] = NoTask
    /\ t[1] # Boot /\ task[t].pc # "none" => task[t].content \in Contents
    /\ t[1] = Boot => task[t].content = <<>>

TInv == Types /\ Placed /\ Told

\* Two handlers that run on one worker have met: each knows the ids of the other.
Overlap ==
  \A t, u \in Tasks :
    t # u /\ t[2] = u[2] /\ Running(t) /\ Running(u) => TaskIds(u) \subseteq task[t].met

\* The rows a handler has in hand are of its own ids, one for each.
OwnRows ==
  \A t \in Tasks :
    /\ \A row \in task[t].rows : row[1] \in TaskIds(t)
    /\ \A row1, row2 \in task[t].rows : row1[1] = row2[1] => row1 = row2

\* The operation is one that could have made the row what it is.
Fits(op, id) == (op = "delete") <=> (db[id] = Absent)

\* A request that may have made the row of id what it is has not yet told of it;
\* or its notification of w is at one of the given stages.
Writing(id) ==
  \E r \in Reqs : /\ req[r].pc = "write" /\ Fits(req[r].op, id)
                   /\ \E i \in 1 .. req[r].next - 1 : req[r].content[i] = id
Notified(w, id, stages) ==
  \E t \in Tasks : /\ t[2] = w /\ task[t].pc \in stages
                    /\ Fits(task[t].op, id) /\ id \in TaskIds(t)
Coming(w, id, stages) == Writing(id) \/ Notified(w, id, stages)

Unread == {"sent", "read"}
Unlisted == {"sent", "read", "set"}

\* An entry that is wrong will be put right, by a handler that has the row or will
\* read it, or it has an excuse.
EntryInv ==
  \A w \in Workers, id \in Ids :
    sd[w][id] # db[id] => \/ Coming(w, id, Unread) \/ id \in cause[w]
                          \/ \E t \in Tasks : t[2] = w /\ task[t].pc = "set"
                                              /\ <<id, db[id]>> \in task[t].rows

\* A row in hand that is out of date will be overwritten or excused.
RowInv ==
  \A t \in Tasks : task[t].pc = "set" =>
    \A row \in task[t].rows :
      row[2] # db[row[1]] => \/ IsDelete(t) \/ row[1] \in task[t].met
                             \/ Coming(t[2], row[1], Unread) \/ row[1] \in cause[t[2]]

\* A list that is wrong about id will be built again, or it has an excuse.
ListInv ==
  \A w \in Workers, id \in Ids :
    (id \in list[w]) # (id \in InDb) =>
      \/ listCause[w] \/ Coming(w, id, Unlisted)
      \/ \E t \in Tasks : t[2] = w /\ task[t].pc = "list" /\ id \in TaskIds(t)

\* A list in hand that is out of date will be built again or excused.
NewListInv ==
  \A t \in Tasks : task[t].pc = "list" =>
    \A id \in Ids :
      (id \in task[t].ids) # (id \in InDb) =>
        listCause[t[2]] \/ task[t].met # {} \/ Coming(t[2], id, Unlisted)

-----------------------------------------------------------------------------
(* Types *)

LEMMA ListTypes ==
  ASSUME NEW c \in Lists
  PROVE  c \in Seq(Ids) /\ Len(c) \in Nat /\ DOMAIN c = 1 .. Len(c) /\ IdSet(c) \subseteq Ids
         /\ \A i \in 1 .. Len(c) : c[i] \in Ids
<1>1. c \in Seq(Ids)
  <2>1. CASE c = <<>>
    BY <2>1
  <2>2. CASE c \in Contents
    BY <2>2, ContentsAssumption
  <2> QED BY <2>1, <2>2 DEF Lists
<1> QED BY <1>1 DEF IdSet

\* A list that is sent to the master has an element.
LEMMA ListNotEmpty ==
  ASSUME NEW c \in Contents
  PROVE  Len(c) > 0 /\ c[1] \in IdSet(c)
<1>1. c \in Seq(Ids) /\ c # <<>>
  BY ContentsAssumption
<1> QED BY <1>1 DEF IdSet

LEMMA TaskIdTypes ==
  ASSUME TInv, NEW t \in Tasks
  PROVE  /\ TaskIds(t) \subseteq Ids
         /\ t[1] \in Reqs \cup {Boot} /\ t[2] \in Workers /\ t = <<t[1], t[2]>>
<1>1. task[t] \in Jobs
  BY DEF TInv, Types
<1>2. task[t].content \in Lists
  BY <1>1 DEF Jobs
<1> QED BY <1>2, ListTypes DEF TaskIds, Tasks

LEMMA BlankTypes == NoReq \in Requests /\ NoTask \in Jobs /\ Done \in Requests
<1>1. <<>> \in Seq(BOOLEAN) /\ <<>> \in Lists
  BY DEF Lists
<1>2. NoReq \in Requests
  BY <1>1 DEF NoReq, Requests, Ops
<1>3. NoTask \in Jobs
  BY <1>1 DEF NoTask, Jobs, Ops
<1>4. Done \in Requests
  BY <1>2 DEF Done, Requests
<1> QED BY <1>2, <1>3, <1>4

\* Starting a task moves only its own program counter, and the two sides of every
\* meeting take note of it.
LEMMA LaunchEffect ==
  ASSUME TInv, NEW t \in Tasks, Launch(t)
  PROVE  /\ task' \in [Tasks -> Jobs]
         /\ \A u \in Tasks : /\ task'[u].content = task[u].content /\ task'[u].op = task[u].op
                             /\ task'[u].rows = task[u].rows /\ task'[u].ids = task[u].ids
                             /\ TaskIds(u)' = TaskIds(u)
                             /\ u # t => /\ task'[u].pc = task[u].pc
                                         /\ task[u].met \subseteq task'[u].met
         /\ task'[t].pc = "read"
         /\ \A u \in Rivals(t) : /\ TaskIds(t) \subseteq task'[u].met
                                 /\ TaskIds(u) \subseteq task'[t].met
<1>1. \A u \in Tasks : task[u] \in Jobs /\ TaskIds(u) \subseteq Ids
  BY TaskIdTypes DEF TInv, Types
<1> DEFINE new == UNION {TaskIds(v) : v \in Rivals(t)}
<1>2. new \subseteq Ids /\ \A v \in Rivals(t) : TaskIds(v) \subseteq new
  BY <1>1 DEF Rivals
<1>3. \A u \in Tasks :
        task'[u] = IF u = t THEN [task[t] EXCEPT !.pc = "read", !.met = new]
                   ELSE IF u \in Rivals(t) THEN [task[u] EXCEPT !.met = task[u].met \cup TaskIds(t)]
                   ELSE task[u]
  BY DEF Launch
<1> HIDE DEF new
<1>4. ASSUME NEW u \in Tasks
      PROVE  /\ task'[u] \in Jobs
             /\ task'[u].content = task[u].content /\ task'[u].op = task[u].op
             /\ task'[u].rows = task[u].rows /\ task'[u].ids = task[u].ids
             /\ u # t => /\ task'[u].pc = task[u].pc
                         /\ task[u].met \subseteq task'[u].met
             /\ u = t => task'[u].pc = "read" /\ task'[u].met = new
             /\ u \in Rivals(t) /\ u # t => TaskIds(t) \subseteq task'[u].met
  <2>1. CASE u = t
    <3>1. task'[u] = [task[u] EXCEPT !.pc = "read", !.met = new]
      BY <1>3, <2>1
    <3>2. u \notin Rivals(t)
      BY <2>1 DEF Rivals
    <3> QED BY <1>1, <1>2, <2>1, <3>1, <3>2 DEF Jobs
  <2>2. CASE u # t /\ u \in Rivals(t)
    <3>1. task'[u] = [task[u] EXCEPT !.met = task[u].met \cup TaskIds(t)]
      BY <1>3, <2>2
    <3>2. task[u].met \cup TaskIds(t) \subseteq Ids
      BY <1>1 DEF Jobs
    <3> QED BY <1>1, <2>2, <3>1, <3>2 DEF Jobs
  <2>3. CASE u # t /\ u \notin Rivals(t)
    BY <1>1, <1>3, <2>3
  <2> QED BY <2>1, <2>2, <2>3
<1>5. task' \in [Tasks -> Jobs]
  <2>1. task' = [u \in Tasks |-> task'[u]]
    BY DEF Launch
  <2> QED BY <1>4, <2>1
<1>6. t \notin Rivals(t) /\ Rivals(t) \subseteq Tasks
  BY DEF Rivals
<1> QED BY <1>2, <1>4, <1>5, <1>6 DEF TaskIds

LEMMA InitTypes == Init => TInv
<1> SUFFICES ASSUME Init PROVE TInv
  OBVIOUS
<1>1. Types
  BY BlankTypes DEF Init, Types, Rows, InDb
<1>2. Placed
  BY DEF Init, Placed, NoReq
<1>3. Told
  BY DEF Init, Told, NoTask
<1> QED BY <1>1, <1>2, <1>3 DEF TInv

\* One request changes, and nobody is told.
LEMMA OneRequest ==
  ASSUME TInv, NEW r \in Reqs, NEW q \in Requests,
         req' = [req EXCEPT ![r] = q], task' = task,
         req[r].pc # "done",
         q.pc \in {"check", "write", "done"},
         q.pc \in {"check", "write"} => q.content \in Contents,
         q.pc = "check" => q.next <= Len(q.content),
         q.pc = "write" => q.next <= Len(q.content) + 1
  PROVE  req' \in [Reqs -> Requests] /\ Placed' /\ Told'
<1>1. req' \in [Reqs -> Requests]
  BY DEF TInv, Types
<1>2. \A c \in Reqs : req'[c] = IF c = r THEN q ELSE req[c]
  BY DEF TInv, Types
<1>3. Placed'
  BY <1>2 DEF TInv, Placed
<1>4. Told'
  <2> SUFFICES ASSUME NEW t \in Tasks
               PROVE  /\ t[1] # Boot => (req'[t[1]].pc # "done" => task[t].pc = "none")
                      /\ task[t].pc = "none" => task[t] = NoTask
                      /\ t[1] # Boot /\ task[t].pc # "none" => task[t].content \in Contents
                      /\ t[1] = Boot => task[t].content = <<>>
    BY DEF Told
  <2>1. t[1] # Boot => t[1] \in Reqs
    BY TaskIdTypes
  <2> QED BY <1>2, <2>1 DEF TInv, Told
<1> QED BY <1>1, <1>3, <1>4

\* One task that has been sent or started changes or ends.
LEMMA OneTask ==
  ASSUME TInv, NEW t \in Tasks, NEW j \in Jobs,
         task' = [task EXCEPT ![t] = j], req' = req,
         task[t].pc # "none",
         j = NoTask \/ (j.pc # "none" /\ j.content = task[t].content)
  PROVE  task' \in [Tasks -> Jobs] /\ Placed' /\ Told'
<1>1. task' \in [Tasks -> Jobs]
  BY DEF TInv, Types
<1>2. \A u \in Tasks : task'[u] = IF u = t THEN j ELSE task[u]
  BY DEF TInv, Types
<1>3. Placed'
  BY DEF TInv, Placed
<1>4. Told'
  <2> SUFFICES ASSUME NEW u \in Tasks
               PROVE  /\ u[1] # Boot => (req[u[1]].pc # "done" => task'[u].pc = "none")
                      /\ task'[u].pc = "none" => task'[u] = NoTask
                      /\ u[1] # Boot /\ task'[u].pc # "none" => task'[u].content \in Contents
                      /\ u[1] = Boot => task'[u].content = <<>>
    BY DEF Told
  <2>1. NoTask.pc = "none" /\ NoTask.content = <<>>
    BY DEF NoTask
  <2>2. CASE u = t
    BY <1>2, <2>1, <2>2 DEF TInv, Told
  <2>3. CASE u # t
    BY <1>2, <2>3 DEF TInv, Told
  <2> QED BY <2>2, <2>3
<1> QED BY <1>1, <1>3, <1>4

LEMMA RowTypes == Absent \in Rows /\ Reqs \subseteq Rows
BY DEF Rows

LEMMA StepTypes == TInv /\ [Next]_vars => TInv'
<1> SUFFICES ASSUME TInv, [Next]_vars PROVE TInv'
  OBVIOUS
<1> USE DEF TInv, Types
<1>1. ASSUME NEW r \in Reqs, Begin(r) \/ Master(r) PROVE TInv'
  <2> DEFINE q == req[r]
  <2>0. /\ q \in Requests /\ q.pc \in {"idle", "check", "write", "done"} /\ q.op \in Ops
        /\ q.content \in Lists /\ q.exist \in Seq(BOOLEAN) /\ q.next \in Nat \ {0}
    BY DEF Requests
  <2>a. q.content \in Seq(Ids) /\ Len(q.content) \in Nat /\ IdSet(q.content) \subseteq Ids
        /\ \A i \in 1 .. Len(q.content) : q.content[i] \in Ids
    BY <2>0, ListTypes
  <2>b. /\ q.pc = "idle" => q.next = 1
        /\ q.pc \in {"check", "write"} => q.content \in Contents
        /\ q.pc = "check" => q.next <= Len(q.content)
        /\ q.pc = "write" => q.next <= Len(q.content) + 1
    BY DEF Placed
  <2>d. ASSUME req' = [req EXCEPT ![r] = Done], task' = task, q.pc # "done"
        PROVE  req' \in [Reqs -> Requests] /\ Placed' /\ Told'
    BY <2>d, OneRequest, BlankTypes DEF Done, NoReq
  <2>1. CASE Begin(r)
    <3>1. PICK op \in Ops, c \in Contents :
            req' = [req EXCEPT ![r] = [q EXCEPT !.pc = "check", !.op = op, !.content = c]]
      BY <2>1 DEF Begin, Ops
    <3> DEFINE n == [q EXCEPT !.pc = "check", !.op = op, !.content = c]
    <3>2. n \in Requests /\ n.pc = "check" /\ n.content = c /\ n.next = 1
      BY <2>0, <2>1, <2>b DEF Begin, Requests, Lists
    <3>3. n.next <= Len(n.content)
      BY <3>2, ListNotEmpty, ListTypes DEF Lists
    <3>4. req' = [req EXCEPT ![r] = n] /\ UNCHANGED <<db, dicts, task, excuses>>
      BY <2>1, <3>1 DEF Begin
    <3> HIDE DEF n
    <3>5. req' \in [Reqs -> Requests] /\ Placed' /\ Told'
      BY <2>1, <3>2, <3>3, <3>4, OneRequest DEF Begin
    <3> QED BY <3>4, <3>5
  <2>2. CASE Check(r)
    <3> DEFINE flags == Append(q.exist, db[q.content[q.next]] # Absent)
               n == IF q.next < Len(q.content)
                      THEN [q EXCEPT !.exist = flags, !.next = q.next + 1]
                      ELSE [q EXCEPT !.pc = "write", !.exist = flags, !.next = 1]
    <3>1. flags \in Seq(BOOLEAN)
      BY <2>0
    <3> HIDE DEF flags
    <3>2. /\ n \in Requests /\ n.content = q.content /\ n.pc \in {"check", "write"}
          /\ n.pc = "check" => n.next <= Len(n.content)
          /\ n.pc = "write" => n.next = 1
      <4>0. q.pc = "check" /\ q.next + 1 \in Nat \ {0}
        BY <2>0, <2>2 DEF Check
      <4>1. CASE q.next < Len(q.content)
        <5>1. n = [q EXCEPT !.exist = flags, !.next = q.next + 1]
          BY <4>1
        <5>2. /\ n \in Requests /\ n.content = q.content /\ n.pc = "check"
              /\ n.next = q.next + 1
          BY <2>0, <3>1, <4>0, <5>1 DEF Requests
        <5> HIDE DEF n, q
        <5> QED BY <2>0, <2>a, <4>1, <5>2
      <4>2. CASE ~(q.next < Len(q.content))
        <5>1. n = [q EXCEPT !.pc = "write", !.exist = flags, !.next = 1]
          BY <4>2
        <5>2. n \in Requests /\ n.content = q.content /\ n.pc = "write" /\ n.next = 1
          <6>1. 1 \in Nat \ {0} /\ "write" \in {"idle", "check", "write", "done"}
            OBVIOUS
          <6> HIDE DEF n, q
          <6> QED BY <2>0, <3>1, <5>1, <6>1 DEF Requests
        <5> QED BY <5>2
      <4> QED BY <4>1, <4>2
    <3>3. req' = [req EXCEPT ![r] = n] /\ UNCHANGED <<db, dicts, task, excuses>>
      BY <2>2 DEF Check, flags
    <3> HIDE DEF n
    <3>4. req' \in [Reqs -> Requests] /\ Placed' /\ Told'
      <4>1. q.pc = "check" /\ q.content \in Contents
        BY <2>2, <2>b DEF Check
      <4>2. n.pc = "write" => n.next <= Len(n.content) + 1
        BY <2>a, <3>2
      <4> HIDE DEF TInv, Types
      <4> QED BY <3>2, <3>3, <4>1, <4>2, OneRequest
    <3> QED BY <3>3, <3>4
  <2>3. CASE CheckFail(r)
    BY <2>3, <2>d DEF CheckFail
  <2>e. ASSUME NEW id \in Ids, db' = [db EXCEPT ![id] = RowAfter(q, r, @)]
        PROVE  db' \in [Ids -> Rows]
    BY <2>e, RowTypes DEF RowAfter
  <2>4. CASE Write(r)
    <3> DEFINE n == [q EXCEPT !.next = q.next + 1]
    <3>1. n \in Requests /\ n.content = q.content /\ n.pc = "write" /\ n.next <= Len(n.content) + 1
      <4>1. q.pc = "write" /\ q.next <= Len(q.content) /\ q.next + 1 \in Nat \ {0}
        BY <2>0, <2>4 DEF Write
      <4>2. n \in Requests /\ n.content = q.content /\ n.pc = "write" /\ n.next = q.next + 1
        BY <2>0, <4>1 DEF Requests
      <4> HIDE DEF n, q
      <4> QED BY <2>0, <2>a, <4>1, <4>2
    <3>2. req' = [req EXCEPT ![r] = n] /\ UNCHANGED <<dicts, task, excuses>>
      BY <2>4 DEF Write
    <3> HIDE DEF n
    <3>3. req' \in [Reqs -> Requests] /\ Placed' /\ Told'
      BY <2>4, <2>b, <3>1, <3>2, OneRequest DEF Write
    <3>4. db' \in [Ids -> Rows]
      BY <2>0, <2>4, <2>a, <2>e DEF Write
    <3> QED BY <3>2, <3>3, <3>4
  <2>5. CASE WriteFail(r)
    <3>1. req' \in [Reqs -> Requests] /\ Placed' /\ Told'
      BY <2>5, <2>d DEF WriteFail
    <3>2. db' \in [Ids -> Rows]
      BY <2>0, <2>5, <2>a, <2>e DEF WriteFail
    <3>3. {q.content[i] : i \in 1 .. q.next} \subseteq Ids
      BY <2>0, <2>5, <2>a DEF WriteFail
    <3>4. cause' \in [Workers -> SUBSET Ids] /\ listCause' \in [Workers -> BOOLEAN]
      BY <2>5, <3>3 DEF WriteFail, BlameAll
    <3> QED BY <2>5, <3>1, <3>2, <3>4 DEF WriteFail
  <2>6. CASE NotifySax(r)
    <3>1. req' \in [Reqs -> Requests] /\ Placed'
      <4>1. \A c \in Reqs : req'[c] = IF c = r THEN Done ELSE req[c]
        BY <2>6 DEF NotifySax
      <4>2. Placed'
        BY <4>1 DEF Placed, Done, NoReq
      <4> QED BY <2>6, <4>2, BlankTypes DEF NotifySax
    <3> DEFINE n == [NoTask EXCEPT !.pc = "sent", !.op = q.op, !.content = q.content]
    <3>2. n \in Jobs /\ n.pc = "sent" /\ n.content = q.content /\ q.content \in Contents
      BY <2>0, <2>6, <2>b, BlankTypes DEF NotifySax, Jobs
    <3>3. \A t \in Tasks : task'[t] = IF t[1] = r THEN n ELSE task[t]
      BY <2>6 DEF NotifySax
    <3> HIDE DEF n
    <3>4. task' \in [Tasks -> Jobs]
      <4>1. task' = [t \in Tasks |-> task'[t]]
        BY <2>6 DEF NotifySax
      <4> QED BY <3>2, <3>3, <4>1
    <3>5. Told'
      <4> SUFFICES ASSUME NEW t \in Tasks
                   PROVE  /\ t[1] # Boot => (req'[t[1]].pc # "done" => task'[t].pc = "none")
                          /\ task'[t].pc = "none" => task'[t] = NoTask
                          /\ t[1] # Boot /\ task'[t].pc # "none" => task'[t].content \in Contents
                          /\ t[1] = Boot => task'[t].content = <<>>
        BY DEF Told
      <4>1. t[1] # Boot => t[1] \in Reqs
        BY TaskIdTypes
      <4>2. \A c \in Reqs : req'[c] = IF c = r THEN Done ELSE req[c]
        BY <2>6 DEF NotifySax
      <4>3. Done.pc = "done"
        BY DEF Done, NoReq
      <4> QED BY <3>2, <3>3, <4>1, <4>2, <4>3, DistinctAssumption DEF Told
    <3> QED BY <2>6, <3>1, <3>4, <3>5 DEF NotifySax
  <2>7. CASE NotifyFail(r)
    <3>1. req' \in [Reqs -> Requests] /\ Placed' /\ Told'
      BY <2>7, <2>d DEF NotifyFail
    <3>2. cause' \in [Workers -> SUBSET Ids] /\ listCause' \in [Workers -> BOOLEAN]
      BY <2>7, <2>a DEF NotifyFail, BlameAll
    <3> QED BY <2>7, <3>1, <3>2 DEF NotifyFail
  <2> QED BY <1>1, <2>1, <2>2, <2>3, <2>4, <2>5, <2>6, <2>7 DEF Master
<1>2. ASSUME NEW t \in Tasks, Deliver(t) \/ Lose(t) \/ Handler(t) PROVE TInv'
  <2> DEFINE j == task[t]
  <2>0. /\ j \in Jobs /\ j.op \in Ops /\ j.content \in Lists /\ j.rows \subseteq Ids \X Rows
        /\ j.ids \subseteq Ids /\ j.met \subseteq Ids
        /\ t[2] \in Workers /\ TaskIds(t) \subseteq Ids
    BY TaskIdTypes DEF Jobs
  <2>a. ASSUME task' = [task EXCEPT ![t] = NoTask], req' = req, j.pc # "none"
        PROVE  task' \in [Tasks -> Jobs] /\ Placed' /\ Told'
    BY <2>a, OneTask, BlankTypes
  <2>b. ASSUME Blame(t[2], TaskIds(t))
        PROVE  cause' \in [Workers -> SUBSET Ids] /\ listCause' \in [Workers -> BOOLEAN]
    BY <2>0, <2>b DEF Blame
  <2>1. CASE Deliver(t)
    <3>1. task' \in [Tasks -> Jobs]
      BY <2>1, LaunchEffect DEF Deliver
    <3>2. Placed'
      BY <2>1 DEF Deliver, Placed
    <3>3. Told'
      <4>1. /\ \A u \in Tasks : u # t => task'[u].pc = task[u].pc
            /\ \A u \in Tasks : task'[u].content = task[u].content
            /\ task'[t].pc = "read"
        BY <2>1, LaunchEffect DEF Deliver
      <4>2. ASSUME NEW u \in Tasks, task'[u].pc = "none" PROVE task'[u] = NoTask
        <5>1. u # t /\ task[u].pc = "none"
          BY <4>1, <4>2
        <5>2. task'[u] = task[u]
          BY <2>1, <5>1 DEF Deliver, Launch, Rivals, Running
        <5> QED BY <5>1, <5>2 DEF Told
      <4>3. req' = req /\ task[t].pc = "sent"
        BY <2>1 DEF Deliver
      <4> QED BY <4>1, <4>2, <4>3 DEF Told
    <3> QED BY <2>1, <3>1, <3>2, <3>3 DEF Deliver
  <2>2. CASE Lose(t)
    BY <2>2, <2>a, <2>b DEF Lose
  <2>3. CASE ReadRows(t)
    <3>1. RowsFor(t) \subseteq Ids \X Rows
      <4>1. \A id \in TaskIds(t) : <<id, Absent>> \in Ids \X Rows /\ <<id, db[id]>> \in Ids \X Rows
        BY <2>0, RowTypes
      <4> QED BY <4>1 DEF RowsFor
    <3> DEFINE n == [j EXCEPT !.pc = "set", !.rows = RowsFor(t)]
    <3>2. n \in Jobs /\ n.pc = "set" /\ n.content = j.content
      BY <2>0, <3>1 DEF Jobs
    <3>3. task' = [task EXCEPT ![t] = NoTask] \/ task' = [task EXCEPT ![t] = n]
      BY <2>3 DEF ReadRows
    <3> HIDE DEF n
    <3>4. task' \in [Tasks -> Jobs] /\ Placed' /\ Told'
      BY <2>3, <2>a, <3>2, <3>3, OneTask DEF ReadRows
    <3> QED BY <2>3, <3>4 DEF ReadRows
  <2>4. CASE SetEntry(t)
    <3>1. PICK row \in j.rows :
            /\ sd' = [sd EXCEPT ![t[2]][row[1]] = row[2]]
            /\ task' = [task EXCEPT ![t] = [j EXCEPT !.rows = j.rows \ {row}]]
            /\ cause' = [cause EXCEPT ![t[2]] =
                           IF row[2] = db[row[1]] THEN @ \ {row[1]}
                           ELSE IF IsDelete(t) \/ row[1] \in task[t].met THEN @ \cup {row[1]} ELSE @]
      BY <2>4 DEF SetEntry
    <3>2. row[1] \in Ids /\ row[2] \in Rows
      BY <2>0, <3>1
    <3>3. sd' \in [Workers -> [Ids -> Rows]]
      BY <2>0, <3>1, <3>2
    <3>4. cause' \in [Workers -> SUBSET Ids]
      BY <2>0, <3>1, <3>2
    <3> DEFINE n == [j EXCEPT !.rows = j.rows \ {row}]
    <3>5. n \in Jobs /\ n.pc = "set" /\ n.content = j.content
      BY <2>0, <2>4 DEF SetEntry, Jobs
    <3>6. task' = [task EXCEPT ![t] = n]
      BY <3>1
    <3> HIDE DEF n
    <3>7. task' \in [Tasks -> Jobs] /\ Placed' /\ Told'
      BY <2>4, <3>5, <3>6, OneTask DEF SetEntry
    <3> QED BY <2>4, <3>3, <3>4, <3>7 DEF SetEntry
  <2>5. CASE ReadList(t)
    <3> DEFINE n == [j EXCEPT !.pc = "list", !.ids = InDb]
    <3>1. n \in Jobs /\ n.pc = "list" /\ n.content = j.content
      BY <2>0 DEF Jobs, InDb
    <3>2. task' = [task EXCEPT ![t] = n]
      BY <2>5 DEF ReadList
    <3> HIDE DEF n
    <3>3. task' \in [Tasks -> Jobs] /\ Placed' /\ Told'
      BY <2>5, <3>1, <3>2, OneTask DEF ReadList
    <3> QED BY <2>5, <3>3 DEF ReadList
  <2>6. CASE ReadListFails(t)
    <3>1. list' \in [Workers -> SUBSET Ids] /\ listCause' \in [Workers -> BOOLEAN]
      BY <2>0, <2>6 DEF ReadListFails
    <3> QED BY <2>6, <2>a, <3>1 DEF ReadListFails
  <2>7. CASE SetDspList(t)
    <3>1. list' \in [Workers -> SUBSET Ids] /\ listCause' \in [Workers -> BOOLEAN]
      BY <2>0, <2>7 DEF SetDspList
    <3> QED BY <2>7, <2>a, <3>1 DEF SetDspList
  <2>8. CASE Abort(t)
    BY <2>8, <2>a, <2>b DEF Abort, Running
  <2> QED BY <1>2, <2>1, <2>2, <2>3, <2>4, <2>5, <2>6, <2>7, <2>8 DEF Handler
<1>3. ASSUME NEW w \in Workers, FlushAll(w) PROVE TInv'
  <2> DEFINE t == <<Boot, w>>
  <2>0. t \in Tasks /\ t[1] = Boot
    BY DEF Tasks
  <2> HIDE DEF t
  <2>1. Launch(t) /\ req' = req
    BY <1>3 DEF FlushAll, t
  <2>2. task' \in [Tasks -> Jobs]
    BY <2>0, <2>1, LaunchEffect
  <2>3. Placed'
    BY <2>1 DEF Placed
  <2>4. /\ \A u \in Tasks : u # t => task'[u].pc = task[u].pc
        /\ \A u \in Tasks : task'[u].content = task[u].content
        /\ task'[t].pc = "read"
    BY <2>0, <2>1, LaunchEffect
  <2>5. ASSUME NEW u \in Tasks, task'[u].pc = "none" PROVE task'[u] = NoTask
    <3>1. u # t /\ task[u].pc = "none"
      BY <2>4, <2>5
    <3>2. task'[u] = task[u]
      BY <2>1, <3>1 DEF Launch, Rivals, Running
    <3> QED BY <3>1, <3>2 DEF Told
  <2>6. Told'
    BY <2>0, <2>1, <2>4, <2>5 DEF Told
  <2>7. sd' \in [Workers -> [Ids -> Rows]] /\ list' \in [Workers -> SUBSET Ids]
    BY <1>3, RowTypes DEF FlushAll
  <2> QED BY <1>3, <2>2, <2>3, <2>6, <2>7 DEF FlushAll
<1>4. ASSUME NEW w \in Workers, EvictList(w) PROVE TInv'
  BY <1>4 DEF EvictList, Placed, Told
<1>5. ASSUME NEW w \in Workers, NEW id \in Ids, Evict(w, id) PROVE TInv'
  BY <1>5, RowTypes DEF Evict, Placed, Told
<1>6. CASE UNCHANGED vars
  BY <1>6 DEF vars, Placed, Told
<1> QED
  BY <1>1, <1>2, <1>3, <1>4, <1>5, <1>6 DEF Next

-----------------------------------------------------------------------------
(* Handlers that overlap, and the rows they have in hand *)

\* The end of a task, or a step of its handler, leaves the other tasks, the requests
\* and the database alone; a handler keeps its list, its operation and what it has met.
LEMMA HandlerEffect ==
  ASSUME TInv, NEW t \in Tasks, Lose(t) \/ Handler(t)
  PROVE  /\ \A u \in Tasks : u # t => task'[u] = task[u]
         /\ \/ task'[t] = NoTask
            \/ /\ Running(t) /\ task'[t].pc \in {"set", "list"}
               /\ task'[t].content = task[t].content /\ task'[t].op = task[t].op
               /\ task'[t].met = task[t].met
         /\ db' = db /\ req' = req
<1>1. task \in [Tasks -> Jobs] /\ task[t] \in Jobs
  BY DEF TInv, Types
<1>2. CASE task' = [task EXCEPT ![t] = NoTask] /\ UNCHANGED <<db, req>>
  BY <1>1, <1>2
<1>3. ASSUME Running(t), NEW n, task' = [task EXCEPT ![t] = n], UNCHANGED <<db, req>>,
             n.pc \in {"set", "list"}, n.content = task[t].content, n.op = task[t].op,
             n.met = task[t].met
      PROVE  /\ \A u \in Tasks : u # t => task'[u] = task[u]
             /\ Running(t) /\ task'[t].pc \in {"set", "list"}
             /\ task'[t].content = task[t].content /\ task'[t].op = task[t].op
             /\ task'[t].met = task[t].met
             /\ db' = db /\ req' = req
  <2>1. task'[t] = n /\ \A u \in Tasks : u # t => task'[u] = task[u]
    BY <1>1, <1>3
  <2> QED BY <1>3, <2>1
<1>4. CASE Lose(t) \/ ReadListFails(t) \/ SetDspList(t) \/ Abort(t)
  BY <1>2, <1>4 DEF Lose, ReadListFails, SetDspList, Abort
<1>5. CASE ReadRows(t)
  <2> DEFINE n == [task[t] EXCEPT !.pc = "set", !.rows = RowsFor(t)]
  <2>1. n.pc = "set" /\ n.content = task[t].content /\ n.op = task[t].op /\ n.met = task[t].met
    BY <1>1 DEF Jobs
  <2>2. task' = [task EXCEPT ![t] = NoTask] \/ task' = [task EXCEPT ![t] = n]
    BY <1>5 DEF ReadRows
  <2> HIDE DEF n
  <2> QED BY <1>2, <1>3, <1>5, <2>1, <2>2 DEF ReadRows, Running
<1>6. CASE SetEntry(t)
  <2>1. PICK row : task' = [task EXCEPT ![t] = [task[t] EXCEPT !.rows = task[t].rows \ {row}]]
    BY <1>6 DEF SetEntry
  <2> DEFINE n == [task[t] EXCEPT !.rows = task[t].rows \ {row}]
  <2>2. n.pc = "set" /\ n.content = task[t].content /\ n.op = task[t].op /\ n.met = task[t].met
    BY <1>1, <1>6 DEF Jobs, SetEntry
  <2>3. task' = [task EXCEPT ![t] = n]
    BY <2>1
  <2> HIDE DEF n
  <2> QED BY <1>3, <1>6, <2>2, <2>3 DEF SetEntry, Running
<1>7. CASE ReadList(t)
  <2> DEFINE n == [task[t] EXCEPT !.pc = "list", !.ids = InDb]
  <2>1. n.pc = "list" /\ n.content = task[t].content /\ n.op = task[t].op /\ n.met = task[t].met
    BY <1>1 DEF Jobs
  <2>2. task' = [task EXCEPT ![t] = n]
    BY <1>7 DEF ReadList
  <2> HIDE DEF n
  <2> QED BY <1>3, <1>7, <2>1, <2>2 DEF ReadList, Running
<1> QED BY <1>4, <1>5, <1>6, <1>7 DEF Handler

\* The steps of the master, but for the notification, leave the tasks alone.
LEMMA MasterEffect ==
  ASSUME NEW r \in Reqs, Begin(r) \/ Master(r), ~NotifySax(r)
  PROVE  task' = task /\ dicts' = dicts
BY DEF Begin, Master, Check, CheckFail, Write, WriteFail, NotifyFail

\* The notification replaces tasks that are blank, and starts none.
LEMMA NotifyEffect ==
  ASSUME TInv, NEW r \in Reqs, NotifySax(r)
  PROVE  /\ \A t \in Tasks : t[1] # r => task'[t] = task[t] /\ TaskIds(t)' = TaskIds(t)
         /\ \A t \in Tasks : t[1] = r => /\ task[t] = NoTask
                                         /\ task'[t].pc = "sent" /\ task'[t].op = req[r].op
                                         /\ task'[t].content = req[r].content
                                         /\ task'[t].rows = {}
                                         /\ TaskIds(t)' = IdSet(req[r].content)
         /\ UNCHANGED <<db, dicts, excuses>>
         /\ req' = [req EXCEPT ![r] = Done]
<1>1. \A t \in Tasks : task'[t] = IF t[1] = r THEN [NoTask EXCEPT !.pc = "sent", !.op = req[r].op,
                                                      !.content = req[r].content]
                                  ELSE task[t]
  BY DEF NotifySax
<1>2. ASSUME NEW t \in Tasks, t[1] = r
      PROVE  /\ task[t] = NoTask
             /\ task'[t].pc = "sent" /\ task'[t].op = req[r].op
             /\ task'[t].content = req[r].content
             /\ task'[t].rows = {}
  <2>1. r # Boot
    BY DistinctAssumption
  <2> QED BY <1>1, <1>2, <2>1 DEF NotifySax, TInv, Told, NoTask
<1>3. r # Boot
  BY DistinctAssumption
<1> QED BY <1>1, <1>2, <1>3 DEF NotifySax, TaskIds

HandInv == TInv /\ Overlap /\ OwnRows

\* Task t ends, or goes on with the same list.
LEMMA OverlapStep ==
  ASSUME HandInv, NEW t \in Tasks, Lose(t) \/ Handler(t)
  PROVE  Overlap'
<1> SUFFICES ASSUME NEW u \in Tasks, NEW v \in Tasks, u # v, u[2] = v[2], Running(u)', Running(v)'
             PROVE  TaskIds(v)' \subseteq task'[u].met
  BY DEF Overlap
<1>1. ASSUME NEW x \in Tasks, Running(x)'
      PROVE  Running(x) /\ TaskIds(x)' = TaskIds(x) /\ task'[x].met = task[x].met
  <2>1. CASE x # t
    BY <1>1, <2>1, HandlerEffect DEF HandInv, Running, TaskIds
  <2>2. CASE x = t
    <3>1. task'[t] # NoTask
      BY <1>1, <2>2 DEF Running, NoTask
    <3> QED BY <2>2, <3>1, HandlerEffect DEF HandInv, TaskIds
  <2> QED BY <2>1, <2>2
<1>2. Running(u) /\ Running(v) /\ TaskIds(v)' = TaskIds(v) /\ task'[u].met = task[u].met
  BY <1>1
<1> QED BY <1>2 DEF HandInv, Overlap

LEMMA LaunchOverlap ==
  ASSUME HandInv, NEW t \in Tasks, Launch(t), task[t].pc \notin {"read", "set", "list"}
  PROVE  Overlap' /\ OwnRows'
<1>0. TInv
  BY DEF HandInv
<1>1. Overlap'
  <2> SUFFICES ASSUME NEW u \in Tasks, NEW v \in Tasks, u # v, u[2] = v[2], Running(u)', Running(v)'
               PROVE  TaskIds(v)' \subseteq task'[u].met
    BY DEF Overlap
  <2>1. TaskIds(v)' = TaskIds(v)
    BY <1>0, LaunchEffect
  <2>2. CASE u = t
    <3>1. v \in Rivals(t)
      BY <1>0, <2>2, LaunchEffect DEF Rivals, Running
    <3> QED BY <1>0, <2>1, <2>2, <3>1, LaunchEffect
  <2>3. CASE v = t
    <3>1. u \in Rivals(t)
      BY <1>0, <2>3, LaunchEffect DEF Rivals, Running
    <3> QED BY <1>0, <2>1, <2>3, <3>1, LaunchEffect
  <2>4. CASE u # t /\ v # t
    <3>1. Running(u) /\ Running(v)
      BY <1>0, <2>4, LaunchEffect DEF Running
    <3>2. TaskIds(v) \subseteq task[u].met /\ task[u].met \subseteq task'[u].met
      BY <1>0, <2>4, <3>1, LaunchEffect DEF HandInv, Overlap
    <3> QED BY <2>1, <3>2
  <2> QED BY <2>2, <2>3, <2>4
<1>2. \A u \in Tasks : task'[u].rows = task[u].rows /\ TaskIds(u)' = TaskIds(u)
  BY <1>0, LaunchEffect
<1>3. OwnRows'
  BY <1>2 DEF HandInv, OwnRows
<1> QED BY <1>1, <1>3

LEMMA StepHand == HandInv /\ [Next]_vars => HandInv'
<1> SUFFICES ASSUME HandInv, [Next]_vars PROVE Overlap' /\ OwnRows'
  BY StepTypes DEF HandInv
<1>0. TInv /\ TInv'
  BY StepTypes DEF HandInv
<1>s. task' = task => Overlap' /\ OwnRows'
  BY DEF HandInv, Overlap, OwnRows, Running, TaskIds
<1>1. ASSUME NEW r \in Reqs, Begin(r) \/ Master(r) PROVE Overlap' /\ OwnRows'
  <2>1. CASE ~NotifySax(r)
    BY <1>1, <1>s, <2>1, MasterEffect
  <2>2. CASE NotifySax(r)
    <3>1. ASSUME NEW x \in Tasks, Running(x)'
          PROVE  Running(x) /\ TaskIds(x)' = TaskIds(x) /\ task'[x].met = task[x].met
      BY <1>0, <2>2, <3>1, NotifyEffect DEF Running
    <3>2. Overlap'
      BY <3>1 DEF HandInv, Overlap
    <3>3. ASSUME NEW x \in Tasks
          PROVE  task'[x].rows = {} \/ (task'[x].rows = task[x].rows /\ TaskIds(x)' = TaskIds(x))
      BY <1>0, <2>2, NotifyEffect
    <3>4. OwnRows'
      BY <3>3 DEF HandInv, OwnRows
    <3> QED BY <3>2, <3>4
  <2> QED BY <2>1, <2>2
<1>2. ASSUME NEW t \in Tasks, Deliver(t) PROVE Overlap' /\ OwnRows'
  BY <1>2, LaunchOverlap DEF Deliver
<1>3. ASSUME NEW t \in Tasks, Lose(t) \/ Handler(t) PROVE Overlap' /\ OwnRows'
  <2>1. Overlap'
    BY <1>3, OverlapStep
  <2>2. ASSUME NEW x \in Tasks, task'[x] # NoTask
        PROVE  TaskIds(x)' = TaskIds(x) /\ (x # t => task'[x].rows = task[x].rows)
    BY <1>0, <1>3, <2>2, HandlerEffect DEF TaskIds
  <2>3. NoTask.rows = {}
    BY DEF NoTask
  <2>4. task \in [Tasks -> Jobs] /\ task[t] \in Jobs
    BY <1>0 DEF TInv, Types
  <2>5. task'[t] = NoTask \/ task'[t].rows \subseteq task[t].rows \/ task'[t].rows = RowsFor(t)
    <3>1. CASE Lose(t) \/ ReadListFails(t) \/ SetDspList(t) \/ Abort(t)
      BY <2>4, <3>1 DEF Lose, ReadListFails, SetDspList, Abort
    <3>2. CASE ReadRows(t)
      BY <2>4, <3>2 DEF ReadRows, Jobs
    <3>3. CASE SetEntry(t)
      <4>1. PICK row : task' = [task EXCEPT ![t] = [task[t] EXCEPT !.rows = task[t].rows \ {row}]]
        BY <3>3 DEF SetEntry
      <4>2. task'[t].rows = task[t].rows \ {row}
        BY <2>4, <4>1 DEF Jobs
      <4> QED BY <4>2
    <3>4. CASE ReadList(t)
      BY <2>4, <3>4 DEF ReadList, Jobs
    <3> QED BY <1>3, <3>1, <3>2, <3>3, <3>4 DEF Handler
  <2>6. /\ \A row \in RowsFor(t) : row[1] \in TaskIds(t)
        /\ \A row1, row2 \in RowsFor(t) : row1[1] = row2[1] => row1 = row2
    <3>1. CASE IsDelete(t)
      BY <3>1 DEF RowsFor
    <3>2. CASE ~IsDelete(t)
      BY <3>2 DEF RowsFor
    <3> QED BY <3>1, <3>2
  <2>7. OwnRows'
    <3> SUFFICES ASSUME NEW x \in Tasks
                 PROVE  /\ \A row \in task'[x].rows : row[1] \in TaskIds(x)'
                        /\ \A row1, row2 \in task'[x].rows : row1[1] = row2[1] => row1 = row2
      BY DEF OwnRows
    <3>1. CASE task'[x] = NoTask
      BY <2>3, <3>1
    <3>2. CASE task'[x] # NoTask /\ x # t
      BY <2>2, <3>2 DEF HandInv, OwnRows
    <3>3. CASE task'[x] # NoTask /\ x = t
      BY <2>2, <2>5, <2>6, <3>3 DEF HandInv, OwnRows
    <3> QED BY <3>1, <3>2, <3>3
  <2> QED BY <2>1, <2>7
<1>4. ASSUME NEW w \in Workers, FlushAll(w) PROVE Overlap' /\ OwnRows'
  <2>1. <<Boot, w>> \in Tasks
    BY DEF Tasks
  <2> QED BY <1>4, <2>1, LaunchOverlap DEF FlushAll
<1>5. ASSUME NEW w \in Workers, EvictList(w) \/ \E id \in Ids : Evict(w, id)
      PROVE  Overlap' /\ OwnRows'
  BY <1>5, <1>s DEF EvictList, Evict
<1>6. CASE UNCHANGED vars
  BY <1>6, <1>s DEF vars
<1> QED
  BY <1>1, <1>2, <1>3, <1>4, <1>5, <1>6 DEF Next

-----------------------------------------------------------------------------
(* What is coming to a worker arrives, or is excused *)

\* A step of the master: a row that changes is coming, and what is coming stays so,
\* unless the request fails and every worker is excused.
LEMMA ComingMaster ==
  ASSUME TInv, NEW r \in Reqs, Begin(r) \/ Master(r),
         NEW w \in Workers, NEW id \in Ids, NEW stages, "sent" \in stages, "none" \notin stages,
         Coming(w, id, stages) \/ db'[id] # db[id]
  PROVE  Coming(w, id, stages)' \/ (id \in cause'[w] /\ listCause'[w])
<1>0. /\ req \in [Reqs -> Requests] /\ db \in [Ids -> Rows]
      /\ \A c \in Reqs : req[c] \in Requests
  BY DEF TInv, Types
<1> DEFINE q == req[r]
<1>a. /\ q.pc \in {"idle", "check", "write", "done"} /\ q.op \in Ops
      /\ q.content \in Lists /\ q.next \in Nat \ {0}
  BY <1>0 DEF Requests
<1>b. q.content \in Seq(Ids) /\ Len(q.content) \in Nat /\ DOMAIN q.content = 1 .. Len(q.content)
  BY <1>a, ListTypes
<1>c. q.pc = "write" => q.next <= Len(q.content) + 1
  BY DEF TInv, Placed
\* Everything but what is due to r stays.
<1>d. ASSUME \A c \in Reqs : c # r => req'[c] = req[c], task' = task, db'[id] = db[id],
             Notified(w, id, stages) \/
             \E c \in Reqs : c # r /\ req[c].pc = "write" /\ Fits(req[c].op, id)
                             /\ \E i \in 1 .. req[c].next - 1 : req[c].content[i] = id
      PROVE  Coming(w, id, stages)'
  <2>1. CASE Notified(w, id, stages)
    BY <1>d, <2>1 DEF Notified, Coming, Fits, TaskIds
  <2>2. CASE ~Notified(w, id, stages)
    BY <1>d, <2>2 DEF Writing, Coming, Fits
  <2> QED BY <2>1, <2>2
<1>1. CASE Begin(r) \/ Check(r) \/ CheckFail(r)
  <2>1. task' = task /\ db' = db /\ q.pc # "write" /\ \A c \in Reqs : c # r => req'[c] = req[c]
    BY <1>0, <1>1 DEF Begin, Check, CheckFail
  <2> QED BY <1>d, <2>1 DEF Coming, Writing
<1>2. CASE Write(r)
  <2>1. task' = task /\ req'[r] = [q EXCEPT !.next = q.next + 1] /\ q.pc = "write"
        /\ \A c \in Reqs : c # r => req'[c] = req[c]
    BY <1>0, <1>2 DEF Write
  <2>2. /\ req'[r].pc = "write" /\ req'[r].op = q.op /\ req'[r].content = q.content
        /\ req'[r].next = q.next + 1
    BY <1>0, <2>1 DEF Requests
  <2>3. /\ q.content[q.next] \in Ids
        /\ db' = [db EXCEPT ![q.content[q.next]] = RowAfter(q, r, @)]
    BY <1>2, <1>a, <1>b DEF Write
  <2> HIDE DEF q
  <2>4. CASE db'[id] # db[id]
    <3>1. id = q.content[q.next] /\ db'[id] = RowAfter(q, r, db[id])
      BY <1>0, <2>3, <2>4
    <3>2. (q.op = "delete") <=> (db'[id] = Absent)
      BY <1>a, <2>4, <3>1, DistinctAssumption DEF RowAfter, Fits, Ops
    <3>3. q.next \in 1 .. req'[r].next - 1
      BY <1>a, <2>2
    <3>4. Writing(id)'
      BY <2>2, <3>1, <3>2, <3>3 DEF Writing, Fits
    <3> QED BY <3>4 DEF Coming
  <2>5. CASE db'[id] = db[id]
    <3>1. ASSUME Fits(q.op, id), NEW i \in 1 .. q.next - 1, q.content[i] = id
          PROVE  Writing(id)'
      <4>1. i \in 1 .. req'[r].next - 1
        BY <1>a, <2>2, <3>1
      <4> QED BY <2>2, <2>5, <3>1, <4>1 DEF Writing, Fits
    <3>2. CASE \E i \in 1 .. q.next - 1 : Fits(q.op, id) /\ q.content[i] = id
      BY <3>1, <3>2 DEF Coming
    <3>3. CASE ~\E i \in 1 .. q.next - 1 : Fits(q.op, id) /\ q.content[i] = id
      BY <1>d, <2>1, <2>5, <3>3 DEF Coming, Writing, q
    <3> QED BY <3>2, <3>3
  <2> QED BY <2>4, <2>5
<1>3. CASE WriteFail(r)
  <2>1. /\ task' = task /\ \A c \in Reqs : c # r => req'[c] = req[c]
        /\ \A v \in Workers : cause'[v] = cause[v] \cup {q.content[i] : i \in 1 .. q.next}
        /\ \A v \in Workers : listCause'[v]
    BY <1>0, <1>3 DEF WriteFail, BlameAll
  <2>2. CASE \E i \in 1 .. q.next : q.content[i] = id
    BY <2>1, <2>2
  <2>3. CASE ~\E i \in 1 .. q.next : q.content[i] = id
    <3>1. q.next \in 1 .. q.next /\ \A i \in 1 .. q.next - 1 : i \in 1 .. q.next
      BY <1>a
    <3>2. db'[id] = db[id]
      BY <1>0, <1>3, <2>3, <3>1 DEF WriteFail
    <3> QED BY <1>d, <2>1, <2>3, <3>1, <3>2 DEF Coming, Writing
  <2> QED BY <2>2, <2>3
<1>4. CASE NotifySax(r)
  <2>1. db' = db /\ \A c \in Reqs : c # r => req'[c] = req[c]
    BY <1>0, <1>4 DEF NotifySax
  <2>2. ASSUME NEW t \in Tasks, t[2] = w, task[t].pc \in stages, Fits(task[t].op, id), id \in TaskIds(t)
        PROVE  Notified(w, id, stages)'
    <3>1. t[1] # r
      BY <1>4, <2>2, NotifyEffect DEF NoTask
    <3>2. task'[t] = task[t] /\ TaskIds(t)' = TaskIds(t)
      BY <1>4, <3>1, NotifyEffect
    <3> QED BY <2>1, <2>2, <3>2 DEF Notified, Fits
  <2>3. ASSUME NEW i \in 1 .. q.next - 1, q.content[i] = id, Fits(q.op, id)
        PROVE  Notified(w, id, stages)'
    <3>1. <<r, w>> \in Tasks /\ <<r, w>>[1] = r /\ <<r, w>>[2] = w
      BY DEF Tasks
    <3>2. i \in DOMAIN q.content
      BY <1>4, <1>a, <1>b, <1>c, <2>3 DEF NotifySax
    <3>3. id \in IdSet(q.content)
      BY <2>3, <3>2 DEF IdSet
    <3>4. /\ task'[<<r, w>>].pc = "sent" /\ task'[<<r, w>>].op = q.op
          /\ id \in TaskIds(<<r, w>>)'
      BY <1>4, <3>1, <3>3, NotifyEffect
    <3> QED BY <2>1, <2>3, <3>1, <3>4 DEF Notified, Fits
  <2>4. ASSUME NEW c \in Reqs, c # r, req[c].pc = "write", Fits(req[c].op, id),
               \E i \in 1 .. req[c].next - 1 : req[c].content[i] = id
        PROVE  Writing(id)'
    BY <2>1, <2>4 DEF Writing, Fits
  <2> QED BY <2>1, <2>2, <2>3, <2>4 DEF Coming, Writing, Notified
<1>5. CASE NotifyFail(r)
  <2>1. /\ task' = task /\ db' = db /\ \A c \in Reqs : c # r => req'[c] = req[c]
        /\ \A v \in Workers : cause'[v] = cause[v] \cup IdSet(q.content)
        /\ \A v \in Workers : listCause'[v]
    BY <1>0, <1>5 DEF NotifyFail, BlameAll
  <2>2. CASE id \in IdSet(q.content)
    BY <2>1, <2>2
  <2>3. CASE id \notin IdSet(q.content)
    <3>1. \A i \in 1 .. q.next - 1 : i \in DOMAIN q.content
      BY <1>5, <1>a, <1>b, <1>c DEF NotifyFail
    <3>2. ~\E i \in 1 .. q.next - 1 : q.content[i] = id
      BY <2>3, <3>1 DEF IdSet
    <3> QED BY <1>d, <2>1, <3>2 DEF Coming, Writing
  <2> QED BY <2>2, <2>3
<1> QED BY <1>1, <1>2, <1>3, <1>4, <1>5 DEF Master

\* A task that starts is still coming.
LEMMA ComingLaunch ==
  ASSUME TInv, NEW t \in Tasks, Launch(t), UNCHANGED <<db, req>>,
         NEW w \in Workers, NEW id \in Ids, NEW stages, "read" \in stages,
         Coming(w, id, stages)
  PROVE  Coming(w, id, stages)'
<1>1. \A u \in Tasks : /\ task'[u].op = task[u].op /\ TaskIds(u)' = TaskIds(u)
                       /\ task'[u].pc = task[u].pc \/ task'[u].pc = "read"
  BY LaunchEffect
<1>2. Notified(w, id, stages) => Notified(w, id, stages)'
  BY <1>1 DEF Notified, Fits
<1>3. Writing(id) => Writing(id)'
  BY DEF Writing, Fits
<1> QED BY <1>2, <1>3 DEF Coming

\* What a handler has in hand is no longer coming once its rows are read, or its list.
LEMMA ComingHandler ==
  ASSUME TInv, NEW t \in Tasks, Lose(t) \/ Handler(t), NEW w \in Workers, NEW id \in Ids
  PROVE  /\ Coming(w, id, Unread) =>
              \/ Coming(w, id, Unread)' \/ id \in cause'[w]
              \/ /\ ReadRows(t) /\ t[2] = w /\ id \in TaskIds(t) /\ Fits(task[t].op, id)
                 /\ ~RowMissing(t)
         /\ Coming(w, id, Unlisted) =>
              \/ Coming(w, id, Unlisted)' \/ listCause'[w]
              \/ ReadList(t) /\ t[2] = w /\ id \in TaskIds(t)
<1>0. /\ task \in [Tasks -> Jobs] /\ task[t] \in Jobs /\ t[2] \in Workers
      /\ cause \in [Workers -> SUBSET Ids] /\ listCause \in [Workers -> BOOLEAN]
  BY TaskIdTypes DEF TInv, Types
<1>1. db' = db /\ req' = req /\ \A u \in Tasks : u # t => task'[u] = task[u]
  BY HandlerEffect
<1>2. Writing(id) => Writing(id)'
  BY <1>1 DEF Writing, Fits
<1>3. ASSUME NEW stages, NEW u \in Tasks, u # t, u[2] = w, task[u].pc \in stages,
             Fits(task[u].op, id), id \in TaskIds(u)
      PROVE  Notified(w, id, stages)'
  BY <1>1, <1>3 DEF Notified, Fits, TaskIds
<1>4. ASSUME t[2] = w, task[t].pc \in Unlisted, Fits(task[t].op, id), id \in TaskIds(t)
      PROVE  /\ task[t].pc \in Unread =>
                  \/ id \in cause'[w]
                  \/ /\ ReadRows(t) /\ t[2] = w /\ id \in TaskIds(t) /\ Fits(task[t].op, id)
                     /\ ~RowMissing(t)
             /\ Notified(w, id, Unlisted)' \/ listCause'[w] \/ ReadList(t)
  <2>1. CASE Lose(t) \/ Abort(t)
    BY <1>0, <1>4, <2>1 DEF Lose, Abort, Blame
  <2>2. CASE ReadRows(t)
    <3>1. ~RowMissing(t)
      <4> SUFFICES ASSUME RowMissing(t) PROVE FALSE
        OBVIOUS
      <4>1. /\ task[t].content \in Lists /\ task[t].op \in Ops
            /\ Len(task[t].content) = 1 /\ task[t].op # "delete"
            /\ task[t].content[1] \notin InDb
        BY <1>0 DEF RowMissing, IsDelete, Jobs
      <4>2. t[1] # Boot
        <5>1. CASE t[1] = Boot
          <6>1. task[t].content = <<>>
            BY <5>1 DEF TInv, Told
          <6> QED BY <4>1, <6>1
        <5> QED BY <5>1
      <4>3. IdSet(task[t].content) = {task[t].content[1]}
        BY <4>1, ListTypes DEF IdSet
      <4>4. id = task[t].content[1]
        BY <1>4, <4>2, <4>3 DEF TaskIds
      <4> QED BY <1>4, <4>1, <4>4 DEF Fits, InDb
    <3>2. task'[t] = [task[t] EXCEPT !.pc = "set", !.rows = RowsFor(t)]
      BY <1>0, <2>2, <3>1 DEF ReadRows
    <3>3. task'[t].pc = "set" /\ task'[t].op = task[t].op /\ TaskIds(t)' = TaskIds(t)
      BY <1>0, <3>2 DEF Jobs, TaskIds
    <3>4. Notified(w, id, Unlisted)'
      BY <1>1, <1>4, <3>3 DEF Notified, Fits, Unlisted
    <3> QED BY <1>4, <2>2, <3>1, <3>4
  <2>3. CASE SetEntry(t)
    <3>1. task'[t] # NoTask /\ task[t].pc = "set" /\ task'[t].pc = "set"
      <4>1. PICK row : task' = [task EXCEPT ![t] = [task[t] EXCEPT !.rows = task[t].rows \ {row}]]
        BY <2>3 DEF SetEntry
      <4> QED BY <1>0, <2>3, <4>1 DEF SetEntry, Jobs, NoTask
    <3>2. task'[t].op = task[t].op /\ TaskIds(t)' = TaskIds(t)
      BY <3>1, HandlerEffect DEF TaskIds
    <3>3. Notified(w, id, Unlisted)'
      BY <1>1, <1>4, <3>1, <3>2 DEF Notified, Fits, Unlisted
    <3> QED BY <3>1, <3>3 DEF Unread
  <2>4. CASE ReadList(t)
    BY <2>4 DEF ReadList, Unread
  <2>5. CASE ReadListFails(t)
    BY <1>0, <1>4, <2>5 DEF ReadListFails, Unread
  <2>6. CASE SetDspList(t)
    BY <1>4, <2>6 DEF SetDspList, Unlisted
  <2> QED BY <2>1, <2>2, <2>3, <2>4, <2>5, <2>6 DEF Handler
<1>5. \A pc : pc \in Unread => pc \in Unlisted
  BY DEF Unread, Unlisted
<1>6. Notified(w, id, Unread) =>
        \/ Notified(w, id, Unread)' \/ id \in cause'[w]
        \/ /\ ReadRows(t) /\ t[2] = w /\ id \in TaskIds(t) /\ Fits(task[t].op, id)
           /\ ~RowMissing(t)
  BY <1>3, <1>4, <1>5 DEF Notified
<1>7. Notified(w, id, Unlisted) =>
        \/ Notified(w, id, Unlisted)' \/ listCause'[w]
        \/ ReadList(t) /\ t[2] = w /\ id \in TaskIds(t)
  BY <1>3, <1>4 DEF Notified
<1> QED BY <1>2, <1>6, <1>7 DEF Coming

-----------------------------------------------------------------------------
(* The entries *)

\* The master takes no excuse back, and stops no handler.
LEMMA MasterKeeps ==
  ASSUME TInv, NEW r \in Reqs, Begin(r) \/ Master(r)
  PROVE  /\ \A w \in Workers : cause[w] \subseteq cause'[w] /\ (listCause[w] => listCause'[w])
         /\ \A t \in Tasks : task[t].pc \in {"set", "list"} \/ task'[t].pc \in {"set", "list"}
                               => task'[t] = task[t] /\ TaskIds(t)' = TaskIds(t)
         /\ UNCHANGED dicts
<1>1. \A w \in Workers : cause[w] \subseteq cause'[w] /\ (listCause[w] => listCause'[w])
  BY DEF Begin, Master, Check, CheckFail, Write, WriteFail, NotifySax, NotifyFail, BlameAll,
         TInv, Types
<1>2. CASE ~NotifySax(r)
  BY <1>1, <1>2, MasterEffect DEF TaskIds
<1>3. CASE NotifySax(r)
  BY <1>1, <1>3, NotifyEffect DEF NoTask
<1> QED BY <1>2, <1>3

EntriesInv == HandInv /\ EntryInv /\ RowInv

\* Unread and Unlisted name stages a notification begins with.
LEMMA Stages == /\ "sent" \in Unread /\ "read" \in Unread /\ "none" \notin Unread
                /\ "sent" \in Unlisted /\ "read" \in Unlisted /\ "none" \notin Unlisted
BY DEF Unread, Unlisted

LEMMA EntriesMaster ==
  ASSUME EntriesInv, NEW r \in Reqs, Begin(r) \/ Master(r)
  PROVE  EntryInv' /\ RowInv'
<1>0. TInv /\ UNCHANGED sd
  BY MasterKeeps DEF EntriesInv, HandInv
<1>1. ASSUME NEW w \in Workers, NEW id \in Ids, Coming(w, id, Unread) \/ db'[id] # db[id]
      PROVE  Coming(w, id, Unread)' \/ id \in cause'[w]
  BY <1>0, <1>1, ComingMaster, Stages
<1>2. EntryInv'
  <2> SUFFICES ASSUME NEW w \in Workers, NEW id \in Ids, sd[w][id] # db'[id]
               PROVE  \/ Coming(w, id, Unread)' \/ id \in cause'[w]
                      \/ \E t \in Tasks : t[2] = w /\ task'[t].pc = "set"
                                          /\ <<id, db'[id]>> \in task'[t].rows
    BY <1>0 DEF EntryInv
  <2>1. CASE db'[id] # db[id]
    BY <1>1, <2>1
  <2>2. CASE db'[id] = db[id]
    <3>1. \/ Coming(w, id, Unread) \/ id \in cause[w]
          \/ \E t \in Tasks : t[2] = w /\ task[t].pc = "set" /\ <<id, db[id]>> \in task[t].rows
      BY <2>2 DEF EntriesInv, EntryInv
    <3>2. cause[w] \subseteq cause'[w] /\ \A t \in Tasks : task[t].pc = "set" => task'[t] = task[t]
      BY <1>0, MasterKeeps
    <3> QED BY <1>1, <2>2, <3>1, <3>2
  <2> QED BY <2>1, <2>2
<1>3. RowInv'
  <2> SUFFICES ASSUME NEW t \in Tasks, task'[t].pc = "set", NEW row \in task'[t].rows,
                      row[2] # db'[row[1]]
               PROVE  \/ IsDelete(t)' \/ row[1] \in task'[t].met
                      \/ Coming(t[2], row[1], Unread)' \/ row[1] \in cause'[t[2]]
    BY DEF RowInv
  <2>1. task'[t] = task[t] /\ row \in task[t].rows /\ task[t].pc = "set"
    BY <1>0, MasterKeeps
  <2>2. t[2] \in Workers /\ row[1] \in Ids
    BY <1>0, <2>1, TaskIdTypes DEF EntriesInv, HandInv, OwnRows
  <2>3. CASE db'[row[1]] # db[row[1]]
    BY <1>1, <2>2, <2>3
  <2>4. CASE db'[row[1]] = db[row[1]]
    <3>1. \/ IsDelete(t) \/ row[1] \in task[t].met
          \/ Coming(t[2], row[1], Unread) \/ row[1] \in cause[t[2]]
      BY <2>1, <2>4 DEF EntriesInv, RowInv
    <3>2. cause[t[2]] \subseteq cause'[t[2]]
      BY <1>0, <2>2, MasterKeeps
    <3> QED BY <1>1, <2>1, <2>2, <3>1, <3>2 DEF IsDelete
  <2> QED BY <2>3, <2>4
<1> QED BY <1>2, <1>3

\* A task starts; if it is a boot, the dict has been emptied.
LEMMA EntriesLaunch ==
  ASSUME EntriesInv, NEW t \in Tasks, Launch(t), UNCHANGED <<db, req, cause>>,
         task[t].pc \notin {"read", "set", "list"},
         \/ sd' = sd
         \/ t[1] = Boot /\ task[t].pc = "none" /\ sd' = [sd EXCEPT ![t[2]] = [id \in Ids |-> Absent]]
  PROVE  EntryInv' /\ RowInv'
<1>0. TInv /\ t[2] \in Workers /\ sd \in [Workers -> [Ids -> Rows]]
  BY TaskIdTypes DEF EntriesInv, HandInv, TInv, Types
<1>1. ASSUME NEW w \in Workers, NEW id \in Ids, Coming(w, id, Unread) PROVE Coming(w, id, Unread)'
  BY <1>0, <1>1, ComingLaunch, Stages
<1>2. /\ \A u \in Tasks : /\ task'[u].rows = task[u].rows /\ task'[u].op = task[u].op
                          /\ TaskIds(u)' = TaskIds(u)
                          /\ u # t => task'[u].pc = task[u].pc /\ task[u].met \subseteq task'[u].met
      /\ task'[t].pc = "read"
  BY <1>0, LaunchEffect
<1>3. EntryInv'
  <2> SUFFICES ASSUME NEW w \in Workers, NEW id \in Ids, sd'[w][id] # db[id]
               PROVE  \/ Coming(w, id, Unread)' \/ id \in cause[w]
                      \/ \E u \in Tasks : u[2] = w /\ task'[u].pc = "set"
                                          /\ <<id, db[id]>> \in task'[u].rows
    BY DEF EntryInv
  <2>1. CASE sd'[w][id] = sd[w][id]
    <3>1. \/ Coming(w, id, Unread) \/ id \in cause[w]
          \/ \E u \in Tasks : u[2] = w /\ task[u].pc = "set" /\ <<id, db[id]>> \in task[u].rows
      BY <2>1 DEF EntriesInv, EntryInv
    <3>2. ASSUME NEW u \in Tasks, task[u].pc = "set"
          PROVE  task'[u].pc = "set" /\ task'[u].rows = task[u].rows
      BY <1>2, <3>2
    <3> QED BY <1>1, <3>1, <3>2
  <2>2. CASE sd'[w][id] # sd[w][id]
    <3>1. /\ t[1] = Boot /\ task[t].pc = "none" /\ w = t[2]
          /\ sd' = [sd EXCEPT ![t[2]] = [i \in Ids |-> Absent]]
      BY <1>0, <2>2
    <3>2. sd'[w][id] = Absent
      BY <1>0, <3>1
    <3>3. task[t] = NoTask
      BY <1>0, <3>1 DEF TInv, Told
    <3>4. task'[t].op = "update" /\ id \in TaskIds(t)'
      BY <1>2, <3>1, <3>3 DEF NoTask, TaskIds
    <3>5. Notified(w, id, Unread)'
      BY <1>2, <3>1, <3>2, <3>4, Stages DEF Notified, Fits
    <3> QED BY <3>5 DEF Coming
  <2> QED BY <2>1, <2>2
<1>4. RowInv'
  <2> SUFFICES ASSUME NEW u \in Tasks, task'[u].pc = "set", NEW row \in task'[u].rows,
                      row[2] # db[row[1]]
               PROVE  \/ IsDelete(u)' \/ row[1] \in task'[u].met
                      \/ Coming(u[2], row[1], Unread)' \/ row[1] \in cause[u[2]]
    BY DEF RowInv
  <2>1. u # t /\ task[u].pc = "set" /\ row \in task[u].rows /\ task[u].met \subseteq task'[u].met
    BY <1>2
  <2>2. u[2] \in Workers /\ row[1] \in Ids
    BY <1>0, <2>1, TaskIdTypes DEF EntriesInv, HandInv, OwnRows
  <2>3. \/ IsDelete(u) \/ row[1] \in task[u].met
        \/ Coming(u[2], row[1], Unread) \/ row[1] \in cause[u[2]]
    BY <2>1 DEF EntriesInv, RowInv
  <2> QED BY <1>1, <1>2, <2>1, <2>2, <2>3 DEF IsDelete
<1> QED BY <1>3, <1>4

\* A handler stores a row.
LEMMA EntriesSet ==
  ASSUME EntriesInv, NEW t \in Tasks, SetEntry(t)
  PROVE  EntryInv' /\ RowInv'
<1>0. /\ TInv /\ t[2] \in Workers /\ task \in [Tasks -> Jobs] /\ task[t] \in Jobs
      /\ sd \in [Workers -> [Ids -> Rows]] /\ cause \in [Workers -> SUBSET Ids]
      /\ task[t].pc = "set" /\ Running(t)
  BY TaskIdTypes DEF EntriesInv, HandInv, TInv, Types, SetEntry, Running
<1>1. PICK row \in task[t].rows :
        /\ sd' = [sd EXCEPT ![t[2]][row[1]] = row[2]]
        /\ task' = [task EXCEPT ![t] = [task[t] EXCEPT !.rows = task[t].rows \ {row}]]
        /\ cause' = [cause EXCEPT ![t[2]] =
                       IF row[2] = db[row[1]] THEN @ \ {row[1]}
                       ELSE IF IsDelete(t) \/ row[1] \in task[t].met THEN @ \cup {row[1]} ELSE @]
  BY DEF SetEntry
<1> DEFINE w == t[2]  i == row[1]
<1>2. i \in TaskIds(t) /\ i \in Ids /\ row = <<i, row[2]>>
  BY <1>0, TaskIdTypes DEF EntriesInv, HandInv, OwnRows, Jobs
<1>3. /\ \A u \in Tasks : u # t => task'[u] = task[u]
      /\ task'[t].pc = "set" /\ task'[t].rows = task[t].rows \ {row}
      /\ task'[t].op = task[t].op /\ task'[t].met = task[t].met
      /\ TaskIds(t)' = TaskIds(t) /\ db' = db
  BY <1>0, <1>1 DEF Jobs, TaskIds, SetEntry
<1>4. ASSUME NEW v \in Workers, NEW id \in Ids, Coming(v, id, Unread)
      PROVE  Coming(v, id, Unread)'
  <2>1. Writing(id) => Writing(id)'
    BY <1>3 DEF Writing, Fits, SetEntry
  <2>2. Notified(v, id, Unread) => Notified(v, id, Unread)'
    <3> SUFFICES ASSUME NEW u \in Tasks, u[2] = v, task[u].pc \in Unread, Fits(task[u].op, id),
                        id \in TaskIds(u)
                 PROVE  Notified(v, id, Unread)'
      BY DEF Notified
    <3>1. u # t
      BY <1>0 DEF Unread
    <3> QED BY <1>3, <3>1 DEF Notified, Fits, TaskIds
  <2> QED BY <1>4, <2>1, <2>2 DEF Coming
<1>5. \A v \in Workers, id \in Ids : ~(v = w /\ id = i) =>
        sd'[v][id] = sd[v][id] /\ (id \in cause[v] => id \in cause'[v])
  BY <1>0, <1>1, <1>2
<1>6. sd'[w][i] = row[2]
  BY <1>0, <1>1, <1>2
<1>7. /\ row[2] # db[i] /\ (IsDelete(t) \/ i \in task[t].met) => i \in cause'[w]
      /\ row[2] # db[i] /\ i \in cause[w] => i \in cause'[w]
  BY <1>0, <1>1, <1>2
<1> HIDE DEF w, i
<1>8. EntryInv'
  <2> SUFFICES ASSUME NEW v \in Workers, NEW id \in Ids, sd'[v][id] # db[id]
               PROVE  \/ Coming(v, id, Unread)' \/ id \in cause'[v]
                      \/ \E u \in Tasks : u[2] = v /\ task'[u].pc = "set"
                                          /\ <<id, db[id]>> \in task'[u].rows
    BY <1>3 DEF EntryInv
  <2>1. CASE v = w /\ id = i
    <3>1. row[2] # db[i]
      BY <1>6, <2>1
    <3>2. \/ IsDelete(t) \/ i \in task[t].met \/ Coming(w, i, Unread) \/ i \in cause[w]
      BY <1>0, <1>1, <3>1 DEF EntriesInv, RowInv, w, i
    <3> QED BY <1>4, <1>7, <2>1, <3>1, <3>2
  <2>2. CASE ~(v = w /\ id = i)
    <3>1. \/ Coming(v, id, Unread) \/ id \in cause[v]
          \/ \E u \in Tasks : u[2] = v /\ task[u].pc = "set" /\ <<id, db[id]>> \in task[u].rows
      BY <1>5, <2>2 DEF EntriesInv, EntryInv
    <3>2. ASSUME NEW u \in Tasks, u[2] = v, task[u].pc = "set", <<id, db[id]>> \in task[u].rows
          PROVE  task'[u].pc = "set" /\ <<id, db[id]>> \in task'[u].rows
      <4>1. CASE u # t
        BY <1>3, <3>2, <4>1
      <4>2. CASE u = t
        <5>1. id # i
          BY <2>2, <3>2, <4>2 DEF w
        <5>2. <<id, db[id]>> # row
          BY <1>2, <5>1
        <5> QED BY <1>3, <3>2, <4>2, <5>2
      <4> QED BY <4>1, <4>2
    <3> QED BY <1>4, <1>5, <2>2, <3>1, <3>2
  <2> QED BY <2>1, <2>2
<1>9. RowInv'
  <2> SUFFICES ASSUME NEW u \in Tasks, task'[u].pc = "set", NEW rw \in task'[u].rows,
                      rw[2] # db[rw[1]]
               PROVE  \/ IsDelete(u)' \/ rw[1] \in task'[u].met
                      \/ Coming(u[2], rw[1], Unread)' \/ rw[1] \in cause'[u[2]]
    BY <1>3 DEF RowInv
  <2>1. /\ task[u].pc = "set" /\ rw \in task[u].rows /\ task'[u].met = task[u].met
        /\ task'[u].op = task[u].op
    <3>1. CASE u = t
      BY <1>0, <1>3, <3>1
    <3>2. CASE u # t
      BY <1>3, <3>2
    <3> QED BY <3>1, <3>2
  <2>2. u[2] \in Workers /\ rw[1] \in Ids /\ rw[1] \in TaskIds(u)
    BY <1>0, <2>1, TaskIdTypes DEF EntriesInv, HandInv, OwnRows
  <2>3. \/ IsDelete(u) \/ rw[1] \in task[u].met
        \/ Coming(u[2], rw[1], Unread) \/ rw[1] \in cause[u[2]]
    BY <2>1 DEF EntriesInv, RowInv
  <2>4. CASE u[2] = w /\ rw[1] = i
    <3>1. CASE u = t
      <4>1. rw = row
        BY <1>1, <2>1, <2>4, <3>1 DEF EntriesInv, HandInv, OwnRows, i
      <4> QED BY <1>3, <3>1, <4>1
    <3>2. CASE u # t
      <4>1. Running(u)
        BY <2>1 DEF Running
      <4>2. i \in task[u].met
        BY <1>0, <1>2, <2>4, <3>2, <4>1 DEF EntriesInv, HandInv, Overlap, w, i
      <4> QED BY <2>1, <2>4, <4>2
    <3> QED BY <3>1, <3>2
  <2>5. CASE ~(u[2] = w /\ rw[1] = i)
    BY <1>4, <1>5, <2>1, <2>2, <2>3, <2>5 DEF IsDelete
  <2> QED BY <2>4, <2>5
<1> QED BY <1>8, <1>9

\* A handler reads its rows: what it has to put right, it has now in hand.
LEMMA EntriesRead ==
  ASSUME EntriesInv, NEW t \in Tasks, ReadRows(t)
  PROVE  EntryInv' /\ RowInv'
<1>0. /\ TInv /\ t[2] \in Workers /\ task \in [Tasks -> Jobs] /\ task[t] \in Jobs
      /\ task[t].pc = "read" /\ Running(t) /\ UNCHANGED <<db, sd, cause>>
  BY TaskIdTypes DEF EntriesInv, HandInv, TInv, Types, ReadRows, Running
<1>1. /\ \A u \in Tasks : u # t => task'[u] = task[u]
      /\ RowMissing(t) => task'[t] = NoTask
      /\ ~RowMissing(t) => /\ task'[t].pc = "set" /\ task'[t].rows = RowsFor(t)
                           /\ task'[t].op = task[t].op
  BY <1>0 DEF ReadRows, Jobs
<1>2. ASSUME NEW w \in Workers, NEW id \in Ids, Coming(w, id, Unread)
      PROVE  \/ Coming(w, id, Unread)' \/ id \in cause'[w]
             \/ t[2] = w /\ id \in TaskIds(t) /\ Fits(task[t].op, id) /\ ~RowMissing(t)
  BY <1>0, <1>2, ComingHandler DEF Handler
<1>3. EntryInv'
  <2> SUFFICES ASSUME NEW w \in Workers, NEW id \in Ids, sd[w][id] # db[id]
               PROVE  \/ Coming(w, id, Unread)' \/ id \in cause'[w]
                      \/ \E u \in Tasks : u[2] = w /\ task'[u].pc = "set"
                                          /\ <<id, db[id]>> \in task'[u].rows
    BY <1>0 DEF EntryInv
  <2>1. \/ Coming(w, id, Unread) \/ id \in cause[w]
        \/ \E u \in Tasks : u[2] = w /\ task[u].pc = "set" /\ <<id, db[id]>> \in task[u].rows
    BY DEF EntriesInv, EntryInv
  <2>2. ASSUME t[2] = w, id \in TaskIds(t), Fits(task[t].op, id), ~RowMissing(t)
        PROVE  t[2] = w /\ task'[t].pc = "set" /\ <<id, db[id]>> \in task'[t].rows
    <3>1. <<id, db[id]>> \in RowsFor(t)
      BY <2>2 DEF RowsFor, IsDelete, Fits, InDb
    <3> QED BY <1>1, <2>2, <3>1
  <2>3. ASSUME NEW u \in Tasks, task[u].pc = "set" PROVE task'[u] = task[u]
    BY <1>0, <1>1, <2>3
  <2> QED BY <1>0, <1>2, <2>1, <2>2, <2>3
<1>4. RowInv'
  <2> SUFFICES ASSUME NEW u \in Tasks, task'[u].pc = "set", NEW row \in task'[u].rows,
                      row[2] # db[row[1]]
               PROVE  \/ IsDelete(u)' \/ row[1] \in task'[u].met
                      \/ Coming(u[2], row[1], Unread)' \/ row[1] \in cause'[u[2]]
    BY <1>0 DEF RowInv
  <2>1. CASE u = t
    <3>1. ~RowMissing(t)
      BY <1>1, <2>1 DEF NoTask
    <3>2. row \in RowsFor(t)
      BY <1>1, <2>1, <3>1
    <3>3. IsDelete(t)
      BY <3>2 DEF RowsFor
    <3> QED BY <1>1, <2>1, <3>1, <3>3 DEF IsDelete
  <2>2. CASE u # t
    <3>1. task'[u] = task[u] /\ task[u].pc = "set" /\ row \in task[u].rows
      BY <1>1, <2>2
    <3>2. u[2] \in Workers /\ row[1] \in Ids
      BY <1>0, <3>1, TaskIdTypes DEF EntriesInv, HandInv, OwnRows
    <3>3. \/ IsDelete(u) \/ row[1] \in task[u].met
          \/ Coming(u[2], row[1], Unread) \/ row[1] \in cause[u[2]]
      BY <3>1 DEF EntriesInv, RowInv
    <3>4. t[2] = u[2] /\ row[1] \in TaskIds(t) => row[1] \in task[u].met
      BY <1>0, <2>2, <3>1 DEF EntriesInv, HandInv, Overlap, Running
    <3> QED BY <1>0, <1>2, <3>1, <3>2, <3>3, <3>4 DEF IsDelete
  <2> QED BY <2>1, <2>2
<1> QED BY <1>3, <1>4

\* A handler goes on to the list, or ends: it has no row left, or its ids are excused.
LEMMA EntriesEnd ==
  ASSUME EntriesInv, NEW t \in Tasks,
         Lose(t) \/ Abort(t) \/ ReadList(t) \/ ReadListFails(t) \/ SetDspList(t)
  PROVE  EntryInv' /\ RowInv'
<1>0. /\ TInv /\ t[2] \in Workers /\ task \in [Tasks -> Jobs] /\ task[t] \in Jobs
      /\ cause \in [Workers -> SUBSET Ids] /\ UNCHANGED <<db, sd>>
  BY TaskIdTypes DEF EntriesInv, HandInv, TInv, Types, Lose, Abort, ReadList, ReadListFails, SetDspList
<1>1. /\ \A u \in Tasks : u # t => task'[u] = task[u]
      /\ task'[t].pc # "set"
  BY <1>0 DEF Lose, Abort, ReadList, ReadListFails, SetDspList, NoTask, Jobs
<1>2. /\ \A w \in Workers : cause[w] \subseteq cause'[w]
      /\ task[t].pc = "set" => task[t].rows = {} \/ TaskIds(t) \subseteq cause'[t[2]]
  BY <1>0 DEF Lose, Abort, ReadList, ReadListFails, SetDspList, Blame
<1>3. ASSUME NEW w \in Workers, NEW id \in Ids, Coming(w, id, Unread)
      PROVE  Coming(w, id, Unread)' \/ id \in cause'[w]
  <2>1. ~(ReadRows(t) /\ ~RowMissing(t))
    BY <1>0, <1>1 DEF ReadRows, Jobs
  <2> QED BY <1>0, <1>3, <2>1, ComingHandler DEF Handler
<1>4. EntryInv'
  <2> SUFFICES ASSUME NEW w \in Workers, NEW id \in Ids, sd[w][id] # db[id]
               PROVE  \/ Coming(w, id, Unread)' \/ id \in cause'[w]
                      \/ \E u \in Tasks : u[2] = w /\ task'[u].pc = "set"
                                          /\ <<id, db[id]>> \in task'[u].rows
    BY <1>0 DEF EntryInv
  <2>1. \/ Coming(w, id, Unread) \/ id \in cause[w]
        \/ \E u \in Tasks : u[2] = w /\ task[u].pc = "set" /\ <<id, db[id]>> \in task[u].rows
    BY DEF EntriesInv, EntryInv
  <2>2. ASSUME NEW u \in Tasks, u[2] = w, task[u].pc = "set", <<id, db[id]>> \in task[u].rows
        PROVE  task'[u] = task[u] \/ id \in cause'[w]
    <3>1. CASE u # t
      BY <1>1, <3>1
    <3>2. CASE u = t
      <4>1. <<id, db[id]>>[1] \in TaskIds(t)
        BY <2>2, <3>2 DEF EntriesInv, HandInv, OwnRows
      <4> QED BY <1>2, <2>2, <3>2, <4>1
    <3> QED BY <3>1, <3>2
  <2> QED BY <1>2, <1>3, <2>1, <2>2
<1>5. RowInv'
  <2> SUFFICES ASSUME NEW u \in Tasks, task'[u].pc = "set", NEW row \in task'[u].rows,
                      row[2] # db[row[1]]
               PROVE  \/ IsDelete(u)' \/ row[1] \in task'[u].met
                      \/ Coming(u[2], row[1], Unread)' \/ row[1] \in cause'[u[2]]
    BY <1>0 DEF RowInv
  <2>1. task'[u] = task[u] /\ task[u].pc = "set" /\ row \in task[u].rows
    BY <1>1
  <2>2. u[2] \in Workers /\ row[1] \in Ids
    BY <1>0, <2>1, TaskIdTypes DEF EntriesInv, HandInv, OwnRows
  <2>3. \/ IsDelete(u) \/ row[1] \in task[u].met
        \/ Coming(u[2], row[1], Unread) \/ row[1] \in cause[u[2]]
    BY <2>1 DEF EntriesInv, RowInv
  <2> QED BY <1>2, <1>3, <2>1, <2>2, <2>3 DEF IsDelete
<1> QED BY <1>4, <1>5

LEMMA StepEntries == EntriesInv /\ [Next]_vars => EntriesInv'
<1> SUFFICES ASSUME EntriesInv, [Next]_vars PROVE EntryInv' /\ RowInv'
  BY StepHand DEF EntriesInv
<1>1. ASSUME NEW r \in Reqs, Begin(r) \/ Master(r) PROVE EntryInv' /\ RowInv'
  BY <1>1, EntriesMaster
<1>2. ASSUME NEW t \in Tasks, Deliver(t) PROVE EntryInv' /\ RowInv'
  BY <1>2, EntriesLaunch DEF Deliver
<1>3. ASSUME NEW t \in Tasks, Lose(t) \/ Handler(t) PROVE EntryInv' /\ RowInv'
  BY <1>3, EntriesSet, EntriesRead, EntriesEnd DEF Handler
<1>4. ASSUME NEW w \in Workers, FlushAll(w) PROVE EntryInv' /\ RowInv'
  <2>1. <<Boot, w>> \in Tasks /\ <<Boot, w>>[1] = Boot /\ <<Boot, w>>[2] = w
    BY DEF Tasks
  <2> QED BY <1>4, <2>1, EntriesLaunch DEF FlushAll
<1>s. ASSUME UNCHANGED <<db, req, task>>, \A w \in Workers : cause[w] \subseteq cause'[w],
             \A w \in Workers, id \in Ids : sd'[w][id] = sd[w][id] \/ id \in cause'[w]
      PROVE  EntryInv' /\ RowInv'
  <2>1. \A w, id : Coming(w, id, Unread)' <=> Coming(w, id, Unread)
    BY <1>s DEF Coming, Writing, Notified, Fits, TaskIds, Unread
  <2>2. EntryInv'
    BY <1>s, <2>1 DEF EntriesInv, EntryInv
  <2>3. \A t \in Tasks : t[2] \in Workers
    BY DEF Tasks
  <2>4. RowInv'
    BY <1>s, <2>1, <2>3 DEF EntriesInv, RowInv, IsDelete
  <2> QED BY <2>2, <2>4
<1>t. sd \in [Workers -> [Ids -> Rows]] /\ cause \in [Workers -> SUBSET Ids]
  BY DEF EntriesInv, HandInv, TInv, Types
<1>5. ASSUME NEW w \in Workers, EvictList(w) PROVE EntryInv' /\ RowInv'
  BY <1>5, <1>s DEF EvictList
<1>6. ASSUME NEW w \in Workers, NEW id \in Ids, Evict(w, id) PROVE EntryInv' /\ RowInv'
  <2>1. /\ \A v \in Workers : cause[v] \subseteq cause'[v]
        /\ \A v \in Workers, i \in Ids : sd'[v][i] = sd[v][i] \/ i \in cause'[v]
    BY <1>6, <1>t DEF Evict
  <2> QED BY <1>6, <1>s, <2>1 DEF Evict
<1>7. CASE UNCHANGED vars
  BY <1>7, <1>s DEF vars
<1> QED
  BY <1>1, <1>2, <1>3, <1>4, <1>5, <1>6, <1>7 DEF Next

-----------------------------------------------------------------------------
(* The lists *)

ListsInv == HandInv /\ ListInv /\ NewListInv

LEMMA ListsMaster ==
  ASSUME ListsInv, NEW r \in Reqs, Begin(r) \/ Master(r)
  PROVE  ListInv' /\ NewListInv'
<1>0. TInv /\ UNCHANGED list
  BY MasterKeeps DEF ListsInv, HandInv
<1>1. ASSUME NEW w \in Workers, NEW id \in Ids, Coming(w, id, Unlisted) \/ db'[id] # db[id]
      PROVE  Coming(w, id, Unlisted)' \/ listCause'[w]
  BY <1>0, <1>1, ComingMaster, Stages
<1>a. \A w \in Workers : listCause[w] => listCause'[w]
  BY <1>0, MasterKeeps
<1>2. ListInv'
  <2> SUFFICES ASSUME NEW w \in Workers, NEW id \in Ids, (id \in list[w]) # (id \in InDb')
               PROVE  \/ listCause'[w] \/ Coming(w, id, Unlisted)'
                      \/ \E t \in Tasks : t[2] = w /\ task'[t].pc = "list" /\ id \in TaskIds(t)'
    BY <1>0 DEF ListInv
  <2>1. CASE db'[id] # db[id]
    BY <1>1, <2>1
  <2>2. CASE db'[id] = db[id]
    <3>1. \/ listCause[w] \/ Coming(w, id, Unlisted)
          \/ \E t \in Tasks : t[2] = w /\ task[t].pc = "list" /\ id \in TaskIds(t)
      BY <2>2 DEF ListsInv, ListInv, InDb
    <3>2. \A t \in Tasks : task[t].pc = "list" => task'[t] = task[t] /\ TaskIds(t)' = TaskIds(t)
      BY <1>0, MasterKeeps
    <3> QED BY <1>1, <1>a, <3>1, <3>2
  <2> QED BY <2>1, <2>2
<1>3. NewListInv'
  <2> SUFFICES ASSUME NEW t \in Tasks, task'[t].pc = "list", NEW id \in Ids,
                      (id \in task'[t].ids) # (id \in InDb')
               PROVE  listCause'[t[2]] \/ task'[t].met # {} \/ Coming(t[2], id, Unlisted)'
    BY DEF NewListInv
  <2>1. task'[t] = task[t] /\ task[t].pc = "list" /\ t[2] \in Workers
    BY <1>0, MasterKeeps, TaskIdTypes
  <2>2. CASE db'[id] # db[id]
    BY <1>1, <2>1, <2>2
  <2>3. CASE db'[id] = db[id]
    <3>1. listCause[t[2]] \/ task[t].met # {} \/ Coming(t[2], id, Unlisted)
      BY <2>1, <2>3 DEF ListsInv, NewListInv, InDb
    <3> QED BY <1>1, <1>a, <2>1, <3>1
  <2> QED BY <2>2, <2>3
<1> QED BY <1>2, <1>3

LEMMA ListsLaunch ==
  ASSUME ListsInv, NEW t \in Tasks, Launch(t), UNCHANGED <<db, req, listCause>>,
         task[t].pc \notin {"read", "set", "list"},
         \/ list' = list
         \/ t[1] = Boot /\ task[t].pc = "none" /\ list' = [list EXCEPT ![t[2]] = {}]
  PROVE  ListInv' /\ NewListInv'
<1>0. TInv /\ t[2] \in Workers /\ list \in [Workers -> SUBSET Ids] /\ task \in [Tasks -> Jobs]
  BY TaskIdTypes DEF ListsInv, HandInv, TInv, Types
<1>1. ASSUME NEW w \in Workers, NEW id \in Ids, Coming(w, id, Unlisted) PROVE Coming(w, id, Unlisted)'
  BY <1>0, <1>1, ComingLaunch, Stages
<1>2. /\ \A u \in Tasks : /\ task'[u].ids = task[u].ids /\ task'[u].op = task[u].op
                          /\ TaskIds(u)' = TaskIds(u)
                          /\ u # t => task'[u].pc = task[u].pc /\ task[u].met \subseteq task'[u].met
      /\ task'[t].pc = "read"
  BY <1>0, LaunchEffect
<1>3. InDb' = InDb
  BY DEF InDb
<1>4. ListInv'
  <2> SUFFICES ASSUME NEW w \in Workers, NEW id \in Ids, (id \in list'[w]) # (id \in InDb)
               PROVE  \/ listCause[w] \/ Coming(w, id, Unlisted)'
                      \/ \E u \in Tasks : u[2] = w /\ task'[u].pc = "list" /\ id \in TaskIds(u)'
    BY <1>3 DEF ListInv
  <2>1. CASE list'[w] = list[w]
    <3>1. \/ listCause[w] \/ Coming(w, id, Unlisted)
          \/ \E u \in Tasks : u[2] = w /\ task[u].pc = "list" /\ id \in TaskIds(u)
      BY <2>1 DEF ListsInv, ListInv
    <3>2. ASSUME NEW u \in Tasks, task[u].pc = "list"
          PROVE  task'[u].pc = "list" /\ TaskIds(u)' = TaskIds(u)
      BY <1>2, <3>2
    <3> QED BY <1>1, <3>1, <3>2
  <2>2. CASE list'[w] # list[w]
    <3>1. /\ t[1] = Boot /\ task[t].pc = "none" /\ w = t[2] /\ list'[w] = {}
      BY <1>0, <2>2
    <3>2. db[id] # Absent
      BY <3>1 DEF InDb
    <3>3. task[t] = NoTask
      BY <1>0, <3>1 DEF TInv, Told
    <3>4. task'[t].op = "update" /\ id \in TaskIds(t)'
      BY <1>2, <3>1, <3>3 DEF NoTask, TaskIds
    <3>5. Notified(w, id, Unlisted)'
      BY <1>2, <3>1, <3>2, <3>4, Stages DEF Notified, Fits
    <3> QED BY <3>5 DEF Coming
  <2> QED BY <2>1, <2>2
<1>5. NewListInv'
  <2> SUFFICES ASSUME NEW u \in Tasks, task'[u].pc = "list", NEW id \in Ids,
                      (id \in task'[u].ids) # (id \in InDb)
               PROVE  listCause[u[2]] \/ task'[u].met # {} \/ Coming(u[2], id, Unlisted)'
    BY <1>3 DEF NewListInv
  <2>1. u # t /\ task[u].pc = "list" /\ task'[u].ids = task[u].ids /\ task[u].met \subseteq task'[u].met
    BY <1>2
  <2>2. u[2] \in Workers
    BY <1>0, TaskIdTypes
  <2>3. listCause[u[2]] \/ task[u].met # {} \/ Coming(u[2], id, Unlisted)
    BY <2>1 DEF ListsInv, NewListInv
  <2> QED BY <1>1, <2>1, <2>2, <2>3
<1> QED BY <1>4, <1>5

\* A handler has an id, if there are any.
LEMMA HasIds ==
  ASSUME TInv, NEW t \in Tasks, Running(t), NEW id \in Ids
  PROVE  TaskIds(t) # {}
<1>1. CASE t[1] = Boot
  BY <1>1 DEF TaskIds
<1>2. CASE t[1] # Boot
  <2>1. task[t].content \in Contents
    BY <1>2 DEF TInv, Told, Running
  <2> QED BY <1>2, <2>1, ListNotEmpty DEF TaskIds
<1> QED BY <1>1, <1>2

\* The list is stored: if it is out of date, another handler has overlapped or is
\* still to come.
LEMMA ListsSet ==
  ASSUME ListsInv, NEW t \in Tasks, SetDspList(t)
  PROVE  ListInv' /\ NewListInv'
<1>0. /\ TInv /\ t[2] \in Workers /\ task \in [Tasks -> Jobs] /\ task[t] \in Jobs
      /\ list \in [Workers -> SUBSET Ids] /\ listCause \in [Workers -> BOOLEAN]
      /\ task[t].pc = "list" /\ Running(t) /\ UNCHANGED <<db, req>>
  BY TaskIdTypes DEF ListsInv, HandInv, TInv, Types, SetDspList, Running
<1>1. /\ \A u \in Tasks : u # t => task'[u] = task[u] /\ TaskIds(u)' = TaskIds(u)
      /\ task'[t] = NoTask
      /\ \A w \in Workers : w # t[2] => list'[w] = list[w] /\ listCause'[w] = listCause[w]
      /\ list'[t[2]] = task[t].ids
      /\ listCause'[t[2]] = (task[t].ids # InDb /\ (listCause[t[2]] \/ task[t].met # {}))
      /\ InDb' = InDb
  BY <1>0 DEF SetDspList, InDb, TaskIds
<1>2. ASSUME NEW w \in Workers, NEW id \in Ids, Coming(w, id, Unlisted) PROVE Coming(w, id, Unlisted)'
  <2>1. Writing(id) => Writing(id)'
    BY <1>0 DEF Writing, Fits
  <2>2. Notified(w, id, Unlisted) => Notified(w, id, Unlisted)'
    BY <1>0, <1>1 DEF Notified, Fits, Unlisted
  <2> QED BY <1>2, <2>1, <2>2 DEF Coming
<1>3. ListInv'
  <2> SUFFICES ASSUME NEW w \in Workers, NEW id \in Ids, (id \in list'[w]) # (id \in InDb)
               PROVE  \/ listCause'[w] \/ Coming(w, id, Unlisted)'
                      \/ \E u \in Tasks : u[2] = w /\ task'[u].pc = "list" /\ id \in TaskIds(u)'
    BY <1>1 DEF ListInv
  <2>1. CASE w = t[2]
    <3>1. (id \in task[t].ids) # (id \in InDb) /\ task[t].ids # InDb
      BY <1>1, <2>1
    <3>2. listCause[w] \/ task[t].met # {} \/ Coming(w, id, Unlisted)
      BY <1>0, <2>1, <3>1 DEF ListsInv, NewListInv
    <3> QED BY <1>1, <1>2, <2>1, <3>1, <3>2
  <2>2. CASE w # t[2]
    <3>1. \/ listCause[w] \/ Coming(w, id, Unlisted)
          \/ \E u \in Tasks : u[2] = w /\ task[u].pc = "list" /\ id \in TaskIds(u)
      BY <1>1, <2>2 DEF ListsInv, ListInv
    <3> QED BY <1>1, <1>2, <2>2, <3>1
  <2> QED BY <2>1, <2>2
<1>4. NewListInv'
  <2> SUFFICES ASSUME NEW u \in Tasks, task'[u].pc = "list", NEW id \in Ids,
                      (id \in task'[u].ids) # (id \in InDb)
               PROVE  listCause'[u[2]] \/ task'[u].met # {} \/ Coming(u[2], id, Unlisted)'
    BY <1>1 DEF NewListInv
  <2>1. u # t /\ task'[u] = task[u] /\ u[2] \in Workers
    BY <1>0, <1>1, TaskIdTypes DEF NoTask
  <2>2. CASE u[2] = t[2]
    <3>1. TaskIds(t) \subseteq task[u].met
      BY <1>0, <2>1, <2>2 DEF ListsInv, HandInv, Overlap, Running
    <3> QED BY <1>0, <2>1, <3>1, HasIds
  <2>3. CASE u[2] # t[2]
    <3>1. listCause[u[2]] \/ task[u].met # {} \/ Coming(u[2], id, Unlisted)
      BY <2>1 DEF ListsInv, NewListInv
    <3> QED BY <1>1, <1>2, <2>1, <2>3, <3>1
  <2> QED BY <2>2, <2>3
<1> QED BY <1>3, <1>4

\* The other steps of a handler do not touch the list, or leave an excuse.
LEMMA ListsHandler ==
  ASSUME ListsInv, NEW t \in Tasks, Lose(t) \/ Handler(t), ~SetDspList(t)
  PROVE  ListInv' /\ NewListInv'
<1>0. /\ TInv /\ t[2] \in Workers /\ task \in [Tasks -> Jobs] /\ task[t] \in Jobs
      /\ list \in [Workers -> SUBSET Ids] /\ listCause \in [Workers -> BOOLEAN]
  BY TaskIdTypes DEF ListsInv, HandInv, TInv, Types
<1>1. /\ \A u \in Tasks : u # t => task'[u] = task[u] /\ TaskIds(u)' = TaskIds(u)
      /\ InDb' = InDb
  BY <1>0, HandlerEffect DEF InDb, TaskIds
<1>2. /\ \A w \in Workers : (listCause[w] => listCause'[w]) /\ (list'[w] = list[w] \/ listCause'[w])
      /\ task[t].pc = "list" => listCause'[t[2]]
      /\ task'[t].pc = "list" => ReadList(t) /\ task'[t].ids = InDb /\ TaskIds(t)' = TaskIds(t)
      /\ ReadList(t) => task'[t].pc = "list"
  <2>1. CASE Lose(t)
    BY <1>0, <2>1 DEF Lose, Blame, NoTask, ReadList
  <2>2. CASE Abort(t)
    BY <1>0, <2>2 DEF Abort, Blame, NoTask, ReadList, Jobs
  <2>3. CASE ReadRows(t)
    BY <1>0, <2>3 DEF ReadRows, NoTask, ReadList, Jobs
  <2>4. CASE SetEntry(t)
    <3>1. PICK row : task' = [task EXCEPT ![t] = [task[t] EXCEPT !.rows = task[t].rows \ {row}]]
      BY <2>4 DEF SetEntry
    <3>2. task'[t].pc = "set"
      BY <1>0, <2>4, <3>1 DEF SetEntry, Jobs
    <3> QED BY <1>0, <2>4, <3>2 DEF SetEntry, ReadList, Jobs
  <2>5. CASE ReadList(t)
    BY <1>0, <2>5 DEF ReadList, TaskIds, Jobs
  <2>6. CASE ReadListFails(t)
    BY <1>0, <2>6 DEF ReadListFails, ReadList, NoTask, Jobs
  <2> QED BY <2>1, <2>2, <2>3, <2>4, <2>5, <2>6 DEF Handler
<1>3. ASSUME NEW w \in Workers, NEW id \in Ids, Coming(w, id, Unlisted)
      PROVE  Coming(w, id, Unlisted)' \/ listCause'[w] \/ (ReadList(t) /\ t[2] = w /\ id \in TaskIds(t))
  BY <1>0, <1>3, ComingHandler
<1>4. ListInv'
  <2> SUFFICES ASSUME NEW w \in Workers, NEW id \in Ids, (id \in list'[w]) # (id \in InDb), ~listCause'[w]
               PROVE  \/ Coming(w, id, Unlisted)'
                      \/ \E u \in Tasks : u[2] = w /\ task'[u].pc = "list" /\ id \in TaskIds(u)'
    BY <1>1 DEF ListInv
  <2>1. ~listCause[w] /\ list'[w] = list[w]
    BY <1>2
  <2>2. \/ Coming(w, id, Unlisted)
        \/ \E u \in Tasks : u[2] = w /\ task[u].pc = "list" /\ id \in TaskIds(u)
    BY <2>1 DEF ListsInv, ListInv
  <2>3. CASE Coming(w, id, Unlisted)
    BY <1>2, <1>3, <2>3
  <2>4. ASSUME NEW u \in Tasks, u[2] = w, task[u].pc = "list", id \in TaskIds(u)
        PROVE  u[2] = w /\ task'[u].pc = "list" /\ id \in TaskIds(u)'
    BY <1>1, <1>2, <2>4
  <2> QED BY <2>2, <2>3, <2>4
<1>5. NewListInv'
  <2> SUFFICES ASSUME NEW u \in Tasks, task'[u].pc = "list", NEW id \in Ids,
                      (id \in task'[u].ids) # (id \in InDb)
               PROVE  listCause'[u[2]] \/ task'[u].met # {} \/ Coming(u[2], id, Unlisted)'
    BY <1>1 DEF NewListInv
  <2>1. u # t /\ u[2] \in Workers
    BY <1>0, <1>2, TaskIdTypes
  <2>2. task'[u] = task[u]
    BY <1>1, <2>1
  <2>3. listCause[u[2]] \/ task[u].met # {} \/ Coming(u[2], id, Unlisted)
    BY <2>2 DEF ListsInv, NewListInv
  <2>4. ASSUME ReadList(t), t[2] = u[2], id \in TaskIds(t) PROVE task[u].met # {}
    <3>1. Running(t) /\ Running(u)
      BY <2>2, <2>4 DEF ReadList, Running
    <3>2. TaskIds(t) \subseteq task[u].met
      BY <2>1, <2>4, <3>1 DEF ListsInv, HandInv, Overlap
    <3> QED BY <2>4, <3>2
  <2> QED BY <1>2, <1>3, <2>1, <2>2, <2>3, <2>4
<1> QED BY <1>4, <1>5

LEMMA StepLists == ListsInv /\ [Next]_vars => ListsInv'
<1> SUFFICES ASSUME ListsInv, [Next]_vars PROVE ListInv' /\ NewListInv'
  BY StepHand DEF ListsInv
<1>1. ASSUME NEW r \in Reqs, Begin(r) \/ Master(r) PROVE ListInv' /\ NewListInv'
  BY <1>1, ListsMaster
<1>2. ASSUME NEW t \in Tasks, Deliver(t) PROVE ListInv' /\ NewListInv'
  BY <1>2, ListsLaunch DEF Deliver
<1>3. ASSUME NEW t \in Tasks, Lose(t) \/ Handler(t) PROVE ListInv' /\ NewListInv'
  BY <1>3, ListsSet, ListsHandler
<1>4. ASSUME NEW w \in Workers, FlushAll(w) PROVE ListInv' /\ NewListInv'
  <2>1. <<Boot, w>> \in Tasks /\ <<Boot, w>>[1] = Boot /\ <<Boot, w>>[2] = w
    BY DEF Tasks
  <2> QED BY <1>4, <2>1, ListsLaunch DEF FlushAll
<1>s. ASSUME UNCHANGED <<db, req, task>>,
             \A w \in Workers : /\ listCause[w] => listCause'[w]
                                /\ list'[w] = list[w] \/ listCause'[w]
      PROVE  ListInv' /\ NewListInv'
  <2>1. \A w, id : Coming(w, id, Unlisted)' <=> Coming(w, id, Unlisted)
    BY <1>s DEF Coming, Writing, Notified, Fits, TaskIds, Unlisted
  <2>2. InDb' = InDb /\ \A t \in Tasks : t[2] \in Workers /\ TaskIds(t)' = TaskIds(t)
    BY <1>s DEF InDb, Tasks, TaskIds
  <2>3. ListInv'
    BY <1>s, <2>1, <2>2 DEF ListsInv, ListInv
  <2>4. NewListInv'
    BY <1>s, <2>1, <2>2 DEF ListsInv, NewListInv
  <2> QED BY <2>3, <2>4
<1>5. ASSUME NEW w \in Workers, EvictList(w) PROVE ListInv' /\ NewListInv'
  <2>1. list \in [Workers -> SUBSET Ids] /\ listCause \in [Workers -> BOOLEAN]
    BY DEF ListsInv, HandInv, TInv, Types
  <2> QED BY <1>5, <1>s, <2>1 DEF EvictList
<1>6. ASSUME NEW w \in Workers, NEW id \in Ids, Evict(w, id) PROVE ListInv' /\ NewListInv'
  BY <1>6, <1>s DEF Evict
<1>7. CASE UNCHANGED vars
  BY <1>7, <1>s DEF vars
<1> QED
  BY <1>1, <1>2, <1>3, <1>4, <1>5, <1>6, <1>7 DEF Next

-----------------------------------------------------------------------------
LEMMA InitSync == Init => EntriesInv /\ ListsInv
<1> SUFFICES ASSUME Init PROVE EntriesInv /\ ListsInv
  OBVIOUS
<1>1. \A t \in Tasks : task[t] = NoTask
  BY DEF Init
<1>2. NoTask.pc = "none" /\ NoTask.rows = {}
  BY DEF NoTask
<1>3. HandInv
  BY <1>1, <1>2, InitTypes DEF HandInv, Overlap, OwnRows, Running
<1>4. EntryInv /\ ListInv
  BY DEF Init, EntryInv, ListInv, InDb
<1>5. RowInv /\ NewListInv
  BY <1>1, <1>2 DEF RowInv, NewListInv
<1> QED BY <1>3, <1>4, <1>5 DEF EntriesInv, ListsInv

\* What is coming is under way.
LEMMA ComingUnderway ==
  ASSUME NEW w \in Workers, NEW id \in Ids, NEW stages, "none" \notin stages, Coming(w, id, stages)
  PROVE  Underway(w, id)
BY DEF Coming, Writing, Notified, Underway

\* Rows, entries, lists and the records of requests and tasks keep their types
\* (master.lua:156-206, worker.lua:42-63).
THEOREM MobTypeCorrect == Spec => []TypeOK
<1>1. TInv => TypeOK
  <2> SUFFICES ASSUME TInv PROVE TypeOK
    OBVIOUS
  <2>1. \A r \in Reqs : req[r] \in Requests
    BY DEF TInv, Types
  <2>2. \A t \in Tasks : task[t] \in Jobs
    BY DEF TInv, Types
  <2> QED BY <2>1, <2>2 DEF TInv, Types, TypeOK, Requests, Jobs, Lists
<1> QED BY <1>1, InitTypes, StepTypes, PTL DEF Spec

\* The entry of a DSP is wrong only while a change is under way or for a known cause,
\* whatever handlers overlap on the worker (master.lua:280-318, object.lua:124-163).
THEOREM EntriesRight == Spec => []EntryStaleHasCause
<1>1. Init => EntriesInv
  BY InitSync
<1>2. EntriesInv => EntryStaleHasCause
  <2> SUFFICES ASSUME EntriesInv, NEW w \in Workers, NEW id \in Ids, sd[w][id] # db[id],
                      id \notin cause[w]
               PROVE  Underway(w, id)
    BY DEF EntryStaleHasCause
  <2>1. CASE Coming(w, id, Unread)
    BY <2>1, ComingUnderway, Stages
  <2>2. ASSUME NEW t \in Tasks, t[2] = w, task[t].pc = "set", <<id, db[id]>> \in task[t].rows
        PROVE  Underway(w, id)
    <3>1. <<id, db[id]>>[1] \in TaskIds(t)
      BY <2>2 DEF EntriesInv, HandInv, OwnRows
    <3> QED BY <2>2, <3>1 DEF Underway
  <2> QED BY <2>1, <2>2 DEF EntriesInv, EntryInv
<1> QED BY <1>1, <1>2, StepEntries, PTL DEF Spec

\* The list of DSPs is wrong about one of them only while a change of it is under way or
\* for a known cause, although every handler writes all of it (worker.lua:42-49, 85-110).
THEOREM ListRight == Spec => []ListStaleHasCause
<1>1. Init => ListsInv
  BY InitSync
<1>2. ListsInv => ListStaleHasCause
  <2> SUFFICES ASSUME ListsInv, NEW w \in Workers, ~listCause[w], NEW id \in Ids,
                      (id \in list[w]) # (id \in InDb)
               PROVE  Underway(w, id)
    BY DEF ListStaleHasCause
  <2>1. CASE Coming(w, id, Unlisted)
    BY <2>1, ComingUnderway, Stages
  <2>2. ASSUME NEW t \in Tasks, t[2] = w, task[t].pc = "list", id \in TaskIds(t)
        PROVE  Underway(w, id)
    BY <2>2 DEF Underway
  <2> QED BY <2>1, <2>2 DEF ListsInv, ListInv
<1> QED BY <1>1, <1>2, StepLists, PTL DEF Spec

=============================================================================
