--------------------------- MODULE ObjectSync_proofs ---------------------------
(***************************************************************************)
(* The dicts of the sax workers differ from the database only while a      *)
(* change is under way or for a known cause, for any number of objects,    *)
(* keys, workers, requests and overlapping handlers, for objects filed     *)
(* under their id and for those filed under columns of their row.          *)
(***************************************************************************)
EXTENDS ObjectSync, TLAPS

Ops == {"update", "delete"}
IdLists == Lists \cup {<<>>}
KeyLists == Seq(AllKeys \cup {Absent})
Values == (Ids \X Writers) \cup {Absent}
Requests == [pc : {"idle", "check", "write", "done"}, op : Ops, ids : IdLists,
             keys : KeyLists, exist : Seq(BOOLEAN), next : Nat \ {0}]
Jobs == [pc : {"none", "sent", "read", "set"}, op : Ops, ids : IdLists, keys : KeyLists,
         kinds : Seq(AllKinds), rows : SUBSET (AllKeys \X Values), met : SUBSET Entries]

\* Every variable has its type, the records too.
Types ==
  /\ table \in Tables
  /\ db \in [Ids -> [by : Writers, key : AllKeys] \cup {Absent}]
  /\ sd \in [Workers -> [AllKinds -> [AllKeys -> Values]]]
  /\ req \in [Reqs -> Requests]
  /\ task \in [Tasks -> Jobs]
  /\ cause \in [Workers -> SUBSET Entries]
  /\ clash \subseteq AllKeys

\* A request at work has its list, a place in it, and the keys it needs so far.
PlacedAt(q) ==
  /\ q.pc \in {"check", "write"} => q.ids \in Lists
  /\ q.pc \in {"check", "write"} /\ q.op = "update" =>
       /\ Len(q.keys) = Len(q.ids)
       /\ \A i \in 1 .. Len(q.keys) : q.keys[i] \in KeysOf(q.ids[i])
  /\ q.pc = "check" => q.next <= Len(q.ids)
  /\ q.pc = "write" => q.next <= Len(q.ids) + 1 /\ q.next <= Len(q.keys) + 1
Placed == \A r \in Reqs : PlacedAt(req[r])

\* Nobody is told of a request that is not done; a handler loads all the kinds of
\* the table, or the virtual object is left; a boot is no delete.
ToldAt(t, j) ==
  /\ t[1] # Boot => (req[t[1]].pc # "done" => j.pc = "none")
  /\ t[1] = Boot => j.ids = <<>> /\ j.op = "update"
  /\ j.pc \in {"read", "set"} =>
       j.kinds = Kinds \/ (table = "resource" /\ j.kinds = <<"publisher">>)
Told == \A t \in Tasks : ToldAt(t, task[t])

\* A row, an entry and a row in hand have a key that such an object can have.
\* Where two rows share a key, in the database or in one hand, the clash is known.
Filed(key, value) == value # Absent => key \in KeysOf(value[1])
DbFiled ==
  /\ \A id \in InDb : db[id].key \in KeysOf(id)
  /\ \A i, j \in InDb : i # j /\ db[i].key = db[j].key => db[i].key \in clash
SdFiled ==
  \A w \in Workers, k \in AllKinds, key \in AllKeys :
    Filed(key, sd[w][k][key]) /\ (sd[w][k][key] # Absent => k \in KindSet)
HandAt(j) ==
  /\ \A row \in j.rows : Filed(row[1], row[2])
  /\ j.pc = "set" => \A row1, row2 \in j.rows :
                       row1[1] = row2[1] => row1 = row2 \/ row1[1] \in clash
Hands == \A t \in Tasks : HandAt(task[t])

TInv == Types /\ Placed /\ Told /\ DbFiled /\ SdFiled /\ Hands

\* An operation on ids that puts right the entry under key: it deletes and no row
\* has the key, or it loads a row that has the key.
Fits(op, ids, key) == IF IdsAt(key) = {} THEN op = "delete"
                      ELSE op = "update" /\ ids \cap IdsAt(key) # {}

\* The kinds that a notification has not read yet.
Left(t) == IF task[t].pc = "sent" THEN KindSet
           ELSE IF task[t].pc = "read" THEN SeqToSet(task[t].kinds)
           ELSE IF task[t].pc = "set" THEN SeqToSet(task[t].kinds) \ {Head(task[t].kinds)}
           ELSE {}

\* A request that has written the row with this key is still to tell the workers.
Wrote(key) ==
  \E r \in Reqs :
    /\ req[r].pc = "write"
    /\ \E i \in 1 .. req[r].next - 1 : /\ req[r].keys[i] = key
                                       /\ Fits(req[r].op, {req[r].ids[i]}, key)

\* A notification of w is still to read the rows of kind k, for a key it knows.
Notified(w, k, key) ==
  \E t \in Tasks : /\ t[2] = w /\ k \in Left(t) /\ key \in TaskKeys(t)
                   /\ Fits(task[t].op, TaskIds(t), key)

\* A handler of w has in hand, and is to store, the right row for a key it knows.
InHand(w, k, key) ==
  \E t \in Tasks : /\ t[2] = w /\ task[t].pc = "set" /\ k = Head(task[t].kinds)
                   /\ key \in TaskKeys(t)
                   /\ \E row \in task[t].rows : row[1] = key /\ Right(key, row[2])

\* The entry may be wrong: it will be put right, or it has a cause.
Excused(w, k, key) == \/ Wrote(key) \/ Notified(w, k, key) \/ InHand(w, k, key)
                      \/ <<k, key>> \in cause[w] \/ key \in clash

EntryInv ==
  \A w \in Workers, k \in KindSet, key \in AllKeys :
    Right(key, sd[w][k][key]) \/ Excused(w, k, key)

\* A row in hand that is out of date will do no harm without an excuse.
RowInv ==
  \A t \in Tasks : task[t].pc = "set" =>
    \A row \in task[t].rows :
      \/ Right(row[1], row[2]) \/ IsDelete(t) \/ <<Head(task[t].kinds), row[1]>> \in task[t].met
      \/ Excused(t[2], Head(task[t].kinds), row[1])

SyncInv == TInv /\ EntryInv /\ RowInv

-----------------------------------------------------------------------------
(* Types *)

LEMMA ListTypes ==
  ASSUME NEW c \in IdLists
  PROVE  /\ c \in Seq(Ids) /\ Len(c) \in Nat /\ DOMAIN c = 1 .. Len(c)
         /\ SeqToSet(c) \subseteq Ids /\ \A i \in 1 .. Len(c) : c[i] \in Ids
<1>1. c \in Seq(Ids)
  <2>1. CASE c = <<>>
    BY <2>1
  <2>2. CASE c \in Lists
    BY <2>2, ListsAssumption
  <2> QED BY <2>1, <2>2 DEF IdLists
<1> QED BY <1>1 DEF SeqToSet

\* A list that is sent to the center has an element.
LEMMA ListNotEmpty ==
  ASSUME NEW c \in Lists
  PROVE  Len(c) >= 1
<1>1. c \in Seq(Ids) /\ c # <<>>
  BY ListsAssumption
<1> QED BY <1>1

LEMMA KeyListTypes ==
  ASSUME NEW c \in KeyLists
  PROVE  /\ c \in Seq(AllKeys \cup {Absent}) /\ Len(c) \in Nat /\ DOMAIN c = 1 .. Len(c)
         /\ SeqToSet(c) \subseteq AllKeys \cup {Absent}
         /\ \A i \in 1 .. Len(c) : c[i] \in AllKeys \cup {Absent}
BY DEF KeyLists, SeqToSet

LEMMA TaskTypes ==
  ASSUME TInv, NEW t \in Tasks
  PROVE  /\ TaskIds(t) \subseteq Ids /\ TaskKeys(t) \subseteq AllKeys
         /\ t[1] \in Reqs \cup {Boot} /\ t[2] \in Workers /\ t = <<t[1], t[2]>>
         /\ task[t] \in Jobs
<1>1. task[t] \in Jobs
  BY DEF TInv, Types
<1>2. task[t].ids \in IdLists /\ task[t].keys \in KeyLists
  BY <1>1 DEF Jobs
<1>3. TaskIds(t) \subseteq Ids
  BY <1>2, ListTypes DEF TaskIds
<1>4. TaskKeys(t) \subseteq AllKeys
  BY <1>2, KeyListTypes DEF TaskKeys
<1> QED BY <1>1, <1>3, <1>4 DEF Tasks

LEMMA KindFacts ==
  ASSUME table \in Tables
  PROVE  /\ KindSet \subseteq AllKinds /\ Kinds \in Seq(AllKinds) /\ SeqToSet(Kinds) = KindSet
         /\ table = "resource" => Kinds = <<"resource", "publisher">> /\ KindSet = {"resource", "publisher"}
         /\ table # "resource" => Kinds = <<table>> /\ KindSet = {table}
<1>1. table \in {"dsp", "resource", "creative"}
  BY TablesAssumption
<1>2. CASE table = "resource"
  <2>1. Kinds = <<"resource", "publisher">> /\ DOMAIN Kinds = 1 .. 2
    BY <1>2 DEF Kinds
  <2>2. KindSet = {"resource", "publisher"}
    BY <2>1 DEF KindSet
  <2>3. Kinds \in Seq(AllKinds)
    BY <2>1 DEF AllKinds
  <2> QED BY <1>2, <2>1, <2>2, <2>3 DEF KindSet, SeqToSet, AllKinds
<1>3. CASE table # "resource"
  <2>1. Kinds = <<table>> /\ DOMAIN Kinds = 1 .. 1
    BY <1>3 DEF Kinds
  <2>2. KindSet = {table}
    BY <2>1 DEF KindSet
  <2>3. Kinds \in Seq(AllKinds)
    BY <1>1, <2>1 DEF AllKinds
  <2> QED BY <1>1, <1>3, <2>1, <2>2, <2>3 DEF KindSet, SeqToSet, AllKinds
<1> QED BY <1>2, <1>3

\* What is left when a handler goes on to its next kind.
LEMMA RunningKinds ==
  ASSUME TInv, NEW t \in Tasks, Running(t)
  PROVE  /\ task[t].kinds \in Seq(AllKinds) /\ Head(task[t].kinds) \in KindSet
         /\ Head(task[t].kinds) \in SeqToSet(task[t].kinds)
         /\ Len(task[t].kinds) = 1 => SeqToSet(task[t].kinds) \ {Head(task[t].kinds)} = {}
         /\ Len(task[t].kinds) # 1 =>
              /\ table = "resource" /\ Tail(task[t].kinds) = <<"publisher">>
              /\ SeqToSet(task[t].kinds) \ {Head(task[t].kinds)} = SeqToSet(Tail(task[t].kinds))
<1> DEFINE ks == task[t].kinds
<1>1. table \in Tables
  BY DEF TInv, Types
<1>2. ks = Kinds \/ (table = "resource" /\ ks = <<"publisher">>)
  BY DEF TInv, Told, ToldAt, Running
<1> HIDE DEF ks
<1>3. CASE table = "resource" /\ ks = <<"resource", "publisher">>
  <2>1. Len(ks) = 2 /\ Head(ks) = "resource" /\ Tail(ks) = <<"publisher">> /\ DOMAIN ks = 1 .. 2
    BY <1>3
  <2>2. SeqToSet(ks) = {"resource", "publisher"}
    BY <1>3, <2>1 DEF SeqToSet
  <2>3. SeqToSet(Tail(ks)) = {"publisher"}
    <3> DEFINE p == <<"publisher">>
    <3>1. DOMAIN p = 1 .. 1 /\ p[1] = "publisher"
      OBVIOUS
    <3> HIDE DEF p
    <3>2. SeqToSet(p) = {"publisher"}
      BY <3>1 DEF SeqToSet
    <3> QED BY <2>1, <3>2 DEF p
  <2> QED BY <1>1, <1>3, <2>1, <2>2, <2>3, KindFacts DEF ks
<1>4. CASE \E k \in KindSet : ks = <<k>>
  <2>1. PICK k \in KindSet : ks = <<k>>
    BY <1>4
  <2>2. Len(ks) = 1 /\ Head(ks) = k /\ DOMAIN ks = 1 .. 1 /\ ks[1] = k
    BY <2>1
  <2>3. SeqToSet(ks) = {k}
    BY <2>2 DEF SeqToSet
  <2>4. ks \in Seq(AllKinds)
    BY <1>1, <2>1, KindFacts
  <2> QED BY <2>2, <2>3, <2>4 DEF ks
<1> QED BY <1>1, <1>2, <1>3, <1>4, KindFacts

LEMMA BlankTypes ==
  /\ NoReq \in Requests /\ NoTask \in Jobs /\ Done \in Requests
  /\ PlacedAt(NoReq) /\ PlacedAt(Done) /\ HandAt(NoTask)
  /\ Done.pc = "done" /\ NoTask.pc = "none" /\ NoTask.ids = <<>> /\ NoTask.op = "update"
  /\ NoTask.rows = {}
<1>1. /\ <<>> \in Seq(BOOLEAN) /\ <<>> \in IdLists /\ <<>> \in KeyLists /\ <<>> \in Seq(AllKinds)
      /\ 1 \in Nat \ {0}
  BY DEF IdLists, KeyLists
<1>2. NoReq \in Requests /\ NoReq.pc = "idle"
  BY <1>1 DEF NoReq, Requests, Ops
<1>3. /\ NoTask \in Jobs /\ NoTask.pc = "none" /\ NoTask.ids = <<>> /\ NoTask.op = "update"
      /\ NoTask.rows = {}
  BY <1>1 DEF NoTask, Jobs, Ops
<1>4. Done \in Requests /\ Done.pc = "done"
  BY <1>2 DEF Done, Requests
<1> QED BY <1>2, <1>3, <1>4 DEF PlacedAt, HandAt

\* The table of a behaviour never changes, and all that depends on it alone.
LEMMA SameTable ==
  ASSUME table' = table
  PROVE  /\ Kinds' = Kinds /\ KindSet' = KindSet /\ \A id : KeysOf(id)' = KeysOf(id)
         /\ \A q : PlacedAt(q)' <=> PlacedAt(q)
         /\ \A key, v : Filed(key, v)' <=> Filed(key, v)
<1>1. Kinds' = Kinds /\ \A id : KeysOf(id)' = KeysOf(id)
  BY DEF Kinds, KeysOf
<1>2. KindSet' = KindSet
  BY <1>1 DEF KindSet
<1>3. \A q : PlacedAt(q)' <=> PlacedAt(q)
  BY <1>1 DEF PlacedAt
<1>4. \A key, v : Filed(key, v)' <=> Filed(key, v)
  BY <1>1 DEF Filed
<1> QED BY <1>1, <1>2, <1>3, <1>4

\* One request changes, and nobody is told.
LEMMA OneRequest ==
  ASSUME TInv, NEW r \in Reqs, NEW q \in Requests,
         req' = [req EXCEPT ![r] = q], task' = task, table' = table,
         req[r].pc # "done", PlacedAt(q)
  PROVE  req' \in [Reqs -> Requests] /\ Placed' /\ Told'
<1>1. req' \in [Reqs -> Requests] /\ \A c \in Reqs : req'[c] = IF c = r THEN q ELSE req[c]
  BY DEF TInv, Types
<1>2. Placed'
  <2> SUFFICES ASSUME NEW c \in Reqs PROVE PlacedAt(req'[c])
    BY SameTable DEF Placed, PlacedAt
  <2> QED BY <1>1 DEF TInv, Placed
<1>3. Told'
  <2> SUFFICES ASSUME NEW t \in Tasks PROVE ToldAt(t, task[t])'
    BY DEF Told
  <2>1. t[1] # Boot => t[1] \in Reqs
    BY TaskTypes
  <2>2. ToldAt(t, task[t])
    BY DEF TInv, Told
  <2> QED BY <1>1, <2>1, <2>2, SameTable DEF ToldAt
<1> QED BY <1>1, <1>2, <1>3

\* One task changes.
LEMMA OneTask ==
  ASSUME TInv, NEW t \in Tasks, NEW j \in Jobs,
         task' = [task EXCEPT ![t] = j], UNCHANGED <<table, req, clash>>,
         ToldAt(t, j), HandAt(j)
  PROVE  task' \in [Tasks -> Jobs] /\ Placed' /\ Told' /\ Hands'
<1>1. task' \in [Tasks -> Jobs] /\ \A u \in Tasks : task'[u] = IF u = t THEN j ELSE task[u]
  BY DEF TInv, Types
<1>2. Placed'
  BY SameTable DEF TInv, Placed, PlacedAt
<1>3. Told'
  <2> SUFFICES ASSUME NEW u \in Tasks PROVE ToldAt(u, task[u])'
    BY DEF Told
  <2>1. ToldAt(u, task'[u])
    BY <1>1 DEF TInv, Told
  <2> QED BY <2>1, SameTable DEF ToldAt
<1>4. Hands'
  <2> SUFFICES ASSUME NEW u \in Tasks PROVE HandAt(task[u])'
    BY DEF Hands
  <2>1. HandAt(task'[u])
    BY <1>1 DEF TInv, Hands
  <2> QED BY <2>1, SameTable DEF HandAt, Filed
<1> QED BY <1>1, <1>2, <1>3, <1>4

\* What is not touched stays well filed.
LEMMA KeepDb == TInv /\ UNCHANGED <<table, db, clash>> => DbFiled'
BY SameTable DEF TInv, DbFiled, InDb

LEMMA KeepSd == TInv /\ UNCHANGED <<table, sd>> => SdFiled'
BY SameTable DEF TInv, SdFiled, Filed

LEMMA KeepHands == TInv /\ UNCHANGED <<table, task>> /\ clash \subseteq clash' => Hands'
<1> SUFFICES ASSUME TInv, UNCHANGED <<table, task>>, clash \subseteq clash', NEW t \in Tasks
             PROVE  HandAt(task[t])'
  BY DEF Hands
<1>1. HandAt(task[t])
  BY DEF TInv, Hands
<1> QED BY <1>1, SameTable DEF HandAt, Filed

LEMMA BlameTypes ==
  ASSUME TInv, NEW keys \in SUBSET AllKeys
  PROVE  /\ BlameAll(keys) => /\ cause' \in [Workers -> SUBSET Entries]
                              /\ \A w \in Workers : cause'[w] = cause[w] \cup (KindSet \X keys)
         /\ \A v \in Workers : Blame(v, keys) =>
              /\ cause' \in [Workers -> SUBSET Entries]
              /\ cause[v] \cup (KindSet \X keys) = cause'[v]
              /\ \A w \in Workers : cause[w] \subseteq cause'[w]
<1>1. cause \in [Workers -> SUBSET Entries] /\ KindSet \subseteq AllKinds
  BY KindFacts DEF TInv, Types
<1>2. KindSet \X keys \subseteq Entries
  BY <1>1 DEF Entries
<1> DEFINE new == KindSet \X keys
<1> HIDE DEF new
<1>3. \A w \in Workers : cause[w] \cup new \in SUBSET Entries
  BY <1>1, <1>2 DEF new
<1>4. ASSUME BlameAll(keys)
      PROVE  /\ cause' \in [Workers -> SUBSET Entries]
             /\ \A w \in Workers : cause'[w] = cause[w] \cup new
  <2>1. cause' = [w \in Workers |-> cause[w] \cup new]
    BY <1>4 DEF BlameAll, new
  <2> QED BY <1>3, <2>1
<1>5. ASSUME NEW v \in Workers, Blame(v, keys)
      PROVE  /\ cause' \in [Workers -> SUBSET Entries]
             /\ cause[v] \cup new = cause'[v]
             /\ \A w \in Workers : cause[w] \subseteq cause'[w]
  <2>1. cause' = [cause EXCEPT ![v] = cause[v] \cup new]
    BY <1>5 DEF Blame, new
  <2> QED BY <1>1, <1>3, <2>1
<1> QED BY <1>4, <1>5 DEF new

LEMMA InitTypes == Init => TInv
<1> SUFFICES ASSUME Init PROVE TInv
  OBVIOUS
<1>0. table \in Tables /\ KindSet \subseteq AllKinds
  BY KindFacts DEF Init
<1>1. \A key \in AllKeys : IdsAt(key) # {} => (CHOOSE id \in IdsAt(key) : TRUE) \in IdsAt(key)
  OBVIOUS
<1>2. \A w \in Workers, k \in AllKinds, key \in AllKeys :
        \/ sd[w][k][key] = Absent
        \/ k \in KindSet /\ \E id \in IdsAt(key) : sd[w][k][key] = <<id, Seed>>
  BY <1>1 DEF Init
<1>3. \A key : IdsAt(key) \subseteq Ids /\ \A id \in IdsAt(key) : id \in InDb /\ db[id].key = key
  BY DEF IdsAt, InDb
<1>4. sd \in [Workers -> [AllKinds -> [AllKeys -> Values]]]
  <2> DEFINE entry(k, key) == IF k \in KindSet /\ IdsAt(key) # {} THEN <<CHOOSE id \in IdsAt(key) : TRUE, Seed>>
                              ELSE Absent
  <2>1. \A k \in AllKinds, key \in AllKeys : entry(k, key) \in Values
    BY <1>1, <1>3 DEF Values, Writers
  <2>2. sd = [w \in Workers |-> [k \in AllKinds |-> [key \in AllKeys |-> entry(k, key)]]]
    BY DEF Init
  <2> HIDE DEF entry
  <2> QED BY <2>1, <2>2
<1>5. db \in [Ids -> [by : Writers, key : AllKeys] \cup {Absent}]
  BY DEF Init, Writers
<1>6. Types
  BY <1>0, <1>4, <1>5, BlankTypes DEF Init, Types
<1>7. Placed /\ Told /\ Hands
  BY BlankTypes DEF Init, Placed, Told, ToldAt, Hands
<1>8. DbFiled
  <2>1. \A id \in InDb : db[id].key \in KeysOf(id) /\ IdsAt(db[id].key) = {id}
    BY DEF Init
  <2> QED BY <2>1 DEF DbFiled, IdsAt
<1>9. SdFiled
  BY <1>2, <1>3, <1>8 DEF SdFiled, Filed, DbFiled
<1> QED BY <1>6, <1>7, <1>8, <1>9 DEF TInv

LEMMA RequestTypes ==
  ASSUME TInv, NEW r \in Reqs
  PROVE  /\ req[r] \in Requests /\ PlacedAt(req[r])
         /\ req[r].op \in Ops /\ req[r].next \in Nat \ {0} /\ req[r].exist \in Seq(BOOLEAN)
         /\ req[r].ids \in IdLists /\ Len(req[r].ids) \in Nat
         /\ \A i \in 1 .. Len(req[r].ids) : req[r].ids[i] \in Ids
         /\ req[r].keys \in KeyLists /\ Len(req[r].keys) \in Nat
         /\ DOMAIN req[r].keys = 1 .. Len(req[r].keys)
         /\ \A i \in 1 .. Len(req[r].keys) : req[r].keys[i] \in AllKeys \cup {Absent}
         /\ Touched(r) \subseteq AllKeys
<1>1. req[r] \in Requests /\ PlacedAt(req[r])
  BY DEF TInv, Types, Placed
<1>2. /\ req[r].op \in Ops /\ req[r].next \in Nat \ {0} /\ req[r].exist \in Seq(BOOLEAN)
      /\ req[r].ids \in IdLists /\ req[r].keys \in KeyLists
  BY <1>1 DEF Requests
<1>3. Len(req[r].ids) \in Nat /\ \A i \in 1 .. Len(req[r].ids) : req[r].ids[i] \in Ids
  BY <1>2, ListTypes
<1>4. /\ Len(req[r].keys) \in Nat /\ DOMAIN req[r].keys = 1 .. Len(req[r].keys)
      /\ \A i \in 1 .. Len(req[r].keys) : req[r].keys[i] \in AllKeys \cup {Absent}
  BY <1>2, KeyListTypes
<1>5. Touched(r) \subseteq AllKeys
  BY <1>4 DEF Touched
<1> QED BY <1>1, <1>2, <1>3, <1>4, <1>5

LEMMA WritingTypes ==
  ASSUME TInv, NEW r \in Reqs, Writing(r)
  PROVE  /\ req[r].pc = "write" /\ req[r].ids \in Lists
         /\ req[r].next \in 1 .. Len(req[r].ids) /\ ThisId(r) \in Ids
         /\ KeyKnown(r) => /\ req[r].next \in 1 .. Len(req[r].keys)
                           /\ req[r].keys[req[r].next] \in AllKeys \cup {Absent}
         /\ Orphaned(r) \subseteq AllKeys
<1>1. /\ req[r].next \in Nat \ {0} /\ Len(req[r].ids) \in Nat /\ Len(req[r].keys) \in Nat
      /\ \A i \in 1 .. Len(req[r].ids) : req[r].ids[i] \in Ids
      /\ \A i \in 1 .. Len(req[r].keys) : req[r].keys[i] \in AllKeys \cup {Absent}
      /\ PlacedAt(req[r])
  BY RequestTypes
<1>2. req[r].pc = "write" /\ req[r].next \in 1 .. Len(req[r].ids) /\ ThisId(r) \in Ids
  BY <1>1 DEF Writing, ThisId
<1>3. req[r].ids \in Lists
  BY <1>1, <1>2 DEF PlacedAt
<1>4. KeyKnown(r) => req[r].next \in 1 .. Len(req[r].keys)
  BY <1>1 DEF KeyKnown
<1>5. Orphaned(r) \subseteq AllKeys
  <2>1. \A id \in InDb : db[id].key \in AllKeys
    BY DEF TInv, Types, InDb
  <2> QED BY <2>1 DEF Orphaned
<1> QED BY <1>1, <1>2, <1>3, <1>4, <1>5

LEMMA RowAfterCases ==
  ASSUME TInv, NEW r \in Reqs, Writing(r), KeyKnown(r)
  PROVE  \/ RowAfter(r) = Absent /\ req[r].op = "delete"
         \/ RowAfter(r) = Absent /\ ThisId(r) \notin InDb
         \/ /\ req[r].op = "update" /\ RowAfter(r) = [by |-> r, key |-> req[r].keys[req[r].next]]
            /\ req[r].keys[req[r].next] \in KeysOf(ThisId(r))
            /\ RowAfter(r) \in [by : Writers, key : AllKeys] /\ RowAfter(r) # Absent
<1> DEFINE q == req[r]
<1>1. CASE q.op = "delete" \/ (q.exist[q.next] /\ ThisId(r) \notin InDb)
  BY <1>1 DEF RowAfter
<1>2. CASE ~(q.op = "delete" \/ (q.exist[q.next] /\ ThisId(r) \notin InDb))
  <2>1. RowAfter(r) = [by |-> r, key |-> q.keys[q.next]]
    BY <1>2 DEF RowAfter
  <2>2. q.op = "update"
    BY <1>2, RequestTypes DEF Ops
  <2>3. q.keys[q.next] \in KeysOf(ThisId(r))
    BY <2>2, WritingTypes, RequestTypes DEF PlacedAt, ThisId
  <2>4. KeysOf(ThisId(r)) \subseteq AllKeys
    BY WritingTypes DEF KeysOf, AllKeys
  <2>5. RowAfter(r) \in [by : Writers, key : AllKeys]
    BY <2>1, <2>3, <2>4 DEF Writers
  <2>6. RowAfter(r) # Absent
    BY <2>5, AbsentAssumption DEF Writers, AllKeys
  <2> QED BY <2>1, <2>2, <2>3, <2>5, <2>6
<1> QED BY <1>1, <1>2

\* A statement leaves the rows well filed, and clashing keys are noted.
LEMMA WriteTypes ==
  ASSUME TInv, NEW r \in Reqs, Writing(r), KeyKnown(r), NoteClash, table' = table,
         \/ db' = db
         \/ db' = [db EXCEPT ![ThisId(r)] = RowAfter(r)]
  PROVE  /\ db' \in [Ids -> [by : Writers, key : AllKeys] \cup {Absent}]
         /\ clash' \subseteq AllKeys /\ clash \subseteq clash' /\ DbFiled'
<1>1. db \in [Ids -> [by : Writers, key : AllKeys] \cup {Absent}] /\ clash \subseteq AllKeys
  BY DEF TInv, Types
<1>2. ThisId(r) \in Ids
  BY WritingTypes
<1>3. db' \in [Ids -> [by : Writers, key : AllKeys] \cup {Absent}]
  BY <1>1, <1>2, RowAfterCases
<1>4. clash' \subseteq AllKeys /\ clash \subseteq clash'
  BY <1>1 DEF NoteClash, AllKeys
<1>5. \A id \in Ids : db'[id] # Absent => db'[id].key \in KeysOf(id)
  <2>1. \A id \in Ids : db[id] # Absent => db[id].key \in KeysOf(id)
    BY DEF TInv, DbFiled, InDb
  <2>2. CASE db' = db
    BY <2>1, <2>2
  <2>3. CASE db' = [db EXCEPT ![ThisId(r)] = RowAfter(r)]
    <3>1. \A id \in Ids : db'[id] = IF id = ThisId(r) THEN RowAfter(r) ELSE db[id]
      BY <1>1, <2>3
    <3>2. RowAfter(r) # Absent => RowAfter(r).key \in KeysOf(ThisId(r))
      BY RowAfterCases
    <3> QED BY <2>1, <3>1, <3>2
  <2> QED BY <2>2, <2>3
<1>6. ASSUME NEW i \in Ids, NEW j \in Ids, db'[i] # Absent, db'[j] # Absent,
             i # j, db'[i].key = db'[j].key
      PROVE  db'[i].key \in clash'
  <2>1. db'[i].key \in KeysOf(i) /\ db'[i].key \in KeysOf(j)
    BY <1>5, <1>6
  <2>2. db'[i].key \in Keys
    BY <1>6, <2>1 DEF KeysOf
  <2> QED BY <1>6, <2>2 DEF NoteClash
<1>7. DbFiled'
  BY <1>5, <1>6, SameTable DEF DbFiled, InDb
<1> QED BY <1>3, <1>4, <1>7

LEMMA CenterTypes ==
  ASSUME TInv, NEW r \in Reqs, Begin(r) \/ Center(r)
  PROVE  TInv'
<1> DEFINE q == req[r]
<1>0. /\ q \in Requests /\ PlacedAt(q)
      /\ q.op \in Ops /\ q.next \in Nat \ {0} /\ q.exist \in Seq(BOOLEAN)
      /\ q.ids \in IdLists /\ Len(q.ids) \in Nat
      /\ \A i \in 1 .. Len(q.ids) : q.ids[i] \in Ids
      /\ q.keys \in KeyLists /\ Len(q.keys) \in Nat
      /\ DOMAIN q.keys = 1 .. Len(q.keys)
      /\ \A i \in 1 .. Len(q.keys) : q.keys[i] \in AllKeys \cup {Absent}
      /\ Touched(r) \subseteq AllKeys
  BY RequestTypes
<1>a. ASSUME UNCHANGED <<table, db, sd, task, clash>>, cause' \in [Workers -> SUBSET Entries],
             req' \in [Reqs -> Requests] /\ Placed' /\ Told'
      PROVE  TInv'
  BY <1>a, KeepDb, KeepSd, KeepHands DEF TInv, Types
<1>b. ASSUME req' = [req EXCEPT ![r] = Done], UNCHANGED <<table, task>>, q.pc # "done"
      PROVE  req' \in [Reqs -> Requests] /\ Placed' /\ Told'
  BY <1>b, OneRequest, BlankTypes
<1>c. cause \in [Workers -> SUBSET Entries]
  BY DEF TInv, Types
<1>1. CASE Begin(r)
  <2>1. PICK op \in Ops, c \in Lists :
          \E keys \in IF op = "delete" THEN {<<>>}
                   ELSE {k \in [DOMAIN c -> AllKeys] : \A i \in DOMAIN c : k[i] \in KeysOf(c[i])} :
             req' = [req EXCEPT ![r] = [NoReq EXCEPT !.pc = "check", !.op = op, !.ids = c, !.keys = keys]]
    BY <1>1 DEF Begin, Ops
  <2>2. PICK keys \in IF op = "delete" THEN {<<>>}
                   ELSE {k \in [DOMAIN c -> AllKeys] : \A i \in DOMAIN c : k[i] \in KeysOf(c[i])} :
             req' = [req EXCEPT ![r] = [NoReq EXCEPT !.pc = "check", !.op = op, !.ids = c, !.keys = keys]]
    BY <2>1
  <2>3. c \in IdLists /\ c \in Seq(Ids) /\ Len(c) \in Nat /\ DOMAIN c = 1 .. Len(c) /\ Len(c) >= 1
    BY ListTypes, ListNotEmpty DEF IdLists
  <2>4. /\ keys \in KeyLists
        /\ op = "update" => Len(keys) = Len(c) /\ \A i \in 1 .. Len(keys) : keys[i] \in KeysOf(c[i])
    <3>1. CASE op = "delete"
      BY <2>2, <3>1 DEF KeyLists
    <3>2. CASE op # "delete"
      <4>1. keys \in [1 .. Len(c) -> AllKeys] /\ \A i \in 1 .. Len(c) : keys[i] \in KeysOf(c[i])
        BY <2>2, <2>3, <3>2
      <4>2. keys \in Seq(AllKeys \cup {Absent}) /\ Len(keys) = Len(c)
        BY <2>3, <4>1
      <4> QED BY <4>1, <4>2 DEF KeyLists
    <3> QED BY <3>1, <3>2
  <2> DEFINE n == [NoReq EXCEPT !.pc = "check", !.op = op, !.ids = c, !.keys = keys]
  <2>5. n \in Requests /\ n.pc = "check" /\ n.op = op /\ n.ids = c /\ n.keys = keys /\ n.next = 1
    BY <2>3, <2>4, BlankTypes DEF NoReq, Requests
  <2>6. req' = [req EXCEPT ![r] = n]
    BY <2>2
  <2> HIDE DEF n
  <2>7. PlacedAt(n)
    BY <2>3, <2>4, <2>5 DEF PlacedAt
  <2>8. req' \in [Reqs -> Requests] /\ Placed' /\ Told'
    BY <1>1, <2>5, <2>6, <2>7, OneRequest DEF Begin
  <2> QED BY <1>1, <1>a, <1>c, <2>8 DEF Begin
<1>2. CASE Check(r)
  <2> DEFINE flags == Append(q.exist, q.ids[q.next] \in InDb)
             refused == q.op = "delete" /\ \E i \in DOMAIN flags : ~flags[i]
             more == [q EXCEPT !.exist = flags, !.next = q.next + 1]
             all == [q EXCEPT !.pc = "write", !.exist = flags, !.next = 1]
  <2>1. flags \in Seq(BOOLEAN)
    BY <1>0
  <2>2. /\ q.pc = "check" /\ UNCHANGED <<table, db, sd, task, cause, clash>>
        /\ req' = [req EXCEPT ![r] = IF q.next < Len(q.ids) THEN more
                                     ELSE IF refused THEN Done ELSE all]
    BY <1>2 DEF Check
  <2> HIDE DEF flags, refused
  <2>3. q.ids \in Lists
    BY <1>0, <2>2 DEF PlacedAt
  <2>4. CASE q.next < Len(q.ids)
    <3>1. /\ more \in Requests /\ more.pc = "check" /\ more.op = q.op /\ more.ids = q.ids
          /\ more.keys = q.keys /\ more.next = q.next + 1
      <4>1. q.next + 1 \in Nat \ {0}
        BY <1>0
      <4> QED BY <1>0, <2>1, <2>2, <4>1 DEF Requests
    <3>2. req' = [req EXCEPT ![r] = more]
      BY <2>2, <2>4
    <3>3. more.next <= Len(more.ids)
      BY <1>0, <2>4, <3>1
    <3> HIDE DEF more
    <3>4. PlacedAt(more)
      BY <1>0, <2>2, <2>3, <3>1, <3>3 DEF PlacedAt
    <3>5. req' \in [Reqs -> Requests] /\ Placed' /\ Told'
      BY <2>2, <3>1, <3>2, <3>4, OneRequest
    <3> QED BY <1>a, <1>c, <2>2, <3>5
  <2>5. CASE ~(q.next < Len(q.ids)) /\ refused
    BY <1>a, <1>b, <1>c, <2>2, <2>5
  <2>6. CASE ~(q.next < Len(q.ids)) /\ ~refused
    <3>1. /\ all \in Requests /\ all.pc = "write" /\ all.op = q.op /\ all.ids = q.ids
          /\ all.keys = q.keys /\ all.next = 1
      <4>1. 1 \in Nat \ {0} /\ "write" \in {"idle", "check", "write", "done"}
        OBVIOUS
      <4> HIDE DEF q
      <4> QED BY <1>0, <2>1, <4>1 DEF Requests
    <3>2. req' = [req EXCEPT ![r] = all]
      BY <2>2, <2>6
    <3>3. all.next <= Len(all.ids) + 1 /\ all.next <= Len(all.keys) + 1
      BY <1>0, <3>1
    <3> HIDE DEF all
    <3>4. PlacedAt(all)
      BY <1>0, <2>2, <2>3, <3>1, <3>3 DEF PlacedAt
    <3>5. req' \in [Reqs -> Requests] /\ Placed' /\ Told'
      BY <2>2, <3>1, <3>2, <3>4, OneRequest
    <3> QED BY <1>a, <1>c, <2>2, <3>5
  <2> QED BY <2>4, <2>5, <2>6
<1>3. CASE CheckFail(r)
  BY <1>3, <1>a, <1>b, <1>c DEF CheckFail
<1>4. CASE GetObjectId(r)
  <2> DEFINE key == IF ThisId(r) \in InDb THEN db[ThisId(r)].key
                    ELSE IF table = "creative" THEN Absent ELSE ThisId(r)
             n == [q EXCEPT !.keys = Append(q.keys, key)]
  <2>1. Writing(r) /\ ~KeyKnown(r) /\ UNCHANGED <<table, db, sd, task, cause, clash>>
    BY <1>4 DEF GetObjectId
  <2>2. key \in AllKeys \cup {Absent}
    <3>1. \A id \in InDb : db[id].key \in AllKeys
      BY DEF TInv, Types, InDb
    <3> QED BY <2>1, <3>1, WritingTypes DEF AllKeys
  <2>3. req' = [req EXCEPT ![r] = n]
    BY <1>4 DEF GetObjectId
  <2> HIDE DEF key
  <2>4. Append(q.keys, key) \in KeyLists /\ Len(Append(q.keys, key)) = Len(q.keys) + 1
    BY <1>0, <2>2 DEF KeyLists
  <2>5. /\ n \in Requests /\ n.pc = q.pc /\ n.op = q.op /\ n.ids = q.ids
        /\ n.keys = Append(q.keys, key) /\ n.next = q.next
    BY <1>0, <2>4 DEF Requests
  <2>6. /\ q.pc = "write" /\ q.ids \in Lists /\ q.next \in 1 .. Len(q.ids)
        /\ Len(q.keys) < q.next
    BY <1>0, <2>1, WritingTypes DEF KeyKnown
  <2>7. q.op # "update"
    BY <1>0, <2>6 DEF PlacedAt
  <2>8. n.next <= Len(n.ids) + 1 /\ n.next <= Len(n.keys) + 1
    BY <1>0, <2>4, <2>5, <2>6 DEF PlacedAt
  <2> HIDE DEF n
  <2>9. PlacedAt(n)
    BY <2>5, <2>6, <2>7, <2>8 DEF PlacedAt
  <2>10. req' \in [Reqs -> Requests] /\ Placed' /\ Told'
    BY <2>1, <2>3, <2>5, <2>6, <2>9, OneRequest
  <2> QED BY <1>a, <1>c, <2>1, <2>10
<1>d. ASSUME Writing(r), KeyKnown(r), NoteClash, UNCHANGED <<table, sd, task>>,
             \/ db' = db
             \/ db' = [db EXCEPT ![ThisId(r)] = RowAfter(r)],
             cause' \in [Workers -> SUBSET Entries],
             req' \in [Reqs -> Requests] /\ Placed' /\ Told'
      PROVE  TInv'
  <2>1. /\ db' \in [Ids -> [by : Writers, key : AllKeys] \cup {Absent}]
        /\ clash' \subseteq AllKeys /\ clash \subseteq clash' /\ DbFiled'
    BY <1>d, WriteTypes
  <2> QED BY <1>d, <2>1, KeepSd, KeepHands DEF TInv, Types
<1>5. CASE Write(r)
  <2> DEFINE n == [q EXCEPT !.next = q.next + 1]
  <2>1. /\ Writing(r) /\ KeyKnown(r) /\ NoteClash /\ UNCHANGED <<table, sd, task>>
        /\ db' = [db EXCEPT ![ThisId(r)] = RowAfter(r)] /\ BlameAll(Orphaned(r))
        /\ req' = [req EXCEPT ![r] = n]
    BY <1>5 DEF Write
  <2>2. /\ q.pc = "write" /\ q.ids \in Lists /\ q.next \in 1 .. Len(q.ids)
        /\ q.next \in 1 .. Len(q.keys) /\ Orphaned(r) \subseteq AllKeys
    BY <2>1, WritingTypes
  <2>3. /\ n \in Requests /\ n.pc = q.pc /\ n.op = q.op /\ n.ids = q.ids
        /\ n.keys = q.keys /\ n.next = q.next + 1
    <3>1. q.next + 1 \in Nat \ {0}
      BY <1>0
    <3> QED BY <1>0, <3>1 DEF Requests
  <2>4. n.next <= Len(n.ids) + 1 /\ n.next <= Len(n.keys) + 1
    BY <1>0, <2>2, <2>3
  <2> HIDE DEF n
  <2>5. PlacedAt(n)
    BY <1>0, <2>2, <2>3, <2>4 DEF PlacedAt
  <2>6. req' \in [Reqs -> Requests] /\ Placed' /\ Told'
    BY <2>1, <2>2, <2>3, <2>5, OneRequest
  <2>7. cause' \in [Workers -> SUBSET Entries]
    BY <2>1, <2>2, BlameTypes
  <2> QED BY <1>d, <2>1, <2>6, <2>7
<1>6. CASE WriteFail(r)
  <2>1. /\ Writing(r) /\ KeyKnown(r) /\ NoteClash /\ UNCHANGED <<table, sd, task>>
        /\ db' = db \/ db' = [db EXCEPT ![ThisId(r)] = RowAfter(r)]
        /\ BlameAll(Touched(r) \cup Orphaned(r)) /\ req' = [req EXCEPT ![r] = Done]
    BY <1>6 DEF WriteFail
  <2>2. q.pc = "write" /\ Touched(r) \cup Orphaned(r) \subseteq AllKeys
    BY <1>0, <2>1, WritingTypes
  <2>3. cause' \in [Workers -> SUBSET Entries]
    BY <2>1, <2>2, BlameTypes
  <2> QED BY <1>b, <1>d, <2>1, <2>2, <2>3
<1>7. CASE NotifySax(r)
  <2> DEFINE n == [NoTask EXCEPT !.pc = "sent", !.op = q.op, !.ids = q.ids, !.keys = q.keys]
  <2>1. /\ AllWritten(r) /\ req' = [req EXCEPT ![r] = Done]
        /\ UNCHANGED <<table, db, sd, cause, clash>>
        /\ task' = [t \in Tasks |-> IF t[1] = r /\ Touched(r) # {} THEN n ELSE task[t]]
    BY <1>7 DEF NotifySax
  <2>2. n \in Jobs /\ n.pc = "sent" /\ n.rows = {}
    BY <1>0, BlankTypes DEF Jobs, NoTask
  <2> HIDE DEF n
  <2>3. \A t \in Tasks : task'[t] = IF t[1] = r /\ Touched(r) # {} THEN n ELSE task[t]
    BY <2>1
  <2>4. \A c \in Reqs : req'[c] = IF c = r THEN Done ELSE req[c]
    BY <2>1 DEF TInv, Types
  <2>5. task' \in [Tasks -> Jobs] /\ req' \in [Reqs -> Requests]
    BY <2>1, <2>2, BlankTypes DEF TInv, Types
  <2>6. Placed'
    BY <2>1, <2>4, BlankTypes, SameTable DEF TInv, Placed, PlacedAt
  <2>7. Told'
    <3> SUFFICES ASSUME NEW t \in Tasks PROVE ToldAt(t, task[t])'
      BY DEF Told
    <3>1. t[1] # Boot => t[1] \in Reqs
      BY TaskTypes
    <3>2. ToldAt(t, task[t])
      BY DEF TInv, Told
    <3>3. CASE t[1] = r /\ Touched(r) # {}
      <4>1. task'[t] = n /\ t[1] # Boot /\ req'[t[1]].pc = "done"
        BY <2>3, <2>4, <3>3, BlankTypes, DistinctAssumption
      <4> QED BY <2>2, <4>1 DEF ToldAt
    <3>4. CASE ~(t[1] = r /\ Touched(r) # {})
      <4>1. task'[t] = task[t] /\ (t[1] # Boot /\ req'[t[1]].pc # "done" => req[t[1]].pc # "done")
        BY <2>3, <2>4, <3>1, <3>4, BlankTypes
      <4> QED BY <2>1, <3>2, <4>1, SameTable DEF ToldAt
    <3> QED BY <3>3, <3>4
  <2>8. Hands'
    <3> SUFFICES ASSUME NEW t \in Tasks PROVE HandAt(task[t])'
      BY DEF Hands
    <3>1. HandAt(task'[t])
      BY <2>2, <2>3 DEF TInv, Hands, HandAt
    <3> QED BY <2>1, <3>1, SameTable DEF HandAt, Filed
  <2> QED BY <2>1, <2>5, <2>6, <2>7, <2>8, KeepDb, KeepSd DEF TInv, Types
<1>8. CASE NotifyFail(r)
  <2>1. /\ q.pc = "write" /\ UNCHANGED <<table, db, sd, task, clash>> /\ BlameAll(Touched(r))
        /\ req' = [req EXCEPT ![r] = Done]
    BY <1>8 DEF NotifyFail, AllWritten
  <2>2. cause' \in [Workers -> SUBSET Entries]
    BY <1>0, <2>1, BlameTypes
  <2> QED BY <1>a, <1>b, <2>1, <2>2
<1> QED BY <1>1, <1>2, <1>3, <1>4, <1>5, <1>6, <1>7, <1>8 DEF Center

\* The rows a handler reads are filed under their keys, and clash only where
\* the rows of the database do.
LEMMA RowsForTypes ==
  ASSUME TInv, NEW t \in Tasks
  PROVE  /\ RowsFor(t) \subseteq AllKeys \X Values
         /\ \A row \in RowsFor(t) : Filed(row[1], row[2])
         /\ \A row1, row2 \in RowsFor(t) : row1[1] = row2[1] => row1 = row2 \/ row1[1] \in clash
         /\ ~IsDelete(t) => /\ \A row \in RowsFor(t) : Right(row[1], row[2])
                            /\ \A id \in TaskIds(t) \cap InDb : <<db[id].key, <<id, db[id].by>>>> \in RowsFor(t)
         /\ IsDelete(t) => \A key \in TaskKeys(t) : <<key, Absent>> \in RowsFor(t)
<1>1. TaskIds(t) \subseteq Ids /\ TaskKeys(t) \subseteq AllKeys
  BY TaskTypes
<1>2. CASE IsDelete(t)
  <2>1. RowsFor(t) = {<<key, Absent>> : key \in TaskKeys(t)}
    BY <1>2 DEF RowsFor
  <2> QED BY <1>1, <1>2, <2>1 DEF Values, Filed
<1>3. CASE ~IsDelete(t)
  <2>1. RowsFor(t) = {<<db[id].key, <<id, db[id].by>>>> : id \in TaskIds(t) \cap InDb}
    BY <1>3 DEF RowsFor
  <2>2. \A id \in InDb : id \in Ids /\ db[id].key \in AllKeys /\ db[id].by \in Writers
    BY DEF TInv, Types, InDb
  <2>3. RowsFor(t) \subseteq AllKeys \X Values
    BY <2>1, <2>2 DEF Values
  <2>4. ASSUME NEW row \in RowsFor(t)
        PROVE  \E id \in InDb : row = <<db[id].key, <<id, db[id].by>>>>
    BY <2>1
  <2>5. \A row \in RowsFor(t) : Filed(row[1], row[2])
    BY <2>4 DEF Filed, TInv, DbFiled
  <2>6. \A row \in RowsFor(t) : Right(row[1], row[2])
    BY <2>4 DEF Right, IdsAt
  <2>7. \A row1, row2 \in RowsFor(t) : row1[1] = row2[1] => row1 = row2 \/ row1[1] \in clash
    <3> SUFFICES ASSUME NEW row1 \in RowsFor(t), NEW row2 \in RowsFor(t), row1[1] = row2[1], row1 # row2
                 PROVE  row1[1] \in clash
      OBVIOUS
    <3>1. PICK i \in InDb : row1 = <<db[i].key, <<i, db[i].by>>>>
      BY <2>4
    <3>2. PICK j \in InDb : row2 = <<db[j].key, <<j, db[j].by>>>>
      BY <2>4
    <3> QED BY <3>1, <3>2 DEF TInv, DbFiled
  <2> QED BY <1>3, <2>1, <2>3, <2>5, <2>6, <2>7
<1> QED BY <1>2, <1>3

\* Storing a row takes it out of the handler's hand, and the other handlers of the
\* worker that have rows in hand take note.
LEMMA StoredEffect ==
  ASSUME TInv, NEW t \in Tasks, NEW row \in task[t].rows, task[t].pc = "set",
         task' = Stored(t, row)
  PROVE  /\ task' \in [Tasks -> Jobs]
         /\ \A u \in Tasks : /\ task'[u].pc = task[u].pc /\ task'[u].op = task[u].op
                             /\ task'[u].ids = task[u].ids /\ task'[u].keys = task[u].keys
                             /\ task'[u].kinds = task[u].kinds
                             /\ task'[u].rows = IF u = t THEN task[u].rows \ {row} ELSE task[u].rows
                             /\ task[u].met \subseteq task'[u].met
                             /\ u # t /\ u[2] = t[2] /\ task[u].pc = "set" =>
                                  <<Head(task[t].kinds), row[1]>> \in task'[u].met
<1> DEFINE e == <<Head(task[t].kinds), row[1]>>
<1>1. \A u \in Tasks : task[u] \in Jobs
  BY DEF TInv, Types
<1>2. e \in Entries
  <2>1. Head(task[t].kinds) \in KindSet /\ KindSet \subseteq AllKinds
    BY RunningKinds, KindFacts DEF Running, TInv, Types
  <2>2. row[1] \in AllKeys
    BY <1>1 DEF Jobs
  <2> QED BY <2>1, <2>2 DEF Entries
<1>3. task' = [u \in Tasks |->
                 IF u = t THEN [task[t] EXCEPT !.rows = task[t].rows \ {row}]
                 ELSE IF u[2] = t[2] /\ task[u].pc = "set" THEN [task[u] EXCEPT !.met = task[u].met \cup {e}]
                 ELSE task[u]]
  BY DEF Stored
<1> HIDE DEF e
<1>4. ASSUME NEW u \in Tasks
      PROVE  /\ task'[u] \in Jobs
             /\ task'[u].pc = task[u].pc /\ task'[u].op = task[u].op
             /\ task'[u].ids = task[u].ids /\ task'[u].keys = task[u].keys
             /\ task'[u].kinds = task[u].kinds
             /\ task'[u].rows = IF u = t THEN task[u].rows \ {row} ELSE task[u].rows
             /\ task[u].met \subseteq task'[u].met
             /\ u # t /\ u[2] = t[2] /\ task[u].pc = "set" => e \in task'[u].met
  <2>1. CASE u = t
    <3>1. task'[u] = [task[u] EXCEPT !.rows = task[u].rows \ {row}]
      BY <1>3, <2>1
    <3>2. task[u].rows \ {row} \in SUBSET (AllKeys \X Values)
      BY <1>1 DEF Jobs
    <3> QED BY <1>1, <2>1, <3>1, <3>2 DEF Jobs
  <2>2. CASE u # t /\ u[2] = t[2] /\ task[u].pc = "set"
    <3>1. task'[u] = [task[u] EXCEPT !.met = task[u].met \cup {e}]
      BY <1>3, <2>2
    <3>2. task[u].met \cup {e} \in SUBSET Entries
      BY <1>1, <1>2 DEF Jobs
    <3> QED BY <1>1, <2>2, <3>1, <3>2 DEF Jobs
  <2>3. CASE u # t /\ ~(u[2] = t[2] /\ task[u].pc = "set")
    BY <1>1, <1>3, <2>3
  <2> QED BY <2>1, <2>2, <2>3
<1> QED BY <1>3, <1>4 DEF e

LEMMA WorkerTypes ==
  ASSUME TInv, NEW t \in Tasks, Deliver(t) \/ Lose(t) \/ Handler(t)
  PROVE  TInv'
<1> DEFINE j == task[t]
<1>0. /\ j \in Jobs /\ ToldAt(t, j) /\ HandAt(j) /\ t[2] \in Workers
      /\ j.pc \in {"none", "sent", "read", "set"} /\ j.kinds \in Seq(AllKinds)
      /\ TaskKeys(t) \subseteq AllKeys /\ TaskIds(t) \subseteq Ids
  BY TaskTypes DEF TInv, Told, Hands, Jobs
<1>a. ASSUME UNCHANGED <<table, db, sd, req, clash>>, cause' \in [Workers -> SUBSET Entries],
             task' \in [Tasks -> Jobs] /\ Placed' /\ Told' /\ Hands'
      PROVE  TInv'
  BY <1>a, KeepDb, KeepSd DEF TInv, Types
<1>b. ASSUME task' = [task EXCEPT ![t] = NoTask], UNCHANGED <<table, req, clash>>
      PROVE  task' \in [Tasks -> Jobs] /\ Placed' /\ Told' /\ Hands'
  <2>1. ToldAt(t, NoTask)
    BY BlankTypes DEF ToldAt
  <2> QED BY <1>b, <2>1, OneTask, BlankTypes
<1>c. cause \in [Workers -> SUBSET Entries]
  BY DEF TInv, Types
<1>1. CASE Deliver(t)
  <2> DEFINE n == [j EXCEPT !.pc = "read", !.kinds = Kinds]
  <2>1. /\ j.pc = "sent" /\ task' = [task EXCEPT ![t] = n]
        /\ UNCHANGED <<table, db, sd, req, cause, clash>>
    BY <1>0, <1>1 DEF Deliver, Launch, TInv, Types
  <2>2. n \in Jobs /\ n.pc = "read" /\ n.kinds = Kinds /\ n.ids = j.ids /\ n.op = j.op /\ n.rows = j.rows
    BY <1>0, KindFacts DEF Jobs, TInv, Types
  <2> HIDE DEF n
  <2>3. ToldAt(t, n) /\ HandAt(n)
    BY <1>0, <2>1, <2>2 DEF ToldAt, HandAt
  <2>4. task' \in [Tasks -> Jobs] /\ Placed' /\ Told' /\ Hands'
    BY <2>1, <2>2, <2>3, OneTask
  <2> QED BY <1>a, <1>c, <2>1, <2>4
<1>2. CASE Lose(t)
  <2>1. cause' \in [Workers -> SUBSET Entries]
    BY <1>0, <1>2, BlameTypes DEF Lose
  <2> QED BY <1>2, <1>a, <1>b, <2>1 DEF Lose
<1>3. CASE ReadRows(t)
  <2> DEFINE n == [j EXCEPT !.pc = "set", !.rows = RowsFor(t), !.met = {}]
  <2>1. /\ j.pc = "read" /\ task' = [task EXCEPT ![t] = IF RowMissing(t) THEN NoTask ELSE n]
        /\ UNCHANGED <<table, db, sd, req, cause, clash>>
    BY <1>3 DEF ReadRows
  <2>2. CASE RowMissing(t)
    BY <1>a, <1>b, <1>c, <2>1, <2>2
  <2>3. CASE ~RowMissing(t)
    <3>1. /\ RowsFor(t) \subseteq AllKeys \X Values /\ {} \subseteq Entries
          /\ \A row \in RowsFor(t) : Filed(row[1], row[2])
          /\ \A row1, row2 \in RowsFor(t) : row1[1] = row2[1] => row1 = row2 \/ row1[1] \in clash
      BY RowsForTypes
    <3>2. /\ n \in Jobs /\ n.pc = "set" /\ n.kinds = j.kinds /\ n.ids = j.ids /\ n.op = j.op
          /\ n.rows = RowsFor(t)
      BY <1>0, <3>1 DEF Jobs
    <3>3. task' = [task EXCEPT ![t] = n]
      BY <2>1, <2>3
    <3> HIDE DEF n
    <3>4. ToldAt(t, n) /\ HandAt(n)
      BY <1>0, <2>1, <3>1, <3>2 DEF ToldAt, HandAt
    <3>5. task' \in [Tasks -> Jobs] /\ Placed' /\ Told' /\ Hands'
      BY <2>1, <3>2, <3>3, <3>4, OneTask
    <3> QED BY <1>a, <1>c, <2>1, <3>5
  <2> QED BY <2>2, <2>3
<1>4. CASE SetEntry(t)
  <2>1. PICK row \in j.rows :
          /\ sd' = [sd EXCEPT ![t[2]][Head(j.kinds)][row[1]] = row[2]]
          /\ task' = Stored(t, row)
          /\ cause' = [cause EXCEPT ![t[2]] =
                         IF Right(row[1], row[2]) THEN cause[t[2]] \ {<<Head(j.kinds), row[1]>>}
                         ELSE IF IsDelete(t) \/ <<Head(j.kinds), row[1]>> \in j.met
                           THEN cause[t[2]] \cup {<<Head(j.kinds), row[1]>>} ELSE cause[t[2]]]
    BY <1>4 DEF SetEntry
  <2>2. j.pc = "set" /\ UNCHANGED <<table, db, req, clash>>
    BY <1>4 DEF SetEntry
  <2>3. /\ Head(j.kinds) \in KindSet /\ Head(j.kinds) \in AllKinds
        /\ row[1] \in AllKeys /\ row[2] \in Values
    <3>1. Head(j.kinds) \in KindSet /\ KindSet \subseteq AllKinds
      BY <2>2, RunningKinds, KindFacts DEF Running, TInv, Types
    <3>2. row \in AllKeys \X Values
      BY <1>0 DEF Jobs
    <3> QED BY <3>1, <3>2
  <2>4. cause' \in [Workers -> SUBSET Entries]
    <3> DEFINE e == <<Head(j.kinds), row[1]>>
               new == IF Right(row[1], row[2]) THEN cause[t[2]] \ {e}
                      ELSE IF IsDelete(t) \/ e \in j.met THEN cause[t[2]] \cup {e} ELSE cause[t[2]]
    <3>1. e \in Entries
      BY <2>3 DEF Entries
    <3>2. cause[t[2]] \in SUBSET Entries
      BY <1>0, <1>c
    <3>3. cause' = [cause EXCEPT ![t[2]] = new]
      BY <2>1
    <3> HIDE DEF e
    <3>4. new \in SUBSET Entries
      BY <3>1, <3>2
    <3> HIDE DEF new
    <3> QED BY <1>c, <3>3, <3>4
  <2>5. sd \in [Workers -> [AllKinds -> [AllKeys -> Values]]]
    BY DEF TInv, Types
  <2>6. /\ sd' \in [Workers -> [AllKinds -> [AllKeys -> Values]]]
        /\ \A w \in Workers, k \in AllKinds, key \in AllKeys :
             sd'[w][k][key] = IF w = t[2] /\ k = Head(j.kinds) /\ key = row[1] THEN row[2]
                              ELSE sd[w][k][key]
    <3> HIDE DEF j
    <3> QED BY <1>0, <2>1, <2>3, <2>5
  <2>7. SdFiled'
    <3>1. Filed(row[1], row[2])
      BY <1>0 DEF HandAt
    <3>2. \A w \in Workers, k \in AllKinds, key \in AllKeys :
            Filed(key, sd'[w][k][key]) /\ (sd'[w][k][key] # Absent => k \in KindSet)
      BY <2>3, <2>6, <3>1 DEF TInv, SdFiled
    <3> QED BY <2>2, <3>2, SameTable DEF SdFiled, Filed
  <2>8. /\ task' \in [Tasks -> Jobs]
        /\ \A u \in Tasks : /\ task'[u].pc = task[u].pc /\ task'[u].op = task[u].op
                            /\ task'[u].ids = task[u].ids /\ task'[u].keys = task[u].keys
                            /\ task'[u].kinds = task[u].kinds
                            /\ task'[u].rows = IF u = t THEN task[u].rows \ {row} ELSE task[u].rows
                            /\ task[u].met \subseteq task'[u].met
                            /\ u # t /\ u[2] = t[2] /\ task[u].pc = "set" =>
                                  <<Head(task[t].kinds), row[1]>> \in task'[u].met
    BY <2>1, <2>2, StoredEffect
  <2>9. Told'
    <3> SUFFICES ASSUME NEW u \in Tasks PROVE ToldAt(u, task[u])'
      BY DEF Told
    <3>1. ToldAt(u, task[u])
      BY DEF TInv, Told
    <3> QED BY <2>2, <2>8, <3>1, SameTable DEF ToldAt
  <2>10. Hands'
    <3> SUFFICES ASSUME NEW u \in Tasks PROVE HandAt(task[u])'
      BY DEF Hands
    <3>1. HandAt(task[u])
      BY DEF TInv, Hands
    <3>2. task'[u].pc = task[u].pc /\ task'[u].rows \subseteq task[u].rows
      BY <2>8
    <3> QED BY <2>2, <3>1, <3>2, SameTable DEF HandAt, Filed
  <2>11. Placed'
    BY <2>2, SameTable DEF TInv, Placed, PlacedAt
  <2> QED BY <2>2, <2>4, <2>6, <2>7, <2>8, <2>9, <2>10, <2>11, KeepDb DEF TInv, Types
<1>5. CASE NextKind(t)
  <2> DEFINE n == [j EXCEPT !.pc = "read", !.kinds = Tail(j.kinds)]
  <2>1. /\ j.pc = "set" /\ task' = [task EXCEPT ![t] = IF Len(j.kinds) = 1 THEN NoTask ELSE n]
        /\ UNCHANGED <<table, db, sd, req, cause, clash>>
    BY <1>5 DEF NextKind
  <2>2. CASE Len(j.kinds) = 1
    BY <1>a, <1>b, <1>c, <2>1, <2>2
  <2>3. CASE Len(j.kinds) # 1
    <3>1. table = "resource" /\ Tail(j.kinds) = <<"publisher">>
      BY <2>1, <2>3, RunningKinds DEF Running
    <3>2. Tail(j.kinds) \in Seq(AllKinds)
      <4>1. <<"publisher">> \in Seq(AllKinds)
        BY DEF AllKinds
      <4> QED BY <3>1, <4>1
    <3>3. /\ n \in Jobs /\ n.pc = "read" /\ n.kinds = Tail(j.kinds) /\ n.ids = j.ids /\ n.op = j.op
          /\ n.rows = j.rows
      BY <1>0, <3>2 DEF Jobs
    <3>4. task' = [task EXCEPT ![t] = n]
      BY <2>1, <2>3
    <3> HIDE DEF n
    <3>5. ToldAt(t, n) /\ HandAt(n)
      BY <1>0, <2>1, <3>1, <3>3 DEF ToldAt, HandAt
    <3>6. task' \in [Tasks -> Jobs] /\ Placed' /\ Told' /\ Hands'
      BY <2>1, <3>3, <3>4, <3>5, OneTask
    <3> QED BY <1>a, <1>c, <2>1, <3>6
  <2> QED BY <2>2, <2>3
<1>6. CASE Abort(t)
  <2> DEFINE keys == TaskKeys(t) \cup {db[id].key : id \in TaskIds(t) \cap InDb}
  <2>1. /\ task' = [task EXCEPT ![t] = NoTask] /\ Blame(t[2], keys)
        /\ UNCHANGED <<table, db, sd, req, clash>>
    BY <1>6 DEF Abort
  <2>2. keys \subseteq AllKeys
    BY <1>0 DEF TInv, Types, InDb
  <2> HIDE DEF keys
  <2>3. cause' \in [Workers -> SUBSET Entries]
    BY <1>0, <2>1, <2>2, BlameTypes
  <2> QED BY <1>a, <1>b, <2>1, <2>3
<1> QED BY <1>1, <1>2, <1>3, <1>4, <1>5, <1>6 DEF Handler

LEMMA BootTypes ==
  ASSUME TInv, NEW w \in Workers, FlushAndCache(w)
  PROVE  TInv'
<1> DEFINE t == <<Boot, w>>
           n == [task[t] EXCEPT !.pc = "read", !.kinds = Kinds]
           none == [k \in AllKinds |-> [key \in AllKeys |-> Absent]]
<1>0. t \in Tasks /\ t[1] = Boot /\ t[2] = w
  BY DEF Tasks
<1>1. task[t] \in Jobs /\ ToldAt(t, task[t]) /\ HandAt(task[t]) /\ task[t].pc = "none"
  BY <1>0, TaskTypes DEF TInv, Told, Hands, FlushAndCache
<1>2. /\ task' = [task EXCEPT ![t] = n] /\ sd' = [sd EXCEPT ![w] = none]
      /\ UNCHANGED <<table, db, req, cause, clash>>
  BY <1>0 DEF FlushAndCache, Launch, TInv, Types
<1>3. /\ n \in Jobs /\ n.pc = "read" /\ n.kinds = Kinds /\ n.ids = task[t].ids /\ n.op = task[t].op
      /\ n.rows = task[t].rows
  BY <1>1, KindFacts DEF Jobs, TInv, Types
<1> HIDE DEF n
<1>4. ToldAt(t, n) /\ HandAt(n)
  BY <1>0, <1>1, <1>3 DEF ToldAt, HandAt
<1> HIDE DEF t
<1>5. task' \in [Tasks -> Jobs] /\ Placed' /\ Told' /\ Hands'
  BY <1>0, <1>2, <1>3, <1>4, OneTask
<1>6. none \in [AllKinds -> [AllKeys -> Values]]
  BY DEF Values
<1>7. sd' \in [Workers -> [AllKinds -> [AllKeys -> Values]]]
  BY <1>2, <1>6 DEF TInv, Types
<1>8. SdFiled'
  <2>1. \A v \in Workers, k \in AllKinds, key \in AllKeys :
          sd'[v][k][key] = Absent \/ sd'[v][k][key] = sd[v][k][key]
    BY <1>2 DEF TInv, Types
  <2> QED BY <1>2, <2>1, SameTable DEF TInv, SdFiled, Filed
<1> QED BY <1>2, <1>5, <1>7, <1>8, KeepDb DEF TInv, Types

LEMMA EvictTypes ==
  ASSUME TInv, NEW w \in Workers, NEW k \in AllKinds, NEW key \in AllKeys, Evict(w, k, key)
  PROVE  TInv'
<1>1. sd \in [Workers -> [AllKinds -> [AllKeys -> Values]]] /\ cause \in [Workers -> SUBSET Entries]
  BY DEF TInv, Types
<1>2. Absent \in Values /\ <<k, key>> \in Entries
  BY DEF Values, Entries
<1>3. /\ sd' \in [Workers -> [AllKinds -> [AllKeys -> Values]]]
      /\ \A v \in Workers, l \in AllKinds, c \in AllKeys :
          sd'[v][l][c] = Absent \/ sd'[v][l][c] = sd[v][l][c]
  BY <1>1, <1>2 DEF Evict
<1>4. cause' \in [Workers -> SUBSET Entries]
  BY <1>1, <1>2 DEF Evict
<1>5. SdFiled'
  BY <1>3, SameTable DEF Evict, TInv, SdFiled, Filed
<1>6. Placed' /\ Told'
  BY SameTable DEF Evict, TInv, Placed, PlacedAt, Told, ToldAt
<1> QED BY <1>3, <1>4, <1>5, <1>6, KeepDb, KeepHands DEF TInv, Types, Evict

LEMMA StutterTypes == TInv /\ UNCHANGED vars => TInv'
<1> SUFFICES ASSUME TInv, UNCHANGED vars PROVE TInv'
  OBVIOUS
<1>1. UNCHANGED <<table, db, sd, req, task, cause, clash>>
  BY DEF vars
<1>2. Placed' /\ Told'
  BY <1>1, SameTable DEF TInv, Placed, PlacedAt, Told, ToldAt
<1> QED BY <1>1, <1>2, KeepDb, KeepSd, KeepHands DEF TInv, Types

LEMMA StepTypes == TInv /\ [Next]_vars => TInv'
BY CenterTypes, WorkerTypes, BootTypes, EvictTypes, StutterTypes DEF Next

-----------------------------------------------------------------------------
(* What a step does to the excuses *)

\* The rows with this key do not change.
Steady(key) == IdsAt(key)' = IdsAt(key) /\ \A id \in IdsAt(key) : db'[id] = db[id]

LEMMA SteadyFacts ==
  ASSUME NEW key, Steady(key)
  PROVE  /\ \A v : Right(key, v)' <=> Right(key, v)
         /\ \A op, ids : Fits(op, ids, key)' <=> Fits(op, ids, key)
BY DEF Steady, Right, Fits

LEMMA SameDb == db' = db => \A key : Steady(key)
BY DEF Steady, IdsAt, InDb

\* Excuses are kept, and where the row changes there is one.
Kept == \A w \in Workers, k \in KindSet, key \in AllKeys :
          /\ Excused(w, k, key) => Excused(w, k, key)'
          /\ Steady(key) \/ Excused(w, k, key)'

LEMMA EntryKept ==
  ASSUME TInv, EntryInv, table' = table, Kept,
         \A w \in Workers, k \in KindSet, key \in AllKeys :
           \/ sd'[w][k][key] = sd[w][k][key] \/ Excused(w, k, key)'
           \/ Right(key, sd[w][k][key])'
  PROVE  EntryInv'
<1> SUFFICES ASSUME NEW w \in Workers, NEW k \in KindSet, NEW key \in AllKeys
             PROVE  Right(key, sd[w][k][key])' \/ Excused(w, k, key)'
  BY SameTable DEF EntryInv
<1>1. CASE Excused(w, k, key)' \/ Right(key, sd[w][k][key])'
  BY <1>1
<1>2. CASE sd'[w][k][key] = sd[w][k][key] /\ Steady(key) /\ ~Excused(w, k, key)
  <2> DEFINE v == sd[w][k][key]
  <2>1. Right(key, v)
    BY <1>2 DEF EntryInv
  <2>2. IdsAt(key)' = IdsAt(key) /\ \A id \in IdsAt(key) : db'[id] = db[id]
    BY <1>2 DEF Steady
  <2> QED BY <1>2, <2>1, <2>2 DEF Right
<1> QED BY <1>1, <1>2 DEF Kept

\* Rows stay in hand, or are put down.
Holding(t) ==
  task'[t].pc = "set" => /\ task[t].pc = "set" /\ task'[t].rows \subseteq task[t].rows
                         /\ task'[t].kinds = task[t].kinds /\ task'[t].op = task[t].op
                         /\ task[t].met \subseteq task'[t].met

\* A row in hand has what RowInv asks for.
Harmless(t, row) ==
  \/ Right(row[1], row[2]) \/ IsDelete(t) \/ <<Head(task[t].kinds), row[1]>> \in task[t].met
  \/ Excused(t[2], Head(task[t].kinds), row[1])

LEMMA HarmlessKept ==
  ASSUME TInv, RowInv, Kept, NEW t \in Tasks, Holding(t), task'[t].pc = "set",
         NEW row \in task'[t].rows
  PROVE  Harmless(t, row)'
<1> DEFINE k == Head(task[t].kinds)
<1>1. /\ task[t].pc = "set" /\ row \in task[t].rows
      /\ task'[t].kinds = task[t].kinds /\ task'[t].op = task[t].op
      /\ task[t].met \subseteq task'[t].met
  BY DEF Holding
<1>2. k \in KindSet /\ t[2] \in Workers /\ row[1] \in AllKeys
  <2>1. k \in KindSet
    BY <1>1, RunningKinds DEF Running
  <2>2. task[t] \in Jobs /\ t[2] \in Workers
    BY TaskTypes
  <2>3. row \in AllKeys \X Values
    BY <1>1, <2>2 DEF Jobs
  <2> QED BY <2>1, <2>2, <2>3
<1>3. Right(row[1], row[2]) \/ IsDelete(t) \/ <<k, row[1]>> \in task[t].met \/ Excused(t[2], k, row[1])
  BY <1>1 DEF RowInv
<1>4. PICK kind \in KindSet, w \in Workers, key \in AllKeys, v \in {row[2]} :
        kind = k /\ w = t[2] /\ key = row[1]
  BY <1>2
<1>5. Excused(w, kind, key) => Excused(w, kind, key)'
  BY DEF Kept
<1>6. Right(key, v) => Right(key, v)' \/ Excused(w, kind, key)'
  BY SteadyFacts DEF Kept
<1>7. \/ Right(key, v)' \/ IsDelete(t) \/ <<kind, key>> \in task[t].met \/ Excused(w, kind, key)'
  BY <1>3, <1>4, <1>5, <1>6
<1>8. kind = Head(task'[t].kinds)
  BY <1>1, <1>4
<1> QED BY <1>1, <1>4, <1>7, <1>8 DEF Harmless, IsDelete

LEMMA RowsKept ==
  ASSUME TInv, RowInv, Kept, \A t \in Tasks : Holding(t)
  PROVE  RowInv'
BY HarmlessKept DEF RowInv, Harmless

\* Request r, of those that have not told the workers yet, is at what it wrote
\* at place i; and task t is at a kind, or a row, of an entry.
WroteAt(r, i, key) == /\ req[r].pc = "write" /\ i \in 1 .. req[r].next - 1 /\ req[r].keys[i] = key
                      /\ Fits(req[r].op, {req[r].ids[i]}, key)
ToRead(t, w, k, key) == /\ t[2] = w /\ k \in Left(t) /\ key \in TaskKeys(t)
                        /\ Fits(task[t].op, TaskIds(t), key)
ToStore(t, w, k, key) == /\ t[2] = w /\ task[t].pc = "set" /\ k = Head(task[t].kinds)
                         /\ key \in TaskKeys(t)
                         /\ \E row \in task[t].rows : row[1] = key /\ Right(key, row[2])

LEMMA ExcuseParts ==
  ASSUME NEW w, NEW k, NEW key
  PROVE  Excused(w, k, key) <=>
           \/ \E r \in Reqs : \E i \in 1 .. req[r].next - 1 : WroteAt(r, i, key)
           \/ \E t \in Tasks : ToRead(t, w, k, key)
           \/ \E t \in Tasks : ToStore(t, w, k, key)
           \/ <<k, key>> \in cause[w] \/ key \in clash
<1>1. Wrote(key) <=> \E r \in Reqs : \E i \in 1 .. req[r].next - 1 : WroteAt(r, i, key)
  BY DEF Wrote, WroteAt
<1>2. Notified(w, k, key) <=> \E t \in Tasks : ToRead(t, w, k, key)
  BY DEF Notified, ToRead
<1>3. InHand(w, k, key) <=> \E t \in Tasks : ToStore(t, w, k, key)
  BY DEF InHand, ToStore
<1> QED BY <1>1, <1>2, <1>3 DEF Excused

LEMMA ExcusePartsNext ==
  ASSUME NEW w, NEW k, NEW key
  PROVE  Excused(w, k, key)' <=>
           \/ \E r \in Reqs : \E i \in 1 .. req'[r].next - 1 : WroteAt(r, i, key)'
           \/ \E t \in Tasks : ToRead(t, w, k, key)'
           \/ \E t \in Tasks : ToStore(t, w, k, key)'
           \/ <<k, key>> \in cause'[w] \/ key \in clash'
<1>1. Wrote(key)' <=> \E r \in Reqs : \E i \in 1 .. req'[r].next - 1 : WroteAt(r, i, key)'
  BY DEF Wrote, WroteAt
<1>2. Notified(w, k, key)' <=> \E t \in Tasks : ToRead(t, w, k, key)'
  BY DEF Notified, ToRead
<1>3. InHand(w, k, key)' <=> \E t \in Tasks : ToStore(t, w, k, key)'
  BY DEF InHand, ToStore
<1> QED BY <1>1, <1>2, <1>3 DEF Excused

\* A request and a task that do not change go on excusing a steady row.
LEMMA SameRequest ==
  ASSUME NEW r \in Reqs, NEW i, NEW key, Steady(key), req'[r] = req[r], WroteAt(r, i, key)
  PROVE  WroteAt(r, i, key)'
<1>1. Fits(req[r].op, {req[r].ids[i]}, key)'
  BY SteadyFacts DEF WroteAt, Fits
<1> QED BY <1>1 DEF WroteAt

\* All that an excuse depends on in a task is the same, or, for the rows, more.
Alike(t) == /\ task'[t].pc = task[t].pc /\ task'[t].op = task[t].op
            /\ task'[t].ids = task[t].ids /\ task'[t].keys = task[t].keys
            /\ task'[t].kinds = task[t].kinds

LEMMA SameTask ==
  ASSUME table' = table, NEW t \in Tasks, NEW w, NEW k, NEW key, Steady(key), Alike(t)
  PROVE  /\ ToRead(t, w, k, key) => ToRead(t, w, k, key)'
         /\ ToStore(t, w, k, key) /\ task'[t].rows = task[t].rows => ToStore(t, w, k, key)'
<1>1. Left(t)' = Left(t) /\ TaskKeys(t)' = TaskKeys(t) /\ TaskIds(t)' = TaskIds(t)
  BY SameTable DEF Alike, Left, TaskKeys, TaskIds
<1>2. IdsAt(key)' = IdsAt(key) /\ \A id \in IdsAt(key) : db'[id] = db[id]
  BY DEF Steady
<1>3. ToRead(t, w, k, key) => ToRead(t, w, k, key)'
  BY <1>1, <1>2 DEF Alike, ToRead, Fits
<1>4. ASSUME ToStore(t, w, k, key), task'[t].rows = task[t].rows
      PROVE  ToStore(t, w, k, key)'
  <2>1. PICK row \in task[t].rows : row[1] = key /\ Right(key, row[2])
    BY <1>4 DEF ToStore
  <2>2. Right(key, row[2])'
    BY <2>1, SteadyFacts
  <2> QED BY <1>1, <1>4, <2>1, <2>2 DEF ToStore, Alike
<1> QED BY <1>3, <1>4

\* A step of one request keeps all other excuses of a steady row.
LEMMA RequestKeeps ==
  ASSUME TInv, table' = table, NEW r \in Reqs, NEW w \in Workers, NEW k \in KindSet, NEW key \in AllKeys,
         Steady(key), \A c \in Reqs \ {r} : req'[c] = req[c], task' = task,
         cause[w] \subseteq cause'[w], clash \subseteq clash',
         \A i \in 1 .. req[r].next - 1 : WroteAt(r, i, key) =>
           Excused(w, k, key)',
         Excused(w, k, key)
  PROVE  Excused(w, k, key)'
<1>1. CASE \E c \in Reqs : \E i \in 1 .. req[c].next - 1 : WroteAt(c, i, key)
  <2>1. PICK c \in Reqs : \E i \in 1 .. req[c].next - 1 : WroteAt(c, i, key)
    BY <1>1
  <2>2. PICK i \in 1 .. req[c].next - 1 : WroteAt(c, i, key)
    BY <2>1
  <2>3. CASE c = r
    BY <2>2, <2>3
  <2>4. CASE c # r
    <3>1. req'[c] = req[c] /\ WroteAt(c, i, key)'
      BY <2>2, <2>4, SameRequest
    <3> QED BY <3>1, ExcusePartsNext
  <2> QED BY <2>3, <2>4
<1>2. CASE \E t \in Tasks : ToRead(t, w, k, key) \/ ToStore(t, w, k, key)
  <2>1. PICK t \in Tasks : ToRead(t, w, k, key) \/ ToStore(t, w, k, key)
    BY <1>2
  <2>2. Alike(t) /\ task'[t].rows = task[t].rows
    BY DEF Alike
  <2>3. ToRead(t, w, k, key)' \/ ToStore(t, w, k, key)'
    BY <2>1, <2>2, SameTask
  <2> QED BY <2>3, ExcusePartsNext
<1>3. CASE <<k, key>> \in cause[w] \/ key \in clash
  BY <1>3, ExcusePartsNext
<1> QED BY <1>1, <1>2, <1>3, ExcuseParts

\* A step of one task keeps all other excuses.
LEMMA TaskKeeps ==
  ASSUME TInv, UNCHANGED <<table, db, req, clash>>,
         NEW t \in Tasks, NEW w \in Workers, NEW k \in KindSet, NEW key \in AllKeys,
         \A u \in Tasks \ {t} : task'[u] = task[u],
         cause[w] \subseteq cause'[w],
         ToRead(t, w, k, key) \/ ToStore(t, w, k, key) => Excused(w, k, key)',
         Excused(w, k, key)
  PROVE  Excused(w, k, key)'
<1>0. Steady(key)
  BY SameDb
<1>1. CASE \E c \in Reqs : \E i \in 1 .. req[c].next - 1 : WroteAt(c, i, key)
  <2>1. PICK c \in Reqs : \E i \in 1 .. req[c].next - 1 : WroteAt(c, i, key)
    BY <1>1
  <2>2. PICK i \in 1 .. req[c].next - 1 : WroteAt(c, i, key)
    BY <2>1
  <2>3. req'[c] = req[c] /\ WroteAt(c, i, key)'
    BY <1>0, <2>2, SameRequest
  <2> QED BY <2>3, ExcusePartsNext
<1>2. CASE \E u \in Tasks : ToRead(u, w, k, key) \/ ToStore(u, w, k, key)
  <2>1. PICK u \in Tasks : ToRead(u, w, k, key) \/ ToStore(u, w, k, key)
    BY <1>2
  <2>2. CASE u = t
    BY <2>1, <2>2
  <2>3. CASE u # t
    <3>1. Alike(u) /\ task'[u].rows = task[u].rows
      BY <2>3 DEF Alike
    <3>2. ToRead(u, w, k, key)' \/ ToStore(u, w, k, key)'
      BY <1>0, <2>1, <3>1, SameTask
    <3> QED BY <3>2, ExcusePartsNext
  <2> QED BY <2>2, <2>3
<1>3. CASE <<k, key>> \in cause[w] \/ key \in clash
  BY <1>3, ExcusePartsNext
<1> QED BY <1>1, <1>2, <1>3, ExcuseParts

\* A statement changes what is seen at the key of its old row, of which nobody is
\* told, and at the new key, where its own notification will put it right.
LEMMA WriteEffect ==
  ASSUME TInv, NEW r \in Reqs, Writing(r), KeyKnown(r), clash \subseteq clash',
         db' = [db EXCEPT ![ThisId(r)] = RowAfter(r)],
         NEW key \in AllKeys, key \notin Orphaned(r),
         NEW op, op = req[r].op, NEW id, id = ThisId(r)
  PROVE  \/ Steady(key)
         \/ key = req[r].keys[req[r].next] /\ (Fits(op, {id}, key)' \/ key \in clash')
<1> DEFINE kn == req[r].keys[req[r].next]
<1>1. id \in Ids /\ db \in [Ids -> [by : Writers, key : AllKeys] \cup {Absent}]
  BY WritingTypes DEF TInv, Types
<1>2. \A i \in Ids : db'[i] = IF i = id THEN RowAfter(r) ELSE db[i]
  BY <1>1
<1>3. id \in InDb => db[id].key = kn \/ key # db[id].key
  BY DEF Orphaned
<1>4. ASSUME id \notin IdsAt(key), id \notin IdsAt(key)'
      PROVE  Steady(key)
  <2>1. \A i : i \in IdsAt(key)' <=> i \in IdsAt(key)
    BY <1>2, <1>4 DEF IdsAt, InDb
  <2>2. \A i \in IdsAt(key) : db'[i] = db[i]
    BY <1>2, <1>4 DEF IdsAt, InDb
  <2> QED BY <2>1, <2>2 DEF Steady
<1>5. CASE RowAfter(r) = Absent
  <2>1. id \notin IdsAt(key)'
    BY <1>1, <1>2, <1>5 DEF IdsAt, InDb
  <2>2. CASE id \notin IdsAt(key)
    BY <1>4, <2>1, <2>2
  <2>3. CASE id \in IdsAt(key)
    <3>1. id \in InDb /\ key = db[id].key /\ key = kn
      BY <1>3, <2>3 DEF IdsAt
    <3>2. op = "delete"
      BY <3>1, RowAfterCases, <1>5
    <3>3. CASE IdsAt(key)' = {}
      BY <3>1, <3>2, <3>3 DEF Fits
    <3>4. CASE IdsAt(key)' # {}
      <4>1. PICK i : i \in IdsAt(key)'
        BY <3>4
      <4>2. i # id /\ i \in InDb /\ db[i].key = key
        BY <1>2, <2>1, <4>1 DEF IdsAt, InDb
      <4>3. key \in clash
        BY <3>1, <4>2 DEF TInv, DbFiled
      <4> QED BY <3>1, <4>3
    <3> QED BY <3>3, <3>4
  <2> QED BY <2>2, <2>3
<1>6. CASE RowAfter(r) # Absent
  <2>1. op = "update" /\ RowAfter(r) = [by |-> r, key |-> kn]
    BY <1>6, RowAfterCases
  <2>2. db'[id] # Absent /\ db'[id].key = kn
    BY <1>1, <1>2, <1>6, <2>1
  <2>3. CASE key = kn
    <3>1. id \in IdsAt(key)'
      BY <1>1, <2>2, <2>3 DEF IdsAt, InDb
    <3> QED BY <2>1, <2>3, <3>1 DEF Fits
  <2>4. CASE key # kn
    <3>1. id \notin IdsAt(key)'
      BY <2>2, <2>4 DEF IdsAt, InDb
    <3>2. id \notin IdsAt(key)
      BY <1>3, <2>4 DEF IdsAt
    <3> QED BY <1>4, <3>1, <3>2
  <2> QED BY <2>3, <2>4
<1> QED BY <1>5, <1>6

\* What a request has written is among the keys it blames when it fails.
LEMMA WroteTouched ==
  ASSUME TInv, NEW r \in Reqs, NEW key \in AllKeys, NEW i \in 1 .. req[r].next - 1, WroteAt(r, i, key)
  PROVE  key \in Touched(r) /\ i \in 1 .. Len(req[r].keys) /\ i \in 1 .. Len(req[r].ids)
<1>1. /\ req[r].next \in Nat \ {0} /\ Len(req[r].ids) \in Nat /\ Len(req[r].keys) \in Nat
      /\ DOMAIN req[r].keys = 1 .. Len(req[r].keys) /\ PlacedAt(req[r])
  BY RequestTypes
<1>2. /\ req[r].pc = "write" /\ req[r].keys[i] = key
      /\ req[r].next <= Len(req[r].ids) + 1 /\ req[r].next <= Len(req[r].keys) + 1
  BY <1>1 DEF WroteAt, PlacedAt
<1>3. i \in 1 .. Len(req[r].keys) /\ i \in 1 .. Len(req[r].ids) /\ i \in 1 .. req[r].next
  BY <1>1, <1>2
<1>4. key # Absent
  BY AbsentAssumption DEF AllKeys
<1> QED BY <1>1, <1>2, <1>3, <1>4 DEF Touched

LEMMA CenterKeeps ==
  ASSUME SyncInv, NEW r \in Reqs, Begin(r) \/ Center(r)
  PROVE  Kept /\ table' = table /\ sd' = sd /\ \A t \in Tasks : Holding(t)
<1> DEFINE q == req[r]
<1>0. TInv /\ req \in [Reqs -> Requests]
  BY DEF SyncInv, TInv, Types
<1>a. ASSUME UNCHANGED task PROVE \A t \in Tasks : Holding(t)
  BY <1>a DEF Holding
<1>b. ASSUME UNCHANGED <<table, db, task, clash>>, \A c \in Reqs \ {r} : req'[c] = req[c],
             \A w \in Workers : cause[w] \subseteq cause'[w],
             \A w \in Workers, k \in KindSet, key \in AllKeys : \A i \in 1 .. q.next - 1 :
                WroteAt(r, i, key) => Excused(w, k, key)'
      PROVE  Kept
  <2> SUFFICES ASSUME NEW w \in Workers, NEW k \in KindSet, NEW key \in AllKeys, Excused(w, k, key)
               PROVE  Excused(w, k, key)'
    BY <1>b, SameDb DEF Kept
  <2>1. Steady(key)
    BY <1>b, SameDb
  <2> HIDE DEF q
  <2>2. \A i \in 1 .. req[r].next - 1 : WroteAt(r, i, key) => Excused(w, k, key)'
    BY <1>b DEF q
  <2> QED BY <1>0, <1>b, <2>1, <2>2, RequestKeeps
<1>c. ASSUME UNCHANGED <<table, db, task, clash, cause>>, \A c \in Reqs \ {r} : req'[c] = req[c],
             q.pc # "write"
      PROVE  Kept
  BY <1>b, <1>c DEF WroteAt
<1>1. CASE Begin(r) \/ Check(r) \/ CheckFail(r)
  <2>1. /\ q.pc # "write" /\ UNCHANGED <<table, db, sd, task, cause, clash>>
        /\ \A c \in Reqs \ {r} : req'[c] = req[c]
    BY <1>0, <1>1 DEF Begin, Check, CheckFail
  <2> QED BY <1>a, <1>c, <2>1
<1>2. CASE GetObjectId(r)
  <2> DEFINE key0 == IF ThisId(r) \in InDb THEN db[ThisId(r)].key
                     ELSE IF table = "creative" THEN Absent ELSE ThisId(r)
             n == [q EXCEPT !.keys = Append(q.keys, key0)]
  <2>1. UNCHANGED <<table, db, sd, task, cause, clash>> /\ req' = [req EXCEPT ![r] = n]
    BY <1>2 DEF GetObjectId
  <2> HIDE DEF key0
  <2>2. n.pc = q.pc /\ n.op = q.op /\ n.ids = q.ids /\ n.next = q.next /\ n.keys = Append(q.keys, key0)
    BY <1>0 DEF Requests
  <2> HIDE DEF n
  <2>3. req'[r] = n /\ \A c \in Reqs \ {r} : req'[c] = req[c]
    BY <1>0, <2>1
  <2>4. ASSUME NEW w \in Workers, NEW k \in KindSet, NEW key \in AllKeys, NEW i \in 1 .. q.next - 1,
               WroteAt(r, i, key)
        PROVE  Excused(w, k, key)'
    <3>1. i \in 1 .. Len(q.keys) /\ q.keys \in KeyLists
      BY <1>0, <2>4, WroteTouched, RequestTypes
    <3>2. n.keys[i] = q.keys[i]
      <4> HIDE DEF q
      <4> QED BY <2>2, <3>1 DEF KeyLists
    <3>3. Steady(key)
      BY <2>1, SameDb
    <3>4. Fits(q.op, {q.ids[i]}, key)' 
      BY <2>1, <2>2, <2>3, <2>4, <3>3 DEF WroteAt, Fits, Steady
    <3>5. WroteAt(r, i, key)' /\ i \in 1 .. req'[r].next - 1
      BY <2>2, <2>3, <2>4, <3>2, <3>4 DEF WroteAt, Fits
    <3> QED BY <3>5, ExcusePartsNext
  <2> QED BY <1>a, <1>b, <2>1, <2>3, <2>4
<1>3. CASE Write(r)
  <2> DEFINE n == [q EXCEPT !.next = q.next + 1]
  <2>1. /\ Writing(r) /\ KeyKnown(r) /\ NoteClash /\ UNCHANGED <<table, sd, task>>
        /\ db' = [db EXCEPT ![ThisId(r)] = RowAfter(r)] /\ BlameAll(Orphaned(r))
        /\ req' = [req EXCEPT ![r] = n]
    BY <1>3 DEF Write
  <2>2. /\ q.pc = "write" /\ q.next \in 1 .. Len(q.ids) /\ q.next \in 1 .. Len(q.keys)
        /\ Orphaned(r) \subseteq AllKeys /\ Len(q.ids) \in Nat
    BY <1>0, <2>1, WritingTypes, RequestTypes
  <2>3. n.pc = q.pc /\ n.op = q.op /\ n.ids = q.ids /\ n.next = q.next + 1 /\ n.keys = q.keys
    BY <1>0 DEF Requests
  <2> HIDE DEF n
  <2>4. req'[r] = n /\ \A c \in Reqs \ {r} : req'[c] = req[c]
    BY <1>0, <2>1
  <2>5. clash \subseteq clash'
    BY <2>1 DEF NoteClash
  <2>6. \A w \in Workers : cause'[w] = cause[w] \cup (KindSet \X Orphaned(r))
    BY <1>0, <2>1, <2>2, BlameTypes
  <2>7. ASSUME NEW w \in Workers, NEW k \in KindSet, NEW key \in AllKeys
        PROVE  /\ Excused(w, k, key) => Excused(w, k, key)'
               /\ Steady(key) \/ Excused(w, k, key)'
    <3>1. CASE key \in Orphaned(r)
      <4>1. <<k, key>> \in cause'[w]
        BY <2>6, <3>1
      <4> QED BY <4>1, ExcusePartsNext
    <3>2. CASE Steady(key)
      <4>1. ASSUME NEW i \in 1 .. req[r].next - 1, WroteAt(r, i, key)
            PROVE  Excused(w, k, key)'
        <5>1. Fits(q.op, {q.ids[i]}, key)
          BY <4>1 DEF WroteAt
        <5>2. WroteAt(r, i, key)' /\ i \in 1 .. req'[r].next - 1
          <6>1. i \in 1 .. n.next - 1
            BY <2>2, <2>3, <4>1
          <6>2. IdsAt(key)' = IdsAt(key)
            BY <3>2 DEF Steady
          <6> QED BY <2>2, <2>3, <2>4, <4>1, <5>1, <6>1, <6>2 DEF WroteAt, Fits
        <5> QED BY <5>2, ExcusePartsNext
      <4>2. cause[w] \subseteq cause'[w]
        BY <2>6
      <4>3. Excused(w, k, key) => Excused(w, k, key)'
        <5> HIDE DEF q
        <5> QED BY <1>0, <2>1, <2>4, <2>5, <3>2, <4>1, <4>2, RequestKeeps
      <4> QED BY <3>2, <4>3
    <3>3. CASE key \notin Orphaned(r) /\ ~Steady(key)
      <4>1. PICK op \in {q.op}, id \in {ThisId(r)} : TRUE
        OBVIOUS
      <4>2. key = q.keys[q.next] /\ (Fits(op, {id}, key)' \/ key \in clash')
        <5> HIDE DEF q
        <5> QED BY <1>0, <2>1, <2>5, <3>3, <4>1, WriteEffect DEF q
      <4>3. CASE key \in clash'
        BY <4>3, ExcusePartsNext
      <4>4. CASE Fits(op, {id}, key)'
        <5>1. q.next \in 1 .. n.next - 1
          BY <2>2, <2>3
        <5>2. PICK i \in 1 .. n.next - 1 : i = q.next
          BY <5>1
        <5>3. n.pc = "write" /\ n.keys[i] = key /\ n.op = op /\ n.ids[i] = id
          BY <2>2, <2>3, <4>1, <4>2, <5>2 DEF ThisId
        <5>4. WroteAt(r, i, key)'
          BY <2>4, <4>4, <5>2, <5>3 DEF WroteAt, Fits
        <5> QED BY <2>4, <5>2, <5>4, ExcusePartsNext
      <4> QED BY <4>2, <4>3, <4>4
    <3> QED BY <3>1, <3>2, <3>3
  <2> QED BY <1>a, <2>1, <2>7 DEF Kept
<1>4. CASE WriteFail(r)
  <2>1. /\ Writing(r) /\ KeyKnown(r) /\ NoteClash /\ UNCHANGED <<table, sd, task>>
        /\ db' = db \/ db' = [db EXCEPT ![ThisId(r)] = RowAfter(r)]
        /\ BlameAll(Touched(r) \cup Orphaned(r)) /\ req' = [req EXCEPT ![r] = Done]
    BY <1>4 DEF WriteFail
  <2>2. Touched(r) \cup Orphaned(r) \subseteq AllKeys
    BY <1>0, <2>1, WritingTypes, RequestTypes
  <2>3. \A w \in Workers : cause'[w] = cause[w] \cup (KindSet \X (Touched(r) \cup Orphaned(r)))
    BY <1>0, <2>1, <2>2, BlameTypes
  <2>4. clash \subseteq clash' /\ \A c \in Reqs \ {r} : req'[c] = req[c]
    BY <1>0, <2>1 DEF NoteClash
  <2>5. ASSUME NEW w \in Workers, NEW k \in KindSet, NEW key \in AllKeys
        PROVE  /\ Excused(w, k, key) => Excused(w, k, key)'
               /\ Steady(key) \/ Excused(w, k, key)'
    <3>1. CASE key \in Touched(r) \cup Orphaned(r)
      <4>1. <<k, key>> \in cause'[w]
        BY <2>3, <3>1
      <4> QED BY <4>1, ExcusePartsNext
    <3>2. CASE key \notin Touched(r) \cup Orphaned(r)
      <4>1. Steady(key) \/ key \in clash'
        <5>1. CASE db' = db
          BY <5>1, SameDb
        <5>2. CASE db' = [db EXCEPT ![ThisId(r)] = RowAfter(r)]
          <6>1. PICK op \in {q.op}, id \in {ThisId(r)} : TRUE
            OBVIOUS
          <6>2. Steady(key) \/ (key = q.keys[q.next] /\ (Fits(op, {id}, key)' \/ key \in clash'))
            <7> HIDE DEF q
            <7> QED BY <1>0, <2>1, <2>4, <3>2, <5>2, <6>1, WriteEffect DEF q
          <6>3. key # q.keys[q.next]
            <7>1. /\ q.next \in 1 .. Len(q.keys) /\ DOMAIN q.keys = 1 .. Len(q.keys)
                  /\ q.next \in Nat \ {0}
              BY <1>0, <2>1, WritingTypes, RequestTypes
            <7>2. key # Absent
              BY AbsentAssumption DEF AllKeys
            <7>3. q.next \in (1 .. q.next) \cap DOMAIN q.keys
              BY <7>1
            <7> QED BY <3>2, <7>2, <7>3 DEF Touched
          <6> QED BY <6>2, <6>3
        <5> QED BY <2>1, <5>1, <5>2
      <4>2. CASE key \in clash'
        BY <4>2, ExcusePartsNext
      <4>3. CASE Steady(key)
        <5>1. \A i \in 1 .. req[r].next - 1 : ~WroteAt(r, i, key)
          BY <1>0, <3>2, WroteTouched
        <5>2. cause[w] \subseteq cause'[w]
          BY <2>3
        <5> QED BY <1>0, <2>1, <2>4, <4>3, <5>1, <5>2, RequestKeeps
      <4> QED BY <4>1, <4>2, <4>3
    <3> QED BY <3>1, <3>2
  <2> QED BY <1>a, <2>1, <2>5 DEF Kept
<1>5. CASE NotifyFail(r)
  <2>1. /\ UNCHANGED <<table, db, sd, task, clash>> /\ BlameAll(Touched(r))
        /\ req' = [req EXCEPT ![r] = Done]
    BY <1>5 DEF NotifyFail
  <2>2. \A w \in Workers : cause'[w] = cause[w] \cup (KindSet \X Touched(r))
    BY <1>0, <2>1, BlameTypes, RequestTypes
  <2>3. ASSUME NEW w \in Workers, NEW k \in KindSet, NEW key \in AllKeys, NEW i \in 1 .. q.next - 1,
               WroteAt(r, i, key)
        PROVE  Excused(w, k, key)'
    <3>1. key \in Touched(r)
      BY <1>0, <2>3, WroteTouched
    <3>2. <<k, key>> \in cause'[w]
      BY <2>2, <3>1
    <3> QED BY <3>2, ExcusePartsNext
  <2>4. \A c \in Reqs \ {r} : req'[c] = req[c]
    BY <1>0, <2>1
  <2> QED BY <1>a, <1>b, <2>1, <2>2, <2>3, <2>4
<1>6. CASE NotifySax(r)
  <2> DEFINE n == [NoTask EXCEPT !.pc = "sent", !.op = q.op, !.ids = q.ids, !.keys = q.keys]
  <2>1. /\ q.pc = "write" /\ req' = [req EXCEPT ![r] = Done]
        /\ UNCHANGED <<table, db, sd, cause, clash>>
        /\ task' = [t \in Tasks |-> IF t[1] = r /\ Touched(r) # {} THEN n ELSE task[t]]
    BY <1>6 DEF NotifySax, AllWritten
  <2>2. n.pc = "sent" /\ n.op = q.op /\ n.ids = q.ids /\ n.keys = q.keys
    BY DEF NoTask
  <2> HIDE DEF n
  <2>3. \A t \in Tasks : task'[t] = IF t[1] = r /\ Touched(r) # {} THEN n ELSE task[t]
    BY <2>1
  <2>4. \A t \in Tasks : t[1] = r => task[t].pc = "none"
    BY <1>0, <2>1, DistinctAssumption DEF TInv, Told, ToldAt
  <2>5. \A t \in Tasks : Holding(t)
    BY <2>2, <2>3 DEF Holding
  <2>6. ASSUME NEW w \in Workers, NEW k \in KindSet, NEW key \in AllKeys, Excused(w, k, key)
        PROVE  Excused(w, k, key)'
    <3>0. Steady(key)
      BY <2>1, SameDb
    <3>1. CASE \E c \in Reqs : \E i \in 1 .. req[c].next - 1 : WroteAt(c, i, key)
      <4>1. PICK c \in Reqs : \E i \in 1 .. req[c].next - 1 : WroteAt(c, i, key)
        BY <3>1
      <4>2. PICK i \in 1 .. req[c].next - 1 : WroteAt(c, i, key)
        BY <4>1
      <4>3. CASE c # r
        <5>1. req'[c] = req[c] /\ WroteAt(c, i, key)'
          BY <1>0, <2>1, <3>0, <4>2, <4>3, SameRequest
        <5> QED BY <5>1, ExcusePartsNext
      <4>4. CASE c = r
        <5> DEFINE t == <<r, w>>
        <5>1. /\ key \in Touched(r) /\ i \in 1 .. Len(q.keys) /\ i \in 1 .. Len(q.ids)
              /\ DOMAIN q.keys = 1 .. Len(q.keys) /\ DOMAIN q.ids = 1 .. Len(q.ids)
          BY <1>0, <4>2, <4>4, WroteTouched, RequestTypes, ListTypes
        <5>2. t \in Tasks /\ t[1] = r /\ t[2] = w
          BY DEF Tasks
        <5> HIDE DEF t
        <5>3. task'[t] = n
          BY <2>3, <5>1, <5>2
        <5>4. Left(t)' = KindSet
          BY <2>1, <2>2, <5>3, SameTable DEF Left
        <5>5. key = q.keys[i] /\ Fits(q.op, {q.ids[i]}, key)
          BY <4>2, <4>4 DEF WroteAt
        <5>6. ~IsBoot(t) /\ IsBoot(t)' = IsBoot(t)
          BY <5>2, DistinctAssumption DEF IsBoot
        <5>7. key \in TaskKeys(t)'
          <6>1. TaskKeys(t)' = SeqToSet(q.keys) \ {Absent}
            BY <2>2, <5>3, <5>6 DEF TaskKeys
          <6>2. key # Absent
            BY AbsentAssumption DEF AllKeys
          <6> QED BY <5>1, <5>5, <6>1, <6>2 DEF SeqToSet
        <5>8. q.ids[i] \in TaskIds(t)'
          BY <2>2, <5>1, <5>3, <5>6 DEF TaskIds, SeqToSet
        <5>9. Fits(task[t].op, TaskIds(t), key)'
          BY <2>2, <3>0, <5>3, <5>5, <5>8 DEF Fits, Steady
        <5>10. ToRead(t, w, k, key)'
          BY <5>2, <5>4, <5>7, <5>9 DEF ToRead
        <5> QED BY <5>2, <5>10, ExcusePartsNext
      <4> QED BY <4>3, <4>4
    <3>2. CASE \E t \in Tasks : ToRead(t, w, k, key) \/ ToStore(t, w, k, key)
      <4>1. PICK t \in Tasks : ToRead(t, w, k, key) \/ ToStore(t, w, k, key)
        BY <3>2
      <4>2. t[1] # r
        BY <2>4, <4>1 DEF ToRead, ToStore, Left
      <4>3. Alike(t) /\ task'[t].rows = task[t].rows
        BY <2>3, <4>2 DEF Alike
      <4>4. ToRead(t, w, k, key)' \/ ToStore(t, w, k, key)'
        BY <2>1, <3>0, <4>1, <4>3, SameTask
      <4> QED BY <4>4, ExcusePartsNext
    <3>3. CASE <<k, key>> \in cause[w] \/ key \in clash
      BY <2>1, <3>3, ExcusePartsNext
    <3> QED BY <2>6, <3>1, <3>2, <3>3, ExcuseParts
  <2> QED BY <2>1, <2>5, <2>6, SameDb DEF Kept
<1> QED BY <1>1, <1>2, <1>3, <1>4, <1>5, <1>6 DEF Center

\* Steps of a task that leave the dict alone.
LEMMA TaskSteps ==
  ASSUME SyncInv, NEW t \in Tasks,
         Deliver(t) \/ Lose(t) \/ ReadRows(t) \/ NextKind(t) \/ Abort(t)
  PROVE  Kept /\ UNCHANGED <<table, db, sd, clash>> /\ \A u \in Tasks \ {t} : task'[u] = task[u]
<1> DEFINE j == task[t]
<1>0. /\ TInv /\ task \in [Tasks -> Jobs] /\ j \in Jobs /\ t[2] \in Workers
      /\ TaskKeys(t) \subseteq AllKeys /\ TaskIds(t) \subseteq Ids
  BY TaskTypes DEF SyncInv, TInv, Types
<1>1. /\ UNCHANGED <<table, db, sd, req, clash>>
      /\ \A u \in Tasks \ {t} : task'[u] = task[u]
  BY <1>0 DEF Deliver, Launch, Lose, ReadRows, NextKind, Abort
<1>a. ASSUME \A w \in Workers : cause[w] \subseteq cause'[w],
             \A w \in Workers, k \in KindSet, key \in AllKeys :
               ToRead(t, w, k, key) \/ ToStore(t, w, k, key) => Excused(w, k, key)'
      PROVE  Kept
  <2> SUFFICES ASSUME NEW w \in Workers, NEW k \in KindSet, NEW key \in AllKeys, Excused(w, k, key)
               PROVE  Excused(w, k, key)'
    BY <1>1, SameDb DEF Kept
  <2>1. ToRead(t, w, k, key) \/ ToStore(t, w, k, key) => Excused(w, k, key)'
    BY <1>a
  <2> QED BY <1>0, <1>1, <1>a, <2>1, TaskKeeps
<1>b. ASSUME NEW keys \in SUBSET AllKeys, Blame(t[2], keys), TaskKeys(t) \subseteq keys
      PROVE  Kept
  <2>1. /\ cause'[t[2]] = cause[t[2]] \cup (KindSet \X keys)
        /\ \A w \in Workers : cause[w] \subseteq cause'[w]
    BY <1>0, <1>b, BlameTypes
  <2>2. ASSUME NEW w \in Workers, NEW k \in KindSet, NEW key \in AllKeys,
               ToRead(t, w, k, key) \/ ToStore(t, w, k, key)
        PROVE  Excused(w, k, key)'
    <3>1. w = t[2] /\ key \in TaskKeys(t)
      BY <2>2 DEF ToRead, ToStore
    <3>2. <<k, key>> \in cause'[w]
      BY <1>b, <2>1, <3>1
    <3> QED BY <3>2, ExcusePartsNext
  <2> QED BY <1>a, <2>1, <2>2
<1>c. ASSUME task'[t].op = j.op, task'[t].ids = j.ids, task'[t].keys = j.keys
      PROVE  /\ TaskKeys(t)' = TaskKeys(t) /\ TaskIds(t)' = TaskIds(t) /\ IsDelete(t)' = IsDelete(t)
             /\ \A key : Fits(j.op, TaskIds(t), key)' <=> Fits(j.op, TaskIds(t), key)
  <2>1. TaskKeys(t)' = TaskKeys(t) /\ TaskIds(t)' = TaskIds(t) /\ IsDelete(t)' = IsDelete(t)
    BY <1>c DEF TaskKeys, TaskIds, IsDelete
  <2>2. \A key : IdsAt(key)' = IdsAt(key)
    BY <1>1, SameDb DEF Steady
  <2> QED BY <1>c, <2>1, <2>2 DEF Fits
<1>2. CASE Deliver(t)
  <2>1. /\ j.pc = "sent" /\ cause' = cause
        /\ task'[t] = [j EXCEPT !.pc = "read", !.kinds = Kinds]
    BY <1>0, <1>2 DEF Deliver, Launch
  <2>2. /\ task'[t].pc = "read" /\ task'[t].kinds = Kinds /\ task'[t].op = j.op
        /\ task'[t].ids = j.ids /\ task'[t].keys = j.keys
    BY <1>0, <2>1 DEF Jobs
  <2>3. Left(t)' = KindSet
    BY <1>0, <1>1, <2>2, SameTable, KindFacts DEF Left, SeqToSet, TInv, Types
  <2>4. ASSUME NEW w \in Workers, NEW k \in KindSet, NEW key \in AllKeys,
               ToRead(t, w, k, key) \/ ToStore(t, w, k, key)
        PROVE  Excused(w, k, key)'
    <3>1. ToRead(t, w, k, key)
      BY <2>1, <2>4 DEF ToStore
    <3>2. ToRead(t, w, k, key)'
      BY <1>c, <2>2, <2>3, <3>1 DEF ToRead
    <3> QED BY <3>2, ExcusePartsNext
  <2> QED BY <1>1, <1>a, <2>1, <2>4
<1>3. CASE Lose(t)
  BY <1>0, <1>1, <1>3, <1>b DEF Lose
<1>4. CASE ReadRows(t)
  <2>1. /\ j.pc = "read" /\ cause' = cause
        /\ task'[t] = IF RowMissing(t) THEN NoTask
                      ELSE [j EXCEPT !.pc = "set", !.rows = RowsFor(t), !.met = {}]
    BY <1>0, <1>4 DEF ReadRows
  <2>2. ASSUME NEW w \in Workers, NEW k \in KindSet, NEW key \in AllKeys,
               ToRead(t, w, k, key) \/ ToStore(t, w, k, key)
        PROVE  Excused(w, k, key)'
    <3>1. /\ t[2] = w /\ k \in SeqToSet(j.kinds) /\ key \in TaskKeys(t)
          /\ Fits(j.op, TaskIds(t), key)
      BY <2>1, <2>2 DEF ToRead, ToStore, Left
    <3>2. ~RowMissing(t)
      <4> SUFFICES ASSUME RowMissing(t) PROVE FALSE
        OBVIOUS
      <4>1. j.op # "delete" /\ Len(j.ids) = 1 /\ j.ids[1] \notin InDb /\ j.ids \in IdLists
        BY <1>0 DEF RowMissing, IsDelete, Jobs
      <4>2. ~IsBoot(t)
        <5>1. Len(<<>>) = 0
          OBVIOUS
        <5> QED BY <1>0, <4>1, <5>1 DEF IsBoot, TInv, Told, ToldAt
      <4>3. TaskIds(t) = {j.ids[1]}
        <5>1. DOMAIN j.ids = 1 .. 1
          BY <4>1, ListTypes
        <5> QED BY <4>2, <5>1 DEF TaskIds, SeqToSet
      <4>4. TaskIds(t) \cap IdsAt(key) # {}
        BY <3>1, <4>1 DEF Fits
      <4> QED BY <4>1, <4>3, <4>4 DEF IdsAt
    <3>3. /\ task'[t].pc = "set" /\ task'[t].kinds = j.kinds /\ task'[t].op = j.op
          /\ task'[t].ids = j.ids /\ task'[t].keys = j.keys /\ task'[t].rows = RowsFor(t)
      BY <1>0, <2>1, <3>2 DEF Jobs
    <3>4. CASE k # Head(j.kinds)
      <4>1. k \in Left(t)'
        BY <3>1, <3>3, <3>4 DEF Left
      <4>2. ToRead(t, w, k, key)'
        BY <1>c, <3>1, <3>3, <4>1 DEF ToRead
      <4> QED BY <4>2, ExcusePartsNext
    <3>5. CASE k = Head(j.kinds)
      <4>1. \E row \in RowsFor(t) : row[1] = key /\ Right(key, row[2])
        <5>1. CASE IdsAt(key) = {}
          <6>1. IsDelete(t)
            BY <3>1, <5>1 DEF Fits, IsDelete
          <6>2. <<key, Absent>> \in RowsFor(t)
            BY <1>0, <3>1, <6>1, RowsForTypes
          <6>3. Right(key, Absent)
            BY <5>1 DEF Right
          <6> QED BY <6>2, <6>3
        <5>2. CASE IdsAt(key) # {}
          <6>1. ~IsDelete(t) /\ TaskIds(t) \cap IdsAt(key) # {}
            BY <3>1, <5>2 DEF Fits, IsDelete
          <6>2. PICK id \in TaskIds(t) : id \in InDb /\ db[id].key = key
            BY <6>1 DEF IdsAt
          <6>3. <<db[id].key, <<id, db[id].by>>>> \in RowsFor(t)
            BY <1>0, <6>1, <6>2, RowsForTypes
          <6>4. Right(key, <<id, db[id].by>>)
            BY <6>2 DEF Right, IdsAt
          <6> QED BY <6>2, <6>3, <6>4
        <5> QED BY <5>1, <5>2
      <4>2. PICK row \in RowsFor(t) : row[1] = key /\ Right(key, row[2])
        BY <4>1
      <4>3. Right(key, row[2])'
        BY <1>1, <4>2, SameDb, SteadyFacts
      <4>4. ToStore(t, w, k, key)'
        BY <1>c, <3>1, <3>3, <3>5, <4>2, <4>3 DEF ToStore
      <4> QED BY <4>4, ExcusePartsNext
    <3> QED BY <3>4, <3>5
  <2> QED BY <1>1, <1>a, <2>1, <2>2
<1>5. CASE NextKind(t)
  <2>1. /\ j.pc = "set" /\ j.rows = {} /\ cause' = cause
        /\ task'[t] = IF Len(j.kinds) = 1 THEN NoTask
                      ELSE [j EXCEPT !.pc = "read", !.kinds = Tail(j.kinds)]
    BY <1>0, <1>5 DEF NextKind
  <2>2. ASSUME NEW w \in Workers, NEW k \in KindSet, NEW key \in AllKeys,
               ToRead(t, w, k, key) \/ ToStore(t, w, k, key)
        PROVE  Excused(w, k, key)'
    <3>1. ToRead(t, w, k, key) /\ k \in SeqToSet(j.kinds) \ {Head(j.kinds)}
      BY <2>1, <2>2 DEF ToRead, ToStore, Left
    <3>2. Len(j.kinds) # 1 /\ SeqToSet(j.kinds) \ {Head(j.kinds)} = SeqToSet(Tail(j.kinds))
      BY <1>0, <2>1, <3>1, RunningKinds DEF Running
    <3>3. /\ task'[t].pc = "read" /\ task'[t].kinds = Tail(j.kinds) /\ task'[t].op = j.op
          /\ task'[t].ids = j.ids /\ task'[t].keys = j.keys
      BY <1>0, <2>1, <3>2 DEF Jobs
    <3>4. k \in Left(t)'
      BY <3>1, <3>2, <3>3 DEF Left, SeqToSet
    <3>5. ToRead(t, w, k, key)'
      BY <1>c, <3>1, <3>3, <3>4 DEF ToRead
    <3> QED BY <3>5, ExcusePartsNext
  <2> QED BY <1>1, <1>a, <2>1, <2>2
<1>6. CASE Abort(t)
  <2> DEFINE keys == TaskKeys(t) \cup {db[id].key : id \in TaskIds(t) \cap InDb}
  <2>1. Blame(t[2], keys) /\ TaskKeys(t) \subseteq keys
    BY <1>6 DEF Abort
  <2>2. keys \in SUBSET AllKeys
    BY <1>0 DEF TInv, Types, InDb
  <2> HIDE DEF keys
  <2>3. Kept
    BY <1>b, <2>1, <2>2
  <2> QED BY <1>1, <2>3
<1> QED BY <1>2, <1>3, <1>4, <1>5, <1>6

\* A boot has nothing in hand before it starts, and then it has everything to do.
LEMMA BootKeeps ==
  ASSUME SyncInv, NEW w \in Workers, FlushAndCache(w)
  PROVE  EntryInv' /\ RowInv'
<1> DEFINE t == <<Boot, w>>
<1>0. TInv /\ EntryInv /\ RowInv /\ task \in [Tasks -> Jobs]
  BY DEF SyncInv, TInv, Types
<1>1. t \in Tasks /\ t[1] = Boot /\ t[2] = w
  BY DEF Tasks
<1>2. /\ task[t].pc = "none" /\ UNCHANGED <<table, db, req, cause, clash>>
      /\ task'[t] = [task[t] EXCEPT !.pc = "read", !.kinds = Kinds]
      /\ \A u \in Tasks \ {t} : task'[u] = task[u]
  BY <1>0, <1>1 DEF FlushAndCache, Launch
<1>3. sd' = [sd EXCEPT ![w] = [k \in AllKinds |-> [key \in AllKeys |-> Absent]]]
  BY DEF FlushAndCache
<1> HIDE DEF t
<1>4. /\ task'[t].pc = "read" /\ task'[t].kinds = Kinds /\ task'[t].op = "update"
  <2>1. task[t] \in Jobs /\ task[t].op = "update"
    BY <1>0, <1>1 DEF TInv, Told, ToldAt
  <2> QED BY <1>2, <2>1 DEF Jobs
<1>5. Kept
  <2> SUFFICES ASSUME NEW v \in Workers, NEW k \in KindSet, NEW key \in AllKeys, Excused(v, k, key)
               PROVE  Excused(v, k, key)'
    BY <1>2, SameDb DEF Kept
  <2>1. ~(ToRead(t, v, k, key) \/ ToStore(t, v, k, key))
    BY <1>2 DEF ToRead, ToStore, Left
  <2> QED BY <1>0, <1>1, <1>2, <2>1, TaskKeeps
<1>6. \A u \in Tasks : Holding(u)
  BY <1>2, <1>4 DEF Holding
<1>7. ASSUME NEW v \in Workers, NEW k \in KindSet, NEW key \in AllKeys
      PROVE  \/ sd'[v][k][key] = sd[v][k][key] \/ Excused(v, k, key)'
             \/ Right(key, sd[v][k][key])'
  <2>0. k \in AllKinds
    BY <1>0, KindFacts DEF TInv, Types
  <2>1. CASE v # w
    BY <1>0, <1>3, <2>1 DEF TInv, Types
  <2>2. CASE v = w /\ IdsAt(key) = {}
    <3>1. sd'[v][k][key] = Absent
      BY <1>0, <1>3, <2>0, <2>2 DEF TInv, Types
    <3>2. IdsAt(key)' = {}
      BY <1>2, <2>2, SameDb DEF Steady
    <3> QED BY <3>1, <3>2 DEF Right
  <2>3. CASE v = w /\ IdsAt(key) # {}
    <3>1. TaskIds(t)' = Ids /\ TaskKeys(t)' = AllKeys
      BY <1>1 DEF TaskIds, TaskKeys, IsBoot
    <3>2. k \in Left(t)'
      BY <1>0, <1>2, <1>4, KindFacts DEF Left, SeqToSet, TInv, Types
    <3>3. IdsAt(key)' # {} /\ IdsAt(key)' \subseteq Ids
      BY <1>2, <2>3, SameDb DEF Steady, IdsAt, InDb
    <3>4. ToRead(t, v, k, key)'
      BY <1>1, <1>4, <2>3, <3>1, <3>2, <3>3 DEF ToRead, Fits
    <3> QED BY <1>1, <3>4, ExcusePartsNext
  <2> QED BY <2>1, <2>2, <2>3
<1>8. EntryInv'
  BY <1>0, <1>2, <1>5, <1>7, EntryKept
<1>9. RowInv'
  BY <1>0, <1>5, <1>6, RowsKept
<1> QED BY <1>8, <1>9

LEMMA EvictKeeps ==
  ASSUME SyncInv, NEW w \in Workers, NEW k \in AllKinds, NEW key \in AllKeys, Evict(w, k, key)
  PROVE  EntryInv' /\ RowInv'
<1>0. /\ TInv /\ EntryInv /\ RowInv /\ cause \in [Workers -> SUBSET Entries]
      /\ sd \in [Workers -> [AllKinds -> [AllKeys -> Values]]]
  BY DEF SyncInv, TInv, Types
<1>1. /\ UNCHANGED <<table, db, req, task, clash>>
      /\ sd' = [sd EXCEPT ![w][k][key] = Absent]
      /\ cause' = [cause EXCEPT ![w] = cause[w] \cup {<<k, key>>}]
  BY DEF Evict
<1>2. \A v \in Workers : cause[v] \subseteq cause'[v]
  BY <1>0, <1>1
<1>3. Kept
  <2> SUFFICES ASSUME NEW v \in Workers, NEW l \in KindSet, NEW c \in AllKeys, Excused(v, l, c)
               PROVE  Excused(v, l, c)'
    BY <1>1, SameDb DEF Kept
  <2>1. CASE \E r \in Reqs : \E i \in 1 .. req[r].next - 1 : WroteAt(r, i, c)
    <3>1. \E r \in Reqs : \E i \in 1 .. req'[r].next - 1 : WroteAt(r, i, c)'
      BY <1>1, <2>1, SameRequest, SameDb
    <3> QED BY <3>1, ExcusePartsNext
  <2>2. CASE \E t \in Tasks : ToRead(t, v, l, c) \/ ToStore(t, v, l, c)
    <3>1. PICK t \in Tasks : ToRead(t, v, l, c) \/ ToStore(t, v, l, c)
      BY <2>2
    <3>2. Alike(t) /\ task'[t].rows = task[t].rows /\ Steady(c)
      BY <1>1, SameDb DEF Alike
    <3>3. ToRead(t, v, l, c)' \/ ToStore(t, v, l, c)'
      BY <1>1, <3>1, <3>2, SameTask
    <3> QED BY <3>3, ExcusePartsNext
  <2>3. CASE <<l, c>> \in cause[v] \/ c \in clash
    BY <1>1, <1>2, <2>3, ExcusePartsNext
  <2> QED BY <2>1, <2>2, <2>3, ExcuseParts
<1>4. ASSUME NEW v \in Workers, NEW l \in KindSet, NEW c \in AllKeys
      PROVE  \/ sd'[v][l][c] = sd[v][l][c] \/ Excused(v, l, c)'
             \/ Right(c, sd[v][l][c])'
  <2>0. l \in AllKinds
    BY <1>0, KindFacts DEF TInv, Types
  <2>1. CASE v = w /\ l = k /\ c = key
    <3>1. <<l, c>> \in cause'[v]
      BY <1>0, <1>1, <2>1
    <3> QED BY <3>1, ExcusePartsNext
  <2>2. CASE ~(v = w /\ l = k /\ c = key)
    BY <1>0, <1>1, <2>0, <2>2
  <2> QED BY <2>1, <2>2
<1>5. EntryInv'
  BY <1>0, <1>1, <1>3, <1>4, EntryKept
<1>6. \A t \in Tasks : Holding(t)
  BY <1>1 DEF Holding
<1> QED BY <1>0, <1>3, <1>5, <1>6, RowsKept

\* Storing a row takes the excuse of its entry only if the entry is right then, and
\* the handlers that could spoil it again have taken note.
LEMMA SetKeeps ==
  ASSUME SyncInv, NEW t \in Tasks, SetEntry(t)
  PROVE  EntryInv' /\ RowInv'
<1> DEFINE w == t[2]
           kk == Head(task[t].kinds)
<1>0. /\ TInv /\ EntryInv /\ RowInv /\ task[t].pc = "set" /\ UNCHANGED <<table, db, req, clash>>
      /\ cause \in [Workers -> SUBSET Entries] /\ w \in Workers /\ task[t] \in Jobs
      /\ sd \in [Workers -> [AllKinds -> [AllKeys -> Values]]]
  BY TaskTypes DEF SyncInv, TInv, Types, SetEntry
<1>1. PICK row \in task[t].rows :
        /\ sd' = [sd EXCEPT ![w][kk][row[1]] = row[2]]
        /\ task' = Stored(t, row)
        /\ cause' = [cause EXCEPT ![w] =
                       IF Right(row[1], row[2]) THEN cause[w] \ {<<kk, row[1]>>}
                       ELSE IF IsDelete(t) \/ <<kk, row[1]>> \in task[t].met
                         THEN cause[w] \cup {<<kk, row[1]>>} ELSE cause[w]]
  BY DEF SetEntry
<1>2. kk \in KindSet /\ kk \in AllKinds /\ row[1] \in AllKeys
  <2>1. kk \in KindSet /\ KindSet \subseteq AllKinds
    BY <1>0, RunningKinds, KindFacts DEF Running, TInv, Types
  <2>2. row \in AllKeys \X Values
    BY <1>0 DEF Jobs
  <2> QED BY <2>1, <2>2
<1> DEFINE e == <<kk, row[1]>>
           new == IF Right(row[1], row[2]) THEN cause[w] \ {e}
                  ELSE IF IsDelete(t) \/ e \in task[t].met THEN cause[w] \cup {e} ELSE cause[w]
<1>3. /\ cause'[w] = new /\ \A v \in Workers \ {w} : cause'[v] = cause[v]
  BY <1>0, <1>1
<1>4. \A u \in Tasks : /\ Alike(u)
                       /\ task'[u].rows = IF u = t THEN task[u].rows \ {row} ELSE task[u].rows
                       /\ task[u].met \subseteq task'[u].met
                       /\ u # t /\ u[2] = w /\ task[u].pc = "set" => e \in task'[u].met
  BY <1>0, <1>1, StoredEffect DEF Alike
<1>5. \A key : Steady(key)
  BY <1>0, SameDb
<1>6. \A row1, row2 \in task[t].rows : row1[1] = row2[1] => row1 = row2 \/ row1[1] \in clash
  BY <1>0 DEF TInv, Hands, HandAt
<1> HIDE DEF w, kk, e, new
\* The excuses of all entries stay, but for that of an entry that is right now.
<1>7. ASSUME NEW v \in Workers, NEW k \in KindSet, NEW key \in AllKeys, Excused(v, k, key),
             ~(v = w /\ k = kk /\ key = row[1] /\ Right(row[1], row[2]))
      PROVE  Excused(v, k, key)'
  <2>1. CASE \E r \in Reqs : \E i \in 1 .. req[r].next - 1 : WroteAt(r, i, key)
    <3>1. \E r \in Reqs : \E i \in 1 .. req'[r].next - 1 : WroteAt(r, i, key)'
      BY <1>0, <1>5, <2>1, SameRequest
    <3> QED BY <3>1, ExcusePartsNext
  <2>2. CASE \E u \in Tasks : ToRead(u, v, k, key)
    <3>1. \E u \in Tasks : ToRead(u, v, k, key)'
      BY <1>0, <1>4, <1>5, <2>2, SameTask
    <3> QED BY <3>1, ExcusePartsNext
  <2>3. CASE \E u \in Tasks : ToStore(u, v, k, key)
    <3>1. PICK u \in Tasks : ToStore(u, v, k, key)
      BY <2>3
    <3>2. CASE u # t
      <4>1. ToStore(u, v, k, key)'
        BY <1>0, <1>4, <1>5, <3>1, <3>2, SameTask
      <4> QED BY <4>1, ExcusePartsNext
    <3>3. CASE u = t
      <4>1. v = w /\ k = kk
        BY <3>1, <3>3 DEF ToStore, w, kk
      <4>2. PICK other \in task[t].rows : other[1] = key /\ Right(key, other[2])
        BY <3>1, <3>3 DEF ToStore
      <4>3. other # row
        BY <1>7, <4>1, <4>2
      <4>4. CASE key = row[1]
        <5>1. key \in clash
          BY <1>6, <4>2, <4>3, <4>4
        <5> QED BY <1>0, <5>1, ExcusePartsNext
      <4>5. CASE key # row[1]
        <5>1. other \in task'[t].rows /\ Right(key, other[2])'
          BY <1>4, <1>5, <4>2, <4>3, SteadyFacts
        <5>2. TaskKeys(t)' = TaskKeys(t)
          BY <1>4 DEF Alike, TaskKeys
        <5>3. ToStore(t, v, k, key)'
          BY <1>4, <3>1, <3>3, <4>2, <5>1, <5>2 DEF ToStore, Alike
        <5> QED BY <5>3, ExcusePartsNext
      <4> QED BY <4>4, <4>5
    <3> QED BY <3>2, <3>3
  <2>4. CASE <<k, key>> \in cause[v] \/ key \in clash
    <3>1. <<k, key>> \in cause[v] => <<k, key>> \in cause'[v]
      <4>1. CASE v # w
        BY <1>3, <4>1
      <4>2. CASE v = w /\ Right(row[1], row[2])
        <5>1. <<k, key>> # e
          BY <1>7, <4>2 DEF e
        <5> QED BY <1>3, <4>2, <5>1 DEF new
      <4>3. CASE v = w /\ ~Right(row[1], row[2])
        BY <1>3, <4>3 DEF new
      <4> QED BY <4>1, <4>2, <4>3
    <3> QED BY <1>0, <2>4, <3>1, ExcusePartsNext
  <2> QED BY <1>7, <2>1, <2>2, <2>3, <2>4, ExcuseParts
<1>8. EntryInv'
  <2> SUFFICES ASSUME NEW v \in Workers, NEW k \in KindSet, NEW key \in AllKeys
               PROVE  Right(key, sd[v][k][key])' \/ Excused(v, k, key)'
    BY <1>0, SameTable DEF EntryInv
  <2>0. k \in AllKinds
    BY <1>0, KindFacts DEF TInv, Types
  <2>1. CASE v = w /\ k = kk /\ key = row[1]
    <3>1. sd'[v][k][key] = row[2]
      BY <1>0, <1>1, <1>2, <2>1
    <3>2. CASE Right(row[1], row[2])
      BY <1>5, <2>1, <3>1, <3>2 DEF Right, Steady
    <3>3. CASE ~Right(row[1], row[2])
      <4>1. IsDelete(t) \/ e \in task[t].met \/ Excused(v, k, key)
        BY <1>0, <2>1, <3>3 DEF RowInv, e, w, kk
      <4>2. CASE IsDelete(t) \/ e \in task[t].met
        <5>1. <<k, key>> \in cause'[v]
          BY <1>3, <2>1, <3>3, <4>2 DEF new, e
        <5> QED BY <5>1, ExcusePartsNext
      <4>3. CASE Excused(v, k, key)
        BY <1>7, <3>3, <4>3
      <4> QED BY <4>1, <4>2, <4>3
    <3> QED BY <3>2, <3>3
  <2>2. CASE ~(v = w /\ k = kk /\ key = row[1])
    <3>1. sd'[v][k][key] = sd[v][k][key]
      BY <1>0, <1>1, <1>2, <2>0, <2>2
    <3>2. Right(key, sd[v][k][key]) \/ Excused(v, k, key)
      BY <1>0 DEF EntryInv
    <3>3. CASE Excused(v, k, key)
      BY <1>7, <2>2, <3>3
    <3>4. CASE Right(key, sd[v][k][key])
      BY <1>5, <3>1, <3>4 DEF Right, Steady
    <3> QED BY <3>2, <3>3, <3>4
  <2> QED BY <2>1, <2>2
<1>9. ASSUME NEW u \in Tasks, task'[u].pc = "set", NEW other \in task'[u].rows
      PROVE  Harmless(u, other)'
  <2>1. /\ task[u].pc = "set" /\ task'[u].kinds = task[u].kinds /\ task'[u].op = task[u].op
        /\ task[u].met \subseteq task'[u].met /\ other \in task[u].rows
    BY <1>4, <1>9 DEF Alike
  <2>2. Head(task[u].kinds) \in KindSet /\ u[2] \in Workers /\ other[1] \in AllKeys
    <3>1. Head(task[u].kinds) \in KindSet
      BY <1>0, <2>1, RunningKinds DEF Running
    <3>2. task[u] \in Jobs /\ u[2] \in Workers
      BY <1>0, TaskTypes
    <3>3. other \in AllKeys \X Values
      BY <2>1, <3>2 DEF Jobs
    <3> QED BY <3>1, <3>2, <3>3
  <2>3. PICK k \in KindSet, v \in Workers, key \in AllKeys, value \in {other[2]} :
          k = Head(task[u].kinds) /\ v = u[2] /\ key = other[1]
    BY <2>2
  <2>4. CASE v = w /\ k = kk /\ key = row[1]
    <3>1. CASE u # t
      <4>1. <<k, key>> \in task'[u].met
        BY <1>4, <2>1, <2>3, <2>4, <3>1 DEF e
      <4> QED BY <2>1, <2>3, <4>1 DEF Harmless
    <3>2. CASE u = t
      <4>1. other # row
        BY <1>4, <1>9, <3>2
      <4>2. key \in clash
        BY <1>6, <2>1, <2>3, <2>4, <3>2, <4>1
      <4>3. Excused(v, k, key)'
        BY <1>0, <4>2, ExcusePartsNext
      <4> QED BY <2>1, <2>3, <4>3 DEF Harmless
    <3> QED BY <3>1, <3>2
  <2>5. CASE ~(v = w /\ k = kk /\ key = row[1])
    <3>1. Right(key, value) \/ IsDelete(u) \/ <<k, key>> \in task[u].met \/ Excused(v, k, key)
      BY <1>0, <2>1, <2>3 DEF RowInv
    <3>2. Right(key, value)' \/ IsDelete(u) \/ <<k, key>> \in task[u].met \/ Excused(v, k, key)'
      BY <1>5, <1>7, <2>5, <3>1, SteadyFacts
    <3> QED BY <2>1, <2>3, <3>2 DEF Harmless, IsDelete
  <2> QED BY <2>4, <2>5
<1>10. RowInv'
  BY <1>9 DEF RowInv, Harmless
<1> QED BY <1>8, <1>10

\* The rows just read are right, or to be deleted.
LEMMA ReadHarmless ==
  ASSUME TInv, NEW t \in Tasks, ReadRows(t), task'[t].pc = "set", NEW row \in task'[t].rows
  PROVE  Harmless(t, row)'
<1>1. task[t] \in Jobs /\ task \in [Tasks -> Jobs]
  BY DEF TInv, Types
<1>2. /\ db' = db
      /\ task'[t] = IF RowMissing(t) THEN NoTask
                    ELSE [task[t] EXCEPT !.pc = "set", !.rows = RowsFor(t), !.met = {}]
  BY <1>1 DEF ReadRows
<1>3. task'[t].rows = RowsFor(t) /\ task'[t].op = task[t].op
  BY <1>1, <1>2, BlankTypes DEF Jobs
<1>4. IsDelete(t)' = IsDelete(t)
  BY <1>3 DEF IsDelete
<1>5. CASE IsDelete(t)
  BY <1>4, <1>5 DEF Harmless
<1>6. CASE ~IsDelete(t)
  <2>1. Right(row[1], row[2])
    BY <1>3, <1>6, RowsForTypes
  <2>2. Right(row[1], row[2])'
    BY <1>2, <2>1, SameDb DEF Steady, Right
  <2> QED BY <2>2 DEF Harmless
<1> QED BY <1>5, <1>6

LEMMA TaskStepKeeps ==
  ASSUME SyncInv, NEW t \in Tasks,
         Deliver(t) \/ Lose(t) \/ ReadRows(t) \/ NextKind(t) \/ Abort(t)
  PROVE  EntryInv' /\ RowInv'
<1>1. TInv /\ EntryInv /\ RowInv /\ task \in [Tasks -> Jobs] /\ task[t] \in Jobs
  BY DEF SyncInv, TInv, Types
<1>2. Kept /\ UNCHANGED <<table, db, sd, clash>> /\ \A u \in Tasks \ {t} : task'[u] = task[u]
  BY TaskSteps
<1>3. EntryInv'
  BY <1>1, <1>2, EntryKept
<1>4. ASSUME NEW u \in Tasks, task'[u].pc = "set", NEW row \in task'[u].rows
      PROVE  Harmless(u, row)'
  <2>1. CASE u # t
    <3>1. Holding(u)
      BY <1>2, <2>1 DEF Holding
    <3> QED BY <1>1, <1>2, <1>4, <3>1, HarmlessKept
  <2>2. CASE u = t /\ ReadRows(t)
    BY <1>1, <1>4, <2>2, ReadHarmless
  <2>3. CASE u = t /\ ~ReadRows(t)
    <3>1. task'[t].pc \in {"none", "read"}
      <4>1. CASE Deliver(t)
        BY <1>1, <4>1 DEF Deliver, Launch, Jobs
      <4>2. CASE Lose(t) \/ Abort(t)
        BY <1>1, <4>2, BlankTypes DEF Lose, Abort
      <4>3. CASE NextKind(t)
        <5>1. task'[t] = IF Len(task[t].kinds) = 1 THEN NoTask
                         ELSE [task[t] EXCEPT !.pc = "read", !.kinds = Tail(task[t].kinds)]
          BY <1>1, <4>3 DEF NextKind
        <5> QED BY <1>1, <5>1, BlankTypes DEF Jobs
      <4> QED BY <2>3, <4>1, <4>2, <4>3
    <3> QED BY <1>4, <2>3, <3>1
  <2> QED BY <2>1, <2>2, <2>3
<1>5. RowInv'
  BY <1>4 DEF RowInv, Harmless
<1> QED BY <1>3, <1>5

LEMMA CenterStepKeeps ==
  ASSUME SyncInv, NEW r \in Reqs, Begin(r) \/ Center(r)
  PROVE  EntryInv' /\ RowInv'
<1>1. TInv /\ EntryInv /\ RowInv
  BY DEF SyncInv
<1>2. Kept /\ table' = table /\ sd' = sd /\ \A t \in Tasks : Holding(t)
  BY CenterKeeps
<1>3. EntryInv'
  BY <1>1, <1>2, EntryKept
<1> QED BY <1>1, <1>2, <1>3, RowsKept

LEMMA StutterKeeps == SyncInv /\ UNCHANGED vars => EntryInv' /\ RowInv'
<1> SUFFICES ASSUME SyncInv, UNCHANGED vars PROVE EntryInv' /\ RowInv'
  OBVIOUS
<1>1. UNCHANGED <<table, db, sd, req, task, cause, clash>> /\ TInv /\ EntryInv /\ RowInv
  BY DEF vars, SyncInv
<1>2. ASSUME NEW v \in Workers, NEW k \in KindSet, NEW key \in AllKeys, Excused(v, k, key)
      PROVE  Excused(v, k, key)'
  <2>0. Steady(key)
    BY <1>1, SameDb
  <2>1. CASE \E r \in Reqs : \E i \in 1 .. req[r].next - 1 : WroteAt(r, i, key)
    <3>1. \E r \in Reqs : \E i \in 1 .. req'[r].next - 1 : WroteAt(r, i, key)'
      BY <1>1, <2>0, <2>1, SameRequest
    <3> QED BY <3>1, ExcusePartsNext
  <2>2. CASE \E t \in Tasks : ToRead(t, v, k, key) \/ ToStore(t, v, k, key)
    <3>1. PICK t \in Tasks : ToRead(t, v, k, key) \/ ToStore(t, v, k, key)
      BY <2>2
    <3>2. Alike(t) /\ task'[t].rows = task[t].rows
      BY <1>1 DEF Alike
    <3>3. ToRead(t, v, k, key)' \/ ToStore(t, v, k, key)'
      BY <1>1, <2>0, <3>1, <3>2, SameTask
    <3> QED BY <3>3, ExcusePartsNext
  <2>3. CASE <<k, key>> \in cause[v] \/ key \in clash
    BY <1>1, <2>3, ExcusePartsNext
  <2> QED BY <1>2, <2>1, <2>2, <2>3, ExcuseParts
<1>3. Kept
  BY <1>1, <1>2, SameDb DEF Kept
<1>4. EntryInv'
  BY <1>1, <1>3, EntryKept
<1>5. \A t \in Tasks : Holding(t)
  BY <1>1 DEF Holding
<1> QED BY <1>1, <1>3, <1>4, <1>5, RowsKept

LEMMA StepSync == SyncInv /\ [Next]_vars => SyncInv'
<1> SUFFICES ASSUME SyncInv, [Next]_vars PROVE SyncInv'
  OBVIOUS
<1>1. TInv'
  BY StepTypes DEF SyncInv
<1>2. EntryInv' /\ RowInv'
  BY CenterStepKeeps, TaskStepKeeps, SetKeeps, BootKeeps, EvictKeeps, StutterKeeps DEF Next, Handler
<1> QED BY <1>1, <1>2 DEF SyncInv

LEMMA InitSync == Init => SyncInv
<1> SUFFICES ASSUME Init PROVE SyncInv
  OBVIOUS
<1>1. TInv
  BY InitTypes
<1>2. EntryInv
  <2> SUFFICES ASSUME NEW w \in Workers, NEW k \in KindSet, NEW key \in AllKeys
               PROVE  Right(key, sd[w][k][key])
    BY DEF EntryInv
  <2>0. k \in AllKinds
    BY <1>1, KindFacts DEF TInv, Types
  <2>1. sd[w][k][key] = IF IdsAt(key) # {} THEN <<CHOOSE id \in IdsAt(key) : TRUE, Seed>> ELSE Absent
    BY <2>0 DEF Init
  <2>2. \A id \in InDb : db[id].by = Seed
    BY DEF Init, InDb
  <2>3. CASE IdsAt(key) = {}
    BY <2>1, <2>3 DEF Right
  <2>4. CASE IdsAt(key) # {}
    <3>1. PICK id \in IdsAt(key) : id = CHOOSE i \in IdsAt(key) : TRUE
      BY <2>4
    <3>2. sd[w][k][key] = <<id, Seed>>
      BY <2>1, <2>4, <3>1
    <3>3. db[id].by = Seed
      BY <2>2, <3>1 DEF IdsAt
    <3> QED BY <3>1, <3>2, <3>3 DEF Right
  <2> QED BY <2>3, <2>4
<1>3. RowInv
  BY BlankTypes DEF Init, RowInv
<1> QED BY <1>1, <1>2, <1>3 DEF SyncInv

-----------------------------------------------------------------------------
(* Theorems *)

\* The inductive invariant: an entry, and a row that a handler has in hand, is
\* right, or a request or a handler that will put it right is on its way, or it
\* has a cause (center.lua:47-159, sax.lua:47-86, object.lua:75-119).
THEOREM SyncRight == Spec => []SyncInv
<1>1. Init => SyncInv
  BY InitSync
<1>2. SyncInv /\ [Next]_vars => SyncInv'
  BY StepSync
<1> QED BY <1>1, <1>2, PTL DEF Spec

\* For every number of objects, keys, workers and requests, rows and dict entries
\* hold what some request has written, or nothing, and an entry is filed under a
\* key that such objects can have (db.lua:258-346, object.lua:23-37).
THEOREM SyncTypeCorrect == Spec => []TypeOK
<1>1. SyncInv => TypeOK
  <2> SUFFICES ASSUME SyncInv PROVE TypeOK
    OBVIOUS
  <2>1. Types /\ SdFiled
    BY DEF SyncInv, TInv
  <2>2. \A r \in Reqs : req[r].pc \in {"idle", "check", "write", "done"}
    BY <2>1 DEF Types, Requests
  <2>3. \A t \in Tasks : task[t].pc \in {"none", "sent", "read", "set"}
    BY <2>1 DEF Types, Jobs
  <2>4. \A w \in Workers, e \in Entries :
          sd[w][e[1]][e[2]] # Absent => e[1] \in KindSet /\ e[2] \in KeysOf(sd[w][e[1]][e[2]][1])
    BY <2>1 DEF SdFiled, Filed, Entries
  <2> QED BY <2>1, <2>2, <2>3, <2>4 DEF TypeOK, Types, Values
<1> QED BY <1>1, SyncRight, PTL

\* However requests, handlers, boots, losses, failures and evictions interleave, a
\* dict entry differs from the rows only while a change is under way or for one
\* of the known causes (center.lua:84-159, sax.lua:47-86, object.lua:75-114,
\* creative.lua:87-92).
THEOREM SyncStaleHasCause == Spec => []StaleHasCause
<1>1. SyncInv => StaleHasCause
  <2> SUFFICES ASSUME SyncInv, NEW w \in Workers, NEW k \in KindSet, NEW key \in AllKeys,
                      ~Right(key, sd[w][k][key])
               PROVE  Underway(w, key) \/ <<k, key>> \in cause[w] \/ key \in clash
    BY DEF StaleHasCause
  <2>1. Excused(w, k, key)
    BY DEF SyncInv, EntryInv
  <2>2. CASE Wrote(key)
    BY <2>2 DEF Wrote, Underway
  <2>3. CASE Notified(w, k, key)
    BY <2>3 DEF Notified, Left, Underway
  <2>4. CASE InHand(w, k, key)
    BY <2>4 DEF InHand, Underway
  <2> QED BY <2>1, <2>2, <2>3, <2>4 DEF Excused
<1> QED BY <1>1, SyncRight, PTL

=============================================================================
