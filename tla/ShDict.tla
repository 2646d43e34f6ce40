-------------------------------- MODULE ShDict --------------------------------
(***************************************************************************)
(* The shared dictionaries sax, business and targeting (lua_shared_dict),  *)
(* as ngx_http_lua_shdict.c of the deployed OpenResty 1.7.2.1 keeps them:  *)
(* a tree of nodes, and a queue of the same nodes with the one used last   *)
(* at its head, in a slab of shared memory that may be full.               *)
(*                                                                         *)
(* The nginx processes of a host take turns under the slab's mutex, so     *)
(* each call is one step.  Their idea of the time is their own:            *)
(* ngx_timeofday returns what the process read in its last turn of the     *)
(* event loop.  replace, safe_set, safe_add, get_stale, get_keys and user  *)
(* flags, which nothing in this program uses, are left out.                *)
(***************************************************************************)
EXTENDS Integers, Sequences, FiniteSets, Functions

CONSTANTS Procs,     \* nginx processes
          Keys,      \* keys, none of them empty or too long
          Data,      \* strings
          MaxNum,    \* bound: numbers are 0 .. MaxNum
          Nil,
          Length,    \* Length[v]: bytes of the node for value v
          Capacity,  \* bytes of the slab
          MaxEvict,  \* rounds of forced eviction in one store (30 in the code)
          TTLs,      \* values of exptime, 0 for none
          MaxTime    \* bound: the time at which the clocks stop

Numbers == 0 .. MaxNum
Values == Data \cup Numbers
Stored == Data \cup {0}  \* bound: a number is stored as 0, and counted up from there
FirstTime == 2       \* any time later than 1, the time flush_all writes

ASSUME DictAssumption ==
  /\ MaxNum \in Nat /\ Capacity \in Nat /\ MaxEvict \in Nat
  /\ MaxTime \in Nat /\ MaxTime >= FirstTime
  /\ TTLs \subseteq Nat
  /\ IsFiniteSet(Keys)  \* a key has at most 65535 bytes
  /\ Data \cap Int = {} /\ Nil \notin Values \cup Keys
  /\ Nil \notin [value : Values, mortal : BOOLEAN]
  /\ Length \in [Values -> Nat]
  /\ \A m, n \in Numbers : Length[m] = Length[n]

VARIABLES tree,   \* tree[k]: the node of k; its domain is the keys that have one
          queue,  \* the same keys, the one used last first
          now,    \* now[p]: the time process p has cached
          reply,  \* what the last call returned
          used    \* all keys stored so far, by their last use (history)

vars == <<tree, queue, now, reply, used>>

Node == [value : Values, expires : Nat]

-----------------------------------------------------------------------------
(* Pure operations on a dictionary d, a record of a tree and a queue.      *)

Dict == [tree |-> tree, queue |-> queue]

\* Mutant: the node is put at the head and not taken from its old place.
InsertHead(d, k) == [d EXCEPT !.queue = <<k>> \o @]

\* Mutant: the node stays where it is in the queue.
LeaveInPlace(d, k) == d

\* The queue q without the nodes of some keys; the others keep their order.
Without(q, keys) ==
  LET kept[i \in 0 .. Len(q)] ==
        IF i = 0 THEN <<>>
        ELSE IF q[i] \in keys THEN kept[i - 1] ELSE Append(kept[i - 1], q[i])
  IN  kept[Len(q)]

ToHead(q, k) == <<k>> \o Without(q, {k})

Touch(d, k) == [d EXCEPT !.queue = ToHead(@, k)]

Free(d, keys) ==
  [tree |-> Restrict(d.tree, DOMAIN d.tree \ keys),
   queue |-> Without(d.queue, keys)]

\* Memory in use.
Bytes(d) == FoldFunction(LAMBDA node, n : Length[node.value] + n, 0, d.tree)

\* The keys of the last n nodes of the queue.
Oldest(d, n) == {d.queue[i] : i \in (Len(d.queue) - n + 1) .. Len(d.queue)}

Dead(node, t) == node.expires # 0 /\ node.expires <= t

\* ngx_http_lua_shdict_expire with n = 1 frees at most two nodes, from the tail,
\* and none behind one that has not expired.
Expirable(d, t) ==
  CHOOSE n \in 0 .. 2 :
    /\ n <= Len(d.queue)
    /\ \A k \in Oldest(d, n) : Dead(d.tree[k], t)
    /\ \/ n = 2 \/ n = Len(d.queue)
       \/ ~Dead(d.tree[d.queue[Len(d.queue) - n]], t)

Expire(d, t) == Free(d, Oldest(d, Expirable(d, t)))

\* The same with n = 0: the tail goes in any case.
ExpireForced(d, t) ==
  IF d.queue = <<>> THEN d ELSE Expire(Free(d, Oldest(d, 1)), t)

\* The dictionary after 0, 1, 2, ... rounds of forced eviction.
Evictions(d, t) ==
  LET after[i \in 0 .. MaxEvict] ==
        IF i = 0 THEN d ELSE ExpireForced(after[i - 1], t)
  IN  after

\* Mutant: a node that has expired is found.
LookupStale(d, k, t) == IF k \notin DOMAIN d.tree THEN "declined" ELSE "ok"

\* ngx_http_lua_shdict_lookup; a node it finds, expired or not, is touched.
Lookup(d, k, t) ==
  IF k \notin DOMAIN d.tree THEN "declined"
  ELSE IF d.tree[k].expires # 0 /\ d.tree[k].expires < t THEN "done"
  ELSE "ok"

Found(d, k) == IF k \in DOMAIN d.tree THEN Touch(d, k) ELSE d

\* Store the node: it may be there already.
Insert(d, k, node) ==
  [tree |-> [j \in DOMAIN d.tree \cup {k} |-> IF j = k THEN node ELSE d.tree[j]],
   queue |-> ToHead(d.queue, k)]

-----------------------------------------------------------------------------
(* What the callers may rely on: the dictionary implements LossyDict.      *)

\* Some process still sees the node.
Visible(k) ==
  /\ k \in DOMAIN tree
  /\ tree[k].expires = 0 \/ \E p \in Procs : tree[k].expires >= now[p]

Seen == [k \in Keys |-> IF Visible(k)
                          THEN [value |-> tree[k].value, mortal |-> tree[k].expires # 0]
                          ELSE Nil]

Lossy == INSTANCE LossyDict WITH store <- Seen

-----------------------------------------------------------------------------
(* The calls *)

Init ==
  /\ tree = <<>>
  /\ queue = <<>>
  /\ now = [p \in Procs |-> FirstTime]
  /\ reply = Lossy!NoReply
  /\ used = <<>>

\* A call on key k leaves dictionary d and returns v, status s and forced.
Finish(o, k, d, v, s, forced) ==
  /\ tree' = d.tree
  /\ queue' = d.queue
  /\ reply' = Lossy!Answer(o, k, v, s, forced)
  /\ used' = IF k \in DOMAIN d.tree THEN ToHead(used, k) ELSE used
  /\ UNCHANGED now

Get(p, k) ==
  LET d == Expire(Dict, now[p])
  IN  Finish("get", k, Found(d, k),
             IF Lookup(d, k, now[p]) = "ok" THEN d.tree[k].value ELSE Nil, "ok", FALSE)

\* The part of set_helper from the label replace on: a node of the same size is
\* used again; otherwise it is freed and a new one allocated.  The slab is not
\* only bytes but pages of slots, so an allocation that would fit may fail too.
\* The store then evicts and tries again, at most MaxEvict times.
Put(o, p, k, v, ttl, d) ==
  LET node == [value |-> v, expires |-> IF ttl > 0 THEN now[p] + ttl ELSE 0]
      without == Free(d, {k})
      evicted == Evictions(without, now[p])
      fits(e) == Bytes(e) + Length[v] <= Capacity
  IN  IF k \in DOMAIN d.tree /\ Length[d.tree[k].value] = Length[v]
        THEN Finish(o, k, Insert(d, k, node), Nil, "ok", FALSE)
        ELSE \/ /\ fits(without)
                /\ Finish(o, k, Insert(without, k, node), Nil, "ok", FALSE)
             \/ \E i \in 1 .. MaxEvict :
                  /\ evicted[i - 1].queue # <<>>
                  /\ fits(evicted[i])
                  /\ Finish(o, k, Insert(evicted[i], k, node), Nil, "ok", TRUE)
             \/ Finish(o, k, evicted[MaxEvict], Nil, "no memory", without.queue # <<>>)

\* set_helper for set and add, and for set with nil.
Set(p, k, v, ttl) ==
  Put("set", p, k, v, ttl, Found(Expire(Dict, now[p]), k))

Add(p, k, v, ttl) ==
  LET d == Expire(Dict, now[p])
  IN  IF Lookup(d, k, now[p]) = "ok"
        THEN Finish("add", k, Found(d, k), Nil, "exists", FALSE)
        ELSE Put("add", p, k, v, ttl, Found(d, k))

Delete(p, k) ==
  Finish("delete", k, Free(Expire(Dict, now[p]), {k}), Nil, "ok", FALSE)

Incr(p, k) ==
  LET d == Expire(Dict, now[p])
  IN  IF Lookup(d, k, now[p]) # "ok"
        THEN Finish("incr", k, Found(d, k), Nil, "not found", FALSE)
      ELSE IF d.tree[k].value \notin Numbers
        THEN Finish("incr", k, Found(d, k), Nil, "not a number", FALSE)
      ELSE /\ d.tree[k].value < MaxNum
           /\ Finish("incr", k,
                     Insert(d, k, [d.tree[k] EXCEPT !.value = @ + 1]),
                     d.tree[k].value + 1, "ok", FALSE)

\* Every node is marked as expired long ago; only a few are freed at once.
FlushAll(p) ==
  LET d == [Dict EXCEPT !.tree = [k \in DOMAIN tree |-> [tree[k] EXCEPT !.expires = 1]]]
  IN  Finish("flush_all", Nil, ExpireForced(d, now[p]), Nil, "ok", FALSE)

FlushExpired(p) ==
  LET dead == {k \in DOMAIN tree : Dead(tree[k], now[p])}
  IN  Finish("flush_expired", Nil, Free(Dict, dead), Cardinality(dead), "ok", FALSE)

\* Process p reads the clock.
Tick(p) ==
  /\ now[p] < MaxTime
  /\ now' = [now EXCEPT ![p] = @ + 1]
  /\ UNCHANGED <<tree, queue, reply, used>>

Next ==
  \E p \in Procs :
    \/ \E k \in Keys : Get(p, k) \/ Delete(p, k) \/ Incr(p, k)
    \/ \E k \in Keys, v \in Stored, ttl \in TTLs :
         Set(p, k, v, ttl) \/ Add(p, k, v, ttl)
    \/ FlushAll(p) \/ FlushExpired(p) \/ Tick(p)

Spec == Init /\ [][Next]_vars

-----------------------------------------------------------------------------
(* Properties *)

\* Every variable has its type, the queue links every node of the tree exactly
\* once, and the nodes fit into the slab (ngx_http_lua_shdict.c:231-286, 813-1122).
TypeOK ==
  /\ IsInjective(queue)
  /\ Range(queue) = DOMAIN tree
  /\ DOMAIN tree \subseteq Keys
  /\ Range(tree) \subseteq Node
  /\ Bytes(Dict) <= Capacity
  /\ now \in [Procs -> FirstTime .. MaxTime]

\* The dictionary is a LossyDict: no call ever returns an older value, loses an
\* increment, or finds a key after a flush or past its expiry time on every
\* clock; and an entry that does not expire is lost only to a store that says it
\* used force (ngx_http_lua_shdict.c:162-286, 380-675, 813-1228).
ImplementsLossyDict == Lossy!Spec

\* A store that makes room never takes an entry that has not expired while it
\* spares one that was used less recently: keys in steady use, such as the qps
\* limits, outlive the others (ngx_http_lua_shdict.c:197-198, 257-275).
LeastRecentlyUsedGoes ==
  [][\A j, k \in Range(queue) \ {reply'.key} :
       /\ j \notin DOMAIN tree' /\ k \in DOMAIN tree'
       /\ \A p \in Procs : tree[j].expires = 0 \/ tree[j].expires > now[p]
       => \/ reply'.op = "flush_all"
          \/ \E m, n \in DOMAIN used : m < n /\ used[m] = k /\ used[n] = j]_vars

=============================================================================
