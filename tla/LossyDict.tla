------------------------------ MODULE LossyDict ------------------------------
(***************************************************************************)
(* What a lua_shared_dict promises to the Lua code that calls it (util.lua *)
(* getDict, setDict, addDict, incrDict, flushAllDict, flushExpiredDict).   *)
(*                                                                         *)
(* It is a dictionary that may forget, but only in these ways: an entry    *)
(* with an expiry time may be gone at any moment, or be missed by one      *)
(* process and still be seen by another; an entry without one goes only    *)
(* when its own key is written, when all keys are flushed, or when a store *)
(* reports that it had to make room by force.  What a call returns is what *)
(* was stored last, never an older value.                                  *)
(***************************************************************************)
EXTENDS Integers, FiniteSets

CONSTANTS Keys,     \* keys of the dictionary
          Data,     \* strings that may be stored
          Numbers,  \* numbers that may be stored
          Nil       \* no entry; the nil the API returns

VARIABLES store,  \* store[k]: the entry of k, a value and whether it may expire
          reply   \* what the last call returned

lossyVars == <<store, reply>>

Values == Data \cup Numbers
Entry == [value : Values, mortal : BOOLEAN]

\* A call returns a value, or says how it went; a store adds the forcible flag.
Answer(o, k, v, s, f) == [op |-> o, key |-> k, value |-> v, status |-> s, forced |-> f]
NoReply == Answer("none", Nil, Nil, "ok", FALSE)

Init == /\ store = [k \in Keys |-> Nil]
        /\ reply = NoReply

-----------------------------------------------------------------------------
Mortal == {k \in Keys : store[k] # Nil /\ store[k].mortal}

\* What a call may do to the keys it was not asked to change: lose some of lost.
Kept(keys, lost) ==
  /\ store' \in [Keys -> Entry \cup {Nil}]
  /\ \A k \in keys : store'[k] = store[k] \/ (k \in lost /\ store'[k] = Nil)

Lose(lost) == Kept(Keys, lost)
LoseAnd(lost, k, e) == store'[k] = e /\ Kept(Keys \ {k}, lost)

\* The caller may be told that there is no such key.
Missing(k) == store[k] = Nil \/ k \in Mortal

Get(k) ==
  \E v \in Values \cup {Nil} :
    /\ reply' = Answer("get", k, v, "ok", FALSE)
    /\ IF v = Nil THEN Missing(k) ELSE store[k] # Nil /\ store[k].value = v
    /\ Lose(Mortal)

\* A store succeeds or finds no memory; in both cases the old value is gone,
\* and so may be any other key if the store says that it used force.
Put(o, k, v) ==
  \E forced \in BOOLEAN :
    LET lost == IF forced THEN Keys ELSE Mortal
    IN  \/ /\ reply' = Answer(o, k, Nil, "ok", forced)
           /\ \E m \in BOOLEAN : LoseAnd(lost, k, [value |-> v, mortal |-> m])
        \/ /\ reply' = Answer(o, k, Nil, "no memory", forced)
           /\ LoseAnd(lost, k, Nil)

Set(k, v) == Put("set", k, v)

Delete(k) ==
  /\ reply' = Answer("delete", k, Nil, "ok", FALSE)
  /\ LoseAnd(Mortal, k, Nil)

Add(k, v) ==
  \/ Put("add", k, v) /\ Missing(k)
  \/ /\ reply' = Answer("add", k, Nil, "exists", FALSE)
     /\ store[k] # Nil
     /\ Lose(Mortal \ {k})

\* No increment is lost, and none gives a key a longer life.
Incr(k) ==
  \/ /\ reply' = Answer("incr", k, Nil, "not found", FALSE)
     /\ Missing(k)
     /\ Lose(Mortal)
  \/ /\ reply' = Answer("incr", k, Nil, "not a number", FALSE)
     /\ store[k] # Nil
     /\ store[k].value \in Data
     /\ Lose(Mortal \ {k})
  \/ \E n \in Numbers :
       /\ reply' = Answer("incr", k, n + 1, "ok", FALSE)
       /\ store[k] # Nil
       /\ store[k].value = n
       /\ LoseAnd(Mortal, k, [store[k] EXCEPT !.value = n + 1])

FlushAll ==
  /\ reply' = Answer("flush_all", Nil, Nil, "ok", FALSE)
  /\ store' = [k \in Keys |-> Nil]

FlushExpired ==
  /\ \E n \in 0 .. Cardinality(Keys) : reply' = Answer("flush_expired", Nil, n, "ok", FALSE)
  /\ Lose(Mortal)

\* Time passes.
Fade == UNCHANGED reply /\ Lose(Mortal)

Next ==
  \/ \E k \in Keys : Get(k) \/ Delete(k) \/ Incr(k)
  \/ \E k \in Keys, v \in Values : Set(k, v) \/ Add(k, v)
  \/ FlushAll \/ FlushExpired \/ Fade

Spec == Init /\ [][Next]_lossyVars

=============================================================================
