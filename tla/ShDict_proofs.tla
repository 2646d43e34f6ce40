----------------------------- MODULE ShDict_proofs -----------------------------
(***************************************************************************)
(* Proofs about ShDict, for any number of processes, any finite set of     *)
(* keys, any values and any size of the slab: the queue links the tree and *)
(* everything fits, the least recently used entries go, and the dictionary *)
(* implements LossyDict.                                                   *)
(***************************************************************************)
EXTENDS ShDict, FiniteSetTheorems, WellFoundedInduction, SequenceTheorems, TLAPS

-----------------------------------------------------------------------------
(* What the proofs are about *)

\* a is nearer to the head of q than b.
Before(q, a, b) == \E m, n \in DOMAIN q : m < n /\ q[m] = a /\ q[n] = b

\* A dictionary whose queue links every node of its tree exactly once.
Good(d) ==
  /\ d = [tree |-> d.tree, queue |-> d.queue]
  /\ d.queue \in Seq(Keys)
  /\ IsInjective(d.queue)
  /\ d.tree \in [Range(d.queue) -> Node]

\* The order of the queue is the order of use.
InOrderOfUse ==
  /\ used \in Seq(Keys)
  /\ Range(queue) \subseteq Range(used)
  /\ \A a, b \in Keys : Before(queue, a, b) => Before(used, a, b)

\* The inductive invariant.
DictInv ==
  /\ Good(Dict)
  /\ Bytes(Dict) <= Capacity
  /\ now \in [Procs -> FirstTime .. MaxTime]
  /\ InOrderOfUse

-----------------------------------------------------------------------------
(* Induction over the natural numbers, stated with a set: the provers      *)
(* cannot instantiate the predicate of the library's theorem.              *)

\* A set of naturals that has 0 and is closed under successor has all: how the
\* loops over the queue are reasoned about (ngx_http_lua_shdict.c:252-283, 646-669).
LEMMA SetInduction ==
  ASSUME NEW S, 0 \in S, \A n \in Nat : n \in S => n + 1 \in S
  PROVE  Nat \subseteq S
<1> DEFINE T == Nat \ S
           Less == {p \in Nat \X Nat : p[1] < p[2]}
<1> SUFFICES ASSUME T # {} PROVE FALSE
  OBVIOUS
<1>1. IsWellFoundedOn(Less, Nat)
  BY NatLessThanWellFounded DEF OpToRel
<1>2. PICK x \in T : \A y \in T : ~(<<y, x>> \in Less)
  <2> HIDE DEF Less
  <2> QED BY <1>1, WFMin
<1>3. x \in Nat \ {0}
  OBVIOUS
<1>4. x - 1 \in T
  <2>1. x - 1 \in Nat /\ (x - 1) + 1 = x
    BY <1>3
  <2> QED BY <2>1
<1>5. <<x - 1, x>> \in Less
  BY <1>3
<1> QED BY <1>2, <1>4, <1>5

\* The same up to a bound: the end of the queue, or the number of rounds of
\* eviction (ngx_http_lua_shdict.c:1064).
LEMMA InductionTo ==
  ASSUME NEW N \in Nat, NEW S, 0 \in S, \A n \in 0 .. N - 1 : n \in S => n + 1 \in S
  PROVE  0 .. N \subseteq S
<1> DEFINE T == {n \in Nat : n <= N => n \in S}
<1>1. 0 \in T
  OBVIOUS
<1>2. ASSUME NEW n \in Nat, n \in T PROVE n + 1 \in T
  <2> SUFFICES ASSUME n + 1 <= N PROVE n + 1 \in S
    OBVIOUS
  <2>1. n \in 0 .. N - 1 /\ n <= N
    OBVIOUS
  <2>2. n \in S
    BY <1>2, <2>1
  <2> QED BY <2>1, <2>2
<1>3. Nat \subseteq T
  <2> HIDE DEF T
  <2> QED BY <1>1, <1>2, SetInduction
<1> QED BY <1>3

\* g[i] is where a loop is after i turns: turn i takes x to f[i][x].
Loop(a, f, n, g) == g[0] = a /\ \A i \in 1 .. n : g[i] = f[i][g[i - 1]]

\* A loop that runs N times has a result at every turn.
\* Both loops of the model are of this form (ngx_http_lua_shdict.c:646-669, 1064-1075).
LEMMA LoopRuns ==
  ASSUME NEW D, NEW a \in D, NEW N \in Nat, NEW f \in [1 .. N -> [D -> D]]
  PROVE  \E g \in [0 .. N -> D] : Loop(a, f, N, g)
<1> DEFINE S == {n \in 0 .. N : \E g \in [0 .. N -> D] : Loop(a, f, n, g)}
<1>1. 0 \in S
  <2>1. [i \in 0 .. N |-> a] \in [0 .. N -> D] /\ Loop(a, f, 0, [i \in 0 .. N |-> a])
    BY DEF Loop
  <2> QED BY <2>1
<1>2. ASSUME NEW n \in 0 .. N - 1, n \in S PROVE n + 1 \in S
  <2>1. PICK g \in [0 .. N -> D] : Loop(a, f, n, g)
    BY <1>2
  <2>2. n \in 0 .. N /\ n + 1 \in 1 .. N /\ n + 1 \in 0 .. N
    OBVIOUS
  <2> DEFINE h == [g EXCEPT ![n + 1] = f[n + 1][g[n]]]
  <2>3. h \in [0 .. N -> D]
    BY <2>2
  <2>4. Loop(a, f, n + 1, h)
    <3>1. h[0] = a
      BY <2>1, <2>2 DEF Loop
    <3>2. ASSUME NEW i \in 1 .. n + 1 PROVE h[i] = f[i][h[i - 1]]
      <4>1. CASE i = n + 1
        BY <2>2, <4>1
      <4>2. CASE i # n + 1
        <5>1. i \in 1 .. n /\ i \in 0 .. N /\ i - 1 \in 0 .. N /\ i - 1 # n + 1
          BY <2>2, <4>2
        <5> QED BY <2>1, <4>2, <5>1 DEF Loop
      <4> QED BY <4>1, <4>2
    <3> QED BY <3>1, <3>2 DEF Loop
  <2> HIDE DEF h
  <2> QED BY <2>2, <2>3, <2>4
<1>3. N \in S
  <2> HIDE DEF S
  <2>1. 0 .. N \subseteq S
    BY <1>1, <1>2, InductionTo
  <2> QED BY <2>1
<1> QED BY <1>3

-----------------------------------------------------------------------------
(* The queue *)

\* w has what the first i places of q have besides some keys, in the same order.
KeptOf(q, keys, i, w) ==
  /\ \A m \in 1 .. Len(w) : \E x \in 1 .. i : w[m] = q[x] /\ q[x] \notin keys
  /\ \A x \in 1 .. i : q[x] \notin keys => \E m \in 1 .. Len(w) : w[m] = q[x]
  /\ \A m, n \in 1 .. Len(w) : m < n =>
       \E x, y \in 1 .. i : x < y /\ w[m] = q[x] /\ w[n] = q[y]
  /\ \A x, y \in 1 .. i : x < y /\ q[x] \notin keys /\ q[y] \notin keys =>
       \E m, n \in 1 .. Len(w) : m < n /\ w[m] = q[x] /\ w[n] = q[y]

\* One turn of the loop (ngx_http_lua_shdict.c:646-669).
LEMMA KeptStep ==
  ASSUME NEW E, NEW q \in Seq(E), NEW keys, NEW i \in 1 .. Len(q),
         NEW w \in Seq(E), KeptOf(q, keys, i - 1, w)
  PROVE  KeptOf(q, keys, i, IF q[i] \in keys THEN w ELSE Append(w, q[i]))
<1>0. Len(q) \in Nat /\ q[i] \in E /\ Len(w) \in Nat
  OBVIOUS
<1>1. CASE q[i] \in keys
  <2>1. \A x \in 1 .. i : q[x] \notin keys => x \in 1 .. i - 1
    BY <1>0, <1>1
  <2>2. \A x \in 1 .. i - 1 : x \in 1 .. i
    BY <1>0
  <2>3. KeptOf(q, keys, i, w)
    <3>1. \A m \in 1 .. Len(w) : \E x \in 1 .. i : w[m] = q[x] /\ q[x] \notin keys
      BY <2>2 DEF KeptOf
    <3>2. \A x \in 1 .. i : q[x] \notin keys => \E m \in 1 .. Len(w) : w[m] = q[x]
      BY <2>1 DEF KeptOf
    <3>3. \A m, n \in 1 .. Len(w) : m < n =>
             \E x, y \in 1 .. i : x < y /\ w[m] = q[x] /\ w[n] = q[y]
      BY <2>2 DEF KeptOf
    <3>4. \A x, y \in 1 .. i : x < y /\ q[x] \notin keys /\ q[y] \notin keys =>
             \E m, n \in 1 .. Len(w) : m < n /\ w[m] = q[x] /\ w[n] = q[y]
      BY <2>1 DEF KeptOf
    <3> QED BY <3>1, <3>2, <3>3, <3>4 DEF KeptOf
  <2> QED BY <1>1, <2>3
<1>2. CASE q[i] \notin keys
  <2> DEFINE v == Append(w, q[i])
  <2>1. /\ v \in Seq(E) /\ Len(v) = Len(w) + 1 /\ v[Len(w) + 1] = q[i]
        /\ \A m \in 1 .. Len(w) : v[m] = w[m]
    BY <1>0
  <2> HIDE DEF v
  <2>2. \A m \in 1 .. Len(v) : m \in 1 .. Len(w) \/ m = Len(w) + 1
    BY <1>0, <2>1
  <2>3. \A m \in 1 .. Len(w) : m \in 1 .. Len(v)
    BY <1>0, <2>1
  <2>4. Len(w) + 1 \in 1 .. Len(v) /\ \A m \in 1 .. Len(w) : m < Len(w) + 1
    BY <1>0, <2>1
  <2>5. /\ \A x \in 1 .. i : x \in 1 .. i - 1 \/ x = i
        /\ \A x \in 1 .. i - 1 : x \in 1 .. i /\ x < i
        /\ i \in 1 .. i
    BY <1>0
  <2>6. \A m \in 1 .. Len(v) : \E x \in 1 .. i : v[m] = q[x] /\ q[x] \notin keys
    <3> SUFFICES ASSUME NEW m \in 1 .. Len(v)
                 PROVE  \E x \in 1 .. i : v[m] = q[x] /\ q[x] \notin keys
      OBVIOUS
    <3>1. CASE m \in 1 .. Len(w)
      <4>1. PICK x \in 1 .. i - 1 : w[m] = q[x] /\ q[x] \notin keys
        BY <3>1 DEF KeptOf
      <4> QED BY <2>1, <2>5, <3>1, <4>1
    <3>2. CASE m = Len(w) + 1
      BY <1>2, <2>1, <2>5, <3>2
    <3> QED BY <2>2, <3>1, <3>2
  <2>7. \A x \in 1 .. i : q[x] \notin keys => \E m \in 1 .. Len(v) : v[m] = q[x]
    <3> SUFFICES ASSUME NEW x \in 1 .. i, q[x] \notin keys
                 PROVE  \E m \in 1 .. Len(v) : v[m] = q[x]
      OBVIOUS
    <3>1. CASE x \in 1 .. i - 1
      BY <2>1, <2>3, <3>1 DEF KeptOf
    <3>2. CASE x = i
      BY <2>1, <2>4, <3>2
    <3> QED BY <2>5, <3>1, <3>2
  <2>8. \A m, n \in 1 .. Len(v) : m < n =>
          \E x, y \in 1 .. i : x < y /\ v[m] = q[x] /\ v[n] = q[y]
    <3> SUFFICES ASSUME NEW m \in 1 .. Len(v), NEW n \in 1 .. Len(v), m < n
                 PROVE  \E x, y \in 1 .. i : x < y /\ v[m] = q[x] /\ v[n] = q[y]
      OBVIOUS
    <3>1. m \in 1 .. Len(w)
      BY <1>0, <2>1
    <3>2. CASE n \in 1 .. Len(w)
      <4>1. PICK x \in 1 .. i - 1, y \in 1 .. i - 1 : x < y /\ w[m] = q[x] /\ w[n] = q[y]
        BY <3>1, <3>2 DEF KeptOf
      <4> QED BY <2>1, <2>5, <3>1, <3>2, <4>1
    <3>3. CASE n = Len(w) + 1
      <4>1. PICK x \in 1 .. i - 1 : w[m] = q[x]
        BY <3>1 DEF KeptOf
      <4>2. x \in 1 .. i /\ i \in 1 .. i /\ x < i /\ v[m] = q[x] /\ v[n] = q[i]
        BY <2>1, <2>5, <3>1, <3>3, <4>1
      <4> QED BY <4>2
    <3> QED BY <2>2, <3>2, <3>3
  <2>9. \A x, y \in 1 .. i : x < y /\ q[x] \notin keys /\ q[y] \notin keys =>
          \E m, n \in 1 .. Len(v) : m < n /\ v[m] = q[x] /\ v[n] = q[y]
    <3> SUFFICES ASSUME NEW x \in 1 .. i, NEW y \in 1 .. i, x < y,
                        q[x] \notin keys, q[y] \notin keys
                 PROVE  \E m, n \in 1 .. Len(v) : m < n /\ v[m] = q[x] /\ v[n] = q[y]
      OBVIOUS
    <3>1. x \in 1 .. i - 1
      BY <1>0
    <3>2. CASE y \in 1 .. i - 1
      <4>1. PICK m \in 1 .. Len(w), n \in 1 .. Len(w) : m < n /\ w[m] = q[x] /\ w[n] = q[y]
        BY <3>1, <3>2 DEF KeptOf
      <4> QED BY <2>1, <2>3, <4>1
    <3>3. CASE y = i
      <4>1. PICK m \in 1 .. Len(w) : w[m] = q[x]
        BY <3>1 DEF KeptOf
      <4> QED BY <2>1, <2>3, <2>4, <3>3, <4>1
    <3> QED BY <2>5, <3>2, <3>3
  <2>10. KeptOf(q, keys, i, v)
    BY <2>6, <2>7, <2>8, <2>9 DEF KeptOf
  <2> QED BY <1>2, <2>10 DEF v
<1> QED BY <1>1, <1>2

\* What the definition of Without by recursion comes to.
LEMMA WithoutKept ==
  ASSUME NEW E, NEW q \in Seq(E), NEW keys
  PROVE  /\ Without(q, keys) \in Seq(E)
         /\ KeptOf(q, keys, Len(q), Without(q, keys))
<1> DEFINE L == Len(q)
           f == [i \in 1 .. L |-> [w \in Seq(E) |->
                   IF q[i] \in keys THEN w ELSE Append(w, q[i])]]
           Table(g) == [i \in 0 .. L |->
                          IF i = 0 THEN <<>>
                          ELSE IF q[i] \in keys THEN g[i - 1] ELSE Append(g[i - 1], q[i])]
           kept == CHOOSE g : g = Table(g)
<1>0. L \in Nat /\ \A i \in 1 .. L : q[i] \in E
  OBVIOUS
<1> HIDE DEF L
<1>1. f \in [1 .. L -> [Seq(E) -> Seq(E)]]
  BY <1>0
<1>2. PICK g \in [0 .. L -> Seq(E)] : g[0] = <<>> /\ \A i \in 1 .. L : g[i] = f[i][g[i - 1]]
  <2> DEFINE D == Seq(E)
             none == <<>>
  <2>1. none \in D /\ f \in [1 .. L -> [D -> D]]
    BY <1>1
  <2> HIDE DEF f, D, none
  <2>2. \E g \in [0 .. L -> D] : Loop(none, f, L, g)
    BY <1>0, <2>1, LoopRuns
  <2> QED BY <2>2 DEF D, none, Loop
<1>3. g = Table(g)
  <2>1. ASSUME NEW i \in 0 .. L PROVE g[i] = Table(g)[i]
    <3>1. CASE i = 0
      BY <1>2, <3>1
    <3>2. CASE i # 0
      <4>1. i \in 1 .. L /\ i - 1 \in 0 .. L
        BY <1>0, <3>2
      <4>2. g[i] = f[i][g[i - 1]] /\ g[i - 1] \in Seq(E)
        BY <1>2, <4>1
      <4> QED BY <3>2, <4>1, <4>2
    <3> QED BY <3>1, <3>2
  <2> QED BY <2>1
<1>4. kept = Table(kept)
  <2> HIDE DEF Table
  <2> QED BY <1>3
<1>5. Without(q, keys) = kept[L]
  BY DEF Without, L
<1> HIDE DEF kept
<1> DEFINE S == {i \in 0 .. L : kept[i] \in Seq(E) /\ KeptOf(q, keys, i, kept[i])}
<1>6. 0 \in S
  <2>1. kept[0] = <<>>
    BY <1>0, <1>4
  <2>2. KeptOf(q, keys, 0, <<>>)
    BY DEF KeptOf
  <2>3. <<>> \in Seq(E) /\ 0 \in 0 .. L
    BY <1>0
  <2> QED BY <2>1, <2>2, <2>3
<1>7. ASSUME NEW n \in 0 .. L - 1, n \in S PROVE n + 1 \in S
  <2>1. n + 1 \in 1 .. L /\ n + 1 \in 0 .. L /\ n + 1 # 0 /\ (n + 1) - 1 = n
    BY <1>0
  <2>2. kept[n + 1] = IF q[n + 1] \in keys THEN kept[n] ELSE Append(kept[n], q[n + 1])
    BY <1>4, <2>1
  <2>3. kept[n] \in Seq(E) /\ KeptOf(q, keys, (n + 1) - 1, kept[n])
    BY <1>7, <2>1
  <2>4. KeptOf(q, keys, n + 1, kept[n + 1])
    <3>1. n + 1 \in 1 .. Len(q)
      BY <2>1 DEF L
    <3>2. KeptOf(q, keys, n + 1,
                 IF q[n + 1] \in keys THEN kept[n] ELSE Append(kept[n], q[n + 1]))
      BY <2>3, <3>1, KeptStep
    <3> QED BY <2>2, <3>2
  <2>5. kept[n + 1] \in Seq(E)
    BY <1>0, <2>1, <2>2, <2>3
  <2> QED BY <2>1, <2>4, <2>5
<1>8. L \in S
  <2> HIDE DEF S
  <2>1. 0 .. L \subseteq S
    BY <1>0, <1>6, <1>7, InductionTo
  <2> QED BY <1>0, <2>1
<1> QED BY <1>5, <1>8 DEF L

\* A queue links no node twice if and only if no key is before itself.
LEMMA InjectiveOrder ==
  ASSUME NEW E, NEW q \in Seq(E)
  PROVE  IsInjective(q) <=> \A a \in E : ~Before(q, a, a)
<1>1. DOMAIN q = 1 .. Len(q) /\ Len(q) \in Nat /\ \A m \in 1 .. Len(q) : q[m] \in E
  OBVIOUS
<1>2. ASSUME IsInjective(q), NEW a \in E, Before(q, a, a) PROVE FALSE
  BY <1>1, <1>2 DEF IsInjective, Before
<1>3. ASSUME \A a \in E : ~Before(q, a, a) PROVE IsInjective(q)
  <2> SUFFICES ASSUME NEW m \in 1 .. Len(q), NEW n \in 1 .. Len(q), q[m] = q[n], m # n
               PROVE  FALSE
    BY <1>1 DEF IsInjective
  <2>1. CASE m < n
    BY <1>1, <1>3, <2>1 DEF Before
  <2>2. CASE n < m
    BY <1>1, <1>3, <2>2 DEF Before
  <2> QED BY <1>1, <2>1, <2>2
<1> QED BY <1>2, <1>3

\* Taking nodes out of the queue takes out no others and leaves the rest in their
\* order (ngx_queue_remove, ngx_http_lua_shdict.c:197, 272, 655, 1018).
LEMMA WithoutFacts ==
  ASSUME NEW E, NEW q \in Seq(E), NEW keys
  PROVE  /\ Without(q, keys) \in Seq(E)
         /\ Range(Without(q, keys)) = Range(q) \ keys
         /\ \A a, b \in E : Before(Without(q, keys), a, b) => Before(q, a, b)
         /\ \A a, b \in E \ keys : Before(q, a, b) => Before(Without(q, keys), a, b)
         /\ IsInjective(q) => IsInjective(Without(q, keys))
<1> DEFINE w == Without(q, keys)
<1>1. w \in Seq(E) /\ KeptOf(q, keys, Len(q), w)
  BY WithoutKept
<1> HIDE DEF w
<1>2. /\ DOMAIN q = 1 .. Len(q) /\ DOMAIN w = 1 .. Len(w)
      /\ \A m \in 1 .. Len(q) : q[m] \in E
  BY <1>1
<1>3. Range(w) = Range(q) \ keys
  <2>1. ASSUME NEW a \in Range(w) PROVE a \in Range(q) /\ a \notin keys
    <3>1. PICK m \in 1 .. Len(w) : a = w[m]
      BY <1>2 DEF Range
    <3>2. PICK x \in 1 .. Len(q) : w[m] = q[x] /\ q[x] \notin keys
      BY <1>1 DEF KeptOf
    <3> QED BY <1>2, <3>1, <3>2 DEF Range
  <2>2. ASSUME NEW a \in Range(q), a \notin keys PROVE a \in Range(w)
    <3>1. PICK x \in 1 .. Len(q) : a = q[x]
      BY <1>2 DEF Range
    <3>2. PICK m \in 1 .. Len(w) : w[m] = q[x]
      BY <1>1, <2>2, <3>1 DEF KeptOf
    <3> QED BY <1>2, <3>1, <3>2 DEF Range
  <2> QED BY <2>1, <2>2
<1>4. ASSUME NEW a \in E, NEW b \in E, Before(w, a, b) PROVE Before(q, a, b)
  <2>1. PICK m \in 1 .. Len(w), n \in 1 .. Len(w) : m < n /\ w[m] = a /\ w[n] = b
    BY <1>2, <1>4 DEF Before
  <2>2. PICK x \in 1 .. Len(q), y \in 1 .. Len(q) : x < y /\ w[m] = q[x] /\ w[n] = q[y]
    BY <1>1, <2>1 DEF KeptOf
  <2> QED BY <1>2, <2>1, <2>2 DEF Before
<1>5. ASSUME NEW a \in E \ keys, NEW b \in E \ keys, Before(q, a, b) PROVE Before(w, a, b)
  <2>1. PICK x \in 1 .. Len(q), y \in 1 .. Len(q) : x < y /\ q[x] = a /\ q[y] = b
    BY <1>2, <1>5 DEF Before
  <2>2. PICK m \in 1 .. Len(w), n \in 1 .. Len(w) : m < n /\ w[m] = q[x] /\ w[n] = q[y]
    BY <1>1, <2>1 DEF KeptOf
  <2> QED BY <1>2, <2>1, <2>2 DEF Before
<1>6. IsInjective(q) => IsInjective(w)
  BY <1>1, <1>4, InjectiveOrder
<1> QED BY <1>1, <1>3, <1>4, <1>5, <1>6 DEF w

\* A key moved to the head is before all others, and they keep their order
\* (ngx_http_lua_shdict.c:197-198, 980-981).
LEMMA ToHeadFacts ==
  ASSUME NEW E, NEW q \in Seq(E), NEW k \in E
  PROVE  /\ ToHead(q, k) \in Seq(E)
         /\ Range(ToHead(q, k)) = Range(q) \cup {k}
         /\ \A a, b \in E \ {k} : Before(ToHead(q, k), a, b) <=> Before(q, a, b)
         /\ \A b \in E : Before(ToHead(q, k), k, b) <=> b \in Range(q) \ {k}
         /\ \A a \in E : ~Before(ToHead(q, k), a, k)
         /\ IsInjective(q) => IsInjective(ToHead(q, k))
<1> DEFINE w == Without(q, {k})
           h == ToHead(q, k)
<1>1. /\ w \in Seq(E)
      /\ Range(w) = Range(q) \ {k}
      /\ \A a, b \in E : Before(w, a, b) => Before(q, a, b)
      /\ \A a, b \in E \ {k} : Before(q, a, b) => Before(w, a, b)
      /\ IsInjective(q) => IsInjective(w)
  BY WithoutFacts
<1>2. h = <<k>> \o w
  BY DEF ToHead
<1> HIDE DEF w, h
<1>3. /\ h \in Seq(E) /\ Len(w) \in Nat /\ Len(h) = Len(w) + 1 /\ h[1] = k
      /\ \A m \in 1 .. Len(w) : h[m + 1] = w[m]
      /\ DOMAIN h = 1 .. Len(h) /\ DOMAIN w = 1 .. Len(w)
  BY <1>1, <1>2
<1>4. \A m \in DOMAIN h : m # 1 => m - 1 \in DOMAIN w /\ h[m] = w[m - 1]
  BY <1>3
<1>5. ASSUME NEW m \in DOMAIN w
      PROVE  m + 1 \in DOMAIN h /\ m + 1 # 1 /\ h[m + 1] = w[m] /\ w[m] # k
  <2>1. w[m] \in Range(w)
    BY DEF Range
  <2>2. m + 1 \in DOMAIN h /\ m + 1 # 1 /\ h[m + 1] = w[m]
    BY <1>3
  <2> QED BY <1>1, <2>1, <2>2
<1>6. 1 \in DOMAIN h
  BY <1>3
<1>7. Range(h) = Range(w) \cup {k}
  <2>1. ASSUME NEW a \in Range(h) PROVE a \in Range(w) \cup {k}
    <3>1. PICK m \in DOMAIN h : a = h[m]
      BY DEF Range
    <3> QED BY <1>3, <1>4, <3>1 DEF Range
  <2>2. ASSUME NEW a \in Range(w) PROVE a \in Range(h)
    <3>1. PICK m \in DOMAIN w : a = w[m]
      BY DEF Range
    <3> QED BY <1>5, <3>1 DEF Range
  <2>3. k \in Range(h)
    BY <1>3, <1>6 DEF Range
  <2> QED BY <2>1, <2>2, <2>3
<1>8. ASSUME NEW a \in E \ {k}, NEW b \in E \ {k}
      PROVE  Before(h, a, b) <=> Before(q, a, b)
  <2>1. ASSUME Before(h, a, b) PROVE Before(w, a, b)
    <3>1. PICK m \in DOMAIN h, n \in DOMAIN h : m < n /\ h[m] = a /\ h[n] = b
      BY <2>1 DEF Before
    <3>2. m # 1 /\ n # 1
      BY <1>3, <3>1
    <3>3. m - 1 \in DOMAIN w /\ n - 1 \in DOMAIN w /\ w[m - 1] = a /\ w[n - 1] = b
      BY <1>4, <3>1, <3>2
    <3>4. m - 1 < n - 1
      BY <1>3, <3>1
    <3> QED BY <3>3, <3>4 DEF Before
  <2>2. ASSUME Before(w, a, b) PROVE Before(h, a, b)
    <3>1. PICK m \in DOMAIN w, n \in DOMAIN w : m < n /\ w[m] = a /\ w[n] = b
      BY <2>2 DEF Before
    <3>2. m + 1 < n + 1
      BY <1>3, <3>1
    <3> QED BY <1>5, <3>1, <3>2 DEF Before
  <2> QED BY <1>1, <2>1, <2>2
<1>9. ASSUME NEW a \in E PROVE ~Before(h, a, k)
  <2> SUFFICES ASSUME Before(h, a, k) PROVE FALSE
    OBVIOUS
  <2>1. PICK m \in DOMAIN h, n \in DOMAIN h : m < n /\ h[m] = a /\ h[n] = k
    BY DEF Before
  <2>2. n # 1
    BY <1>3, <2>1
  <2>3. n - 1 \in DOMAIN w /\ w[n - 1] = k
    BY <1>4, <2>1, <2>2
  <2> QED BY <1>5, <2>3
<1>10. ASSUME NEW b \in E PROVE Before(h, k, b) <=> b \in Range(q) \ {k}
  <2>1. ASSUME Before(h, k, b) PROVE b \in Range(w)
    <3>1. PICK m \in DOMAIN h, n \in DOMAIN h : m < n /\ h[m] = k /\ h[n] = b
      BY <2>1 DEF Before
    <3>2. n # 1
      BY <1>3, <3>1
    <3> QED BY <1>4, <3>1, <3>2 DEF Range
  <2>2. ASSUME b \in Range(w) PROVE Before(h, k, b)
    <3>1. PICK n \in DOMAIN w : w[n] = b
      BY <2>2 DEF Range
    <3>2. 1 < n + 1
      BY <1>3
    <3> QED BY <1>3, <1>5, <1>6, <3>1, <3>2 DEF Before
  <2> QED BY <1>1, <2>1, <2>2
<1>11. ASSUME IsInjective(q) PROVE IsInjective(h)
  <2>1. \A a \in E : ~Before(q, a, a)
    BY <1>11, InjectiveOrder
  <2>2. \A a \in E : ~Before(h, a, a)
    BY <1>8, <1>9, <2>1
  <2> QED BY <1>3, <2>2, InjectiveOrder
<1> QED BY <1>1, <1>3, <1>7, <1>8, <1>9, <1>10, <1>11 DEF h

-----------------------------------------------------------------------------
(* The memory in use *)

\* A set of sets that has {} and is closed under adding an element of S has the
\* finite set S: the nodes of a dictionary are added up one by one.
LEMMA FiniteInduction ==
  ASSUME NEW S, IsFiniteSet(S), NEW A, {} \in A,
         \A T \in SUBSET S : \A x \in S \ T : T \in A => T \cup {x} \in A
  PROVE  S \in A
<1> DEFINE B == {n \in Nat : \A T \in SUBSET S : Cardinality(T) = n => T \in A}
<1>1. 0 \in B
  <2> SUFFICES ASSUME NEW T \in SUBSET S, Cardinality(T) = 0 PROVE T \in A
    OBVIOUS
  <2>1. IsFiniteSet(T)
    BY FS_Subset
  <2>2. T = {}
    BY <2>1, FS_EmptySet
  <2> QED BY <2>2
<1>2. ASSUME NEW n \in Nat, n \in B PROVE n + 1 \in B
  <2> SUFFICES ASSUME NEW T \in SUBSET S, Cardinality(T) = n + 1 PROVE T \in A
    OBVIOUS
  <2>1. IsFiniteSet(T)
    BY FS_Subset
  <2>2. T # {}
    BY FS_EmptySet
  <2>3. PICK x \in T : TRUE
    BY <2>2
  <2>4. Cardinality(T \ {x}) = n
    <3>1. Cardinality(T \ {x}) = IF x \in T THEN Cardinality(T) - 1 ELSE Cardinality(T)
      BY <2>1, FS_RemoveElement
    <3> QED BY <3>1
  <2>5. T \ {x} \in SUBSET S /\ T \ {x} \in A
    BY <1>2, <2>4
  <2>6. x \in S \ (T \ {x}) /\ (T \ {x}) \cup {x} = T
    OBVIOUS
  <2> QED BY <2>5, <2>6
<1>3. Nat \subseteq B
  <2> HIDE DEF B
  <2> QED BY <1>1, <1>2, SetInduction
<1>4. Cardinality(S) \in Nat
  BY FS_CardinalityType
<1> QED BY <1>3, <1>4

\* g[s] is the sum of f over s, for every part s of S.
Sums(f, S, g) ==
  /\ g \in [SUBSET S -> Nat]
  /\ g[{}] = 0
  /\ \A s \in SUBSET S : \A y \in s : g[s] = f[y] + g[s \ {y}]

\* The sums over the parts of a finite set exist.
LEMMA SumsExist ==
  ASSUME NEW S, IsFiniteSet(S), NEW f \in [S -> Nat]
  PROVE  \E g \in [SUBSET S -> Nat] : Sums(f, S, g)
<1> DEFINE A == {T \in SUBSET S : \E g \in [SUBSET T -> Nat] : Sums(f, T, g)}
<1>1. {} \in A
  <2> DEFINE g == [s \in SUBSET {} |-> 0]
  <2>1. g \in [SUBSET {} -> Nat] /\ Sums(f, {}, g)
    BY DEF Sums
  <2> HIDE DEF g
  <2> QED BY <2>1
<1>2. ASSUME NEW T \in SUBSET S, NEW x \in S \ T, T \in A PROVE T \cup {x} \in A
  <2>1. PICK g \in [SUBSET T -> Nat] : Sums(f, T, g)
    BY <1>2
  <2> DEFINE U == T \cup {x}
             h == [s \in SUBSET U |-> IF x \in s THEN f[x] + g[s \ {x}] ELSE g[s]]
  <2>2. \A s \in SUBSET U : s \ {x} \in SUBSET T /\ (x \notin s => s \in SUBSET T)
    OBVIOUS
  <2>3. \A s \in SUBSET T : g[s] \in Nat /\ \A y \in s : g[s] = f[y] + g[s \ {y}]
    BY <2>1 DEF Sums
  <2>4. h \in [SUBSET U -> Nat]
    BY <2>2, <2>3
  <2>5. h[{}] = 0
    BY <2>1 DEF Sums
  <2>6. ASSUME NEW s \in SUBSET U, NEW y \in s PROVE h[s] = f[y] + h[s \ {y}]
    <3>0. s \ {y} \in SUBSET U /\ f[x] \in Nat /\ f[y] \in Nat
      OBVIOUS
    <3>1. CASE y = x
      <4>1. x \notin s \ {y} /\ x \in s
        BY <3>1
      <4> QED BY <3>0, <3>1, <4>1
    <3>2. CASE y # x /\ x \notin s
      <4>1. h[s] = g[s] /\ h[s \ {y}] = g[s \ {y}]
        BY <3>0, <3>2
      <4> QED BY <2>2, <2>3, <3>2, <4>1
    <3>3. CASE y # x /\ x \in s
      <4>1. h[s] = f[x] + g[s \ {x}] /\ h[s \ {y}] = f[x] + g[(s \ {y}) \ {x}]
        BY <3>0, <3>3
      <4>2. (s \ {x}) \in SUBSET T /\ y \in s \ {x} /\ (s \ {x}) \ {y} \in SUBSET T
        BY <2>2, <3>3
      <4>3. g[s \ {x}] = f[y] + g[(s \ {x}) \ {y}] /\ g[(s \ {x}) \ {y}] \in Nat
        BY <2>3, <4>2
      <4>4. (s \ {x}) \ {y} = (s \ {y}) \ {x}
        OBVIOUS
      <4> HIDE DEF h
      <4>5. g[s \ {x}] = f[y] + g[(s \ {y}) \ {x}] /\ g[(s \ {y}) \ {x}] \in Nat
        BY <4>3, <4>4
      <4> QED BY <3>0, <4>1, <4>5
    <3> QED BY <3>1, <3>2, <3>3
  <2> HIDE DEF h
  <2>7. Sums(f, U, h)
    BY <2>4, <2>5, <2>6 DEF Sums
  <2> QED BY <2>4, <2>7
<1>3. S \in A
  <2> HIDE DEF A
  <2> QED BY <1>1, <1>2, FiniteInduction
<1> QED BY <1>3

\* A part of the nodes takes no more memory than all of them.
LEMMA SumsMonotone ==
  ASSUME NEW S, IsFiniteSet(S), NEW f \in [S -> Nat], NEW g, Sums(f, S, g),
         NEW T \in SUBSET S
  PROVE  g[T] <= g[S]
<1> DEFINE R == S \ T
           A == {U \in SUBSET R : g[T] <= g[T \cup U]}
<1>0. /\ \A s \in SUBSET S : g[s] \in Nat
      /\ \A s \in SUBSET S : \A y \in s : g[s] = f[y] + g[s \ {y}]
  BY DEF Sums
<1>1. {} \in A
  <2>1. T \cup {} = T
    OBVIOUS
  <2> QED BY <1>0, <2>1
<1>2. ASSUME NEW U \in SUBSET R, NEW x \in R \ U, U \in A PROVE U \cup {x} \in A
  <2>1. /\ T \cup (U \cup {x}) \in SUBSET S /\ T \cup U \in SUBSET S
        /\ x \in T \cup (U \cup {x})
        /\ (T \cup (U \cup {x})) \ {x} = T \cup U
    OBVIOUS
  <2>2. g[T \cup (U \cup {x})] = f[x] + g[T \cup U]
    BY <1>0, <2>1
  <2>3. g[T] \in Nat /\ g[T \cup U] \in Nat /\ f[x] \in Nat /\ g[T] <= g[T \cup U]
    BY <1>0, <1>2, <2>1
  <2> QED BY <2>2, <2>3
<1>3. R \in A
  <2>1. IsFiniteSet(R)
    BY FS_Subset
  <2> HIDE DEF A, R
  <2> QED BY <1>1, <1>2, <2>1, FiniteInduction
<1>4. T \cup R = S
  OBVIOUS
<1> QED BY <1>3, <1>4

\* The memory in use is the sum over the nodes, in whichever order they are added.
LEMMA BytesIs ==
  ASSUME NEW S, IsFiniteSet(S), NEW f \in [S -> Nat], NEW g, Sums(f, S, g),
         NEW d, DOMAIN d.tree \subseteq S,
         \A k \in DOMAIN d.tree : Length[d.tree[k].value] = f[k]
  PROVE  Bytes(d) = g[DOMAIN d.tree]
<1> DEFINE D == DOMAIN d.tree
           Pick(s) == CHOOSE x \in s : TRUE
           Table(h) == [s \in SUBSET D |->
                          IF s = {} THEN 0
                          ELSE Length[d.tree[Pick(s)].value] + h[s \ {Pick(s)}]]
           iter == CHOOSE h : h = Table(h)
<1>1. Bytes(d) = iter[D]
  BY DEF Bytes, FoldFunction, FoldFunctionOnSet, MapThenFoldSet
<1>2. ASSUME NEW s \in SUBSET D, s # {}
      PROVE  /\ Pick(s) \in s /\ s \ {Pick(s)} \in SUBSET D
             /\ g[s] = Length[d.tree[Pick(s)].value] + g[s \ {Pick(s)}]
  <2>1. Pick(s) \in s
    BY <1>2
  <2> HIDE DEF Pick
  <2>2. s \in SUBSET S /\ Pick(s) \in DOMAIN d.tree
    BY <2>1
  <2>3. g[s] = f[Pick(s)] + g[s \ {Pick(s)}]
    BY <2>1, <2>2 DEF Sums
  <2> QED BY <2>1, <2>2, <2>3
<1> HIDE DEF Pick
<1>3. [s \in SUBSET D |-> g[s]] = Table([s \in SUBSET D |-> g[s]])
  <2> DEFINE r == [s \in SUBSET D |-> g[s]]
  <2>1. ASSUME NEW s \in SUBSET D PROVE r[s] = Table(r)[s]
    <3>1. CASE s = {}
      BY <3>1 DEF Sums
    <3>2. CASE s # {}
      BY <1>2, <3>2
    <3> QED BY <3>1, <3>2
  <2> QED BY <2>1
<1>4. iter = Table(iter)
  <2> HIDE DEF Table
  <2> QED BY <1>3
<1> HIDE DEF iter
<1> DEFINE B == {n \in Nat : \A s \in SUBSET D : Cardinality(s) = n => iter[s] = g[s]}
<1>5. \A s \in SUBSET D : IsFiniteSet(s)
  <2> SUFFICES ASSUME NEW s \in SUBSET D PROVE IsFiniteSet(s)
    OBVIOUS
  <2>1. s \in SUBSET S
    OBVIOUS
  <2> QED BY <2>1, FS_Subset
<1>6. 0 \in B
  <2> SUFFICES ASSUME NEW s \in SUBSET D, Cardinality(s) = 0 PROVE iter[s] = g[s]
    OBVIOUS
  <2>1. s = {}
    BY <1>5, FS_EmptySet
  <2>2. iter[{}] = 0
    BY <1>4
  <2> QED BY <2>1, <2>2 DEF Sums
<1>7. ASSUME NEW n \in Nat, n \in B PROVE n + 1 \in B
  <2> SUFFICES ASSUME NEW s \in SUBSET D, Cardinality(s) = n + 1 PROVE iter[s] = g[s]
    OBVIOUS
  <2>1. s # {}
    BY FS_EmptySet
  <2>2. Pick(s) \in s /\ s \ {Pick(s)} \in SUBSET D
    BY <1>2, <2>1
  <2>3. Cardinality(s \ {Pick(s)}) = n
    <3> DEFINE x == Pick(s)
    <3> HIDE DEF x
    <3>1. Cardinality(s \ {x}) = IF x \in s THEN Cardinality(s) - 1 ELSE Cardinality(s)
      BY <1>5, FS_RemoveElement
    <3> QED BY <2>2, <3>1 DEF x
  <2>4. iter[s \ {Pick(s)}] = g[s \ {Pick(s)}]
    BY <1>7, <2>2, <2>3
  <2>5. iter[s] = Length[d.tree[Pick(s)].value] + iter[s \ {Pick(s)}]
    BY <1>4, <2>1
  <2> QED BY <1>2, <2>1, <2>4, <2>5
<1>8. Nat \subseteq B
  <2> HIDE DEF B
  <2> QED BY <1>6, <1>7, SetInduction
<1>9. D \in SUBSET D /\ Cardinality(D) \in Nat
  BY <1>5, FS_CardinalityType
<1> QED BY <1>1, <1>8, <1>9

\* The nodes of a dictionary are finitely many and have their types.
LEMMA GoodFacts ==
  ASSUME NEW d, Good(d)
  PROVE  /\ DOMAIN d.tree = Range(d.queue)
         /\ Range(d.queue) \subseteq Keys
         /\ IsFiniteSet(DOMAIN d.tree)
         /\ \A k \in DOMAIN d.tree :
              /\ d.tree[k] \in Node
              /\ d.tree[k].value \in Values
              /\ d.tree[k].expires \in Nat
              /\ Length[d.tree[k].value] \in Nat
<1>1. DOMAIN d.tree = Range(d.queue) /\ \A k \in DOMAIN d.tree : d.tree[k] \in Node
  BY DEF Good
<1>2. Range(d.queue) \subseteq Keys
  BY DEF Good, Range
<1>3. IsFiniteSet(DOMAIN d.tree)
  BY <1>1, <1>2, DictAssumption, FS_Subset
<1>4. \A k \in DOMAIN d.tree : d.tree[k].value \in Values /\ d.tree[k].expires \in Nat
  BY <1>1 DEF Node
<1>5. \A k \in DOMAIN d.tree : Length[d.tree[k].value] \in Nat
  BY <1>4, DictAssumption
<1> QED BY <1>1, <1>2, <1>3, <1>4, <1>5

\* Fewer nodes of the same sizes take no more memory.
LEMMA BytesShrink ==
  ASSUME NEW d, NEW e, Good(d), Good(e), DOMAIN e.tree \subseteq DOMAIN d.tree,
         \A k \in DOMAIN e.tree : Length[e.tree[k].value] = Length[d.tree[k].value]
  PROVE  /\ Bytes(e) \in Nat /\ Bytes(d) \in Nat
         /\ Bytes(e) <= Bytes(d)
<1> DEFINE S == DOMAIN d.tree
           f == [k \in S |-> Length[d.tree[k].value]]
<1>1. IsFiniteSet(S) /\ f \in [S -> Nat]
  BY GoodFacts
<1>2. PICK g \in [SUBSET S -> Nat] : Sums(f, S, g)
  <2> HIDE DEF f, S
  <2> QED BY <1>1, SumsExist
<1>3. /\ \A k \in DOMAIN d.tree : Length[d.tree[k].value] = f[k]
      /\ \A k \in DOMAIN e.tree : Length[e.tree[k].value] = f[k]
      /\ DOMAIN d.tree \subseteq S /\ DOMAIN e.tree \subseteq S
  OBVIOUS
<1> HIDE DEF f, S
<1>4. Bytes(d) = g[DOMAIN d.tree]
  BY <1>1, <1>2, <1>3, BytesIs
<1>5. Bytes(e) = g[DOMAIN e.tree]
  BY <1>1, <1>2, <1>3, BytesIs
<1>6. g[DOMAIN e.tree] <= g[S]
  BY <1>1, <1>2, <1>3, SumsMonotone
<1> QED BY <1>2, <1>3, <1>4, <1>5, <1>6 DEF S

\* One more node takes as much more memory as it has bytes.
LEMMA BytesAdd ==
  ASSUME NEW d, NEW e, Good(d), Good(e), NEW k, k \notin DOMAIN d.tree,
         k \in DOMAIN e.tree, DOMAIN d.tree \subseteq DOMAIN e.tree,
         DOMAIN e.tree \subseteq DOMAIN d.tree \cup {k},
         \A j \in DOMAIN d.tree : e.tree[j] = d.tree[j]
  PROVE  Bytes(e) = Length[e.tree[k].value] + Bytes(d)
<1> DEFINE S == DOMAIN e.tree
           f == [j \in S |-> Length[e.tree[j].value]]
<1>1. IsFiniteSet(S) /\ f \in [S -> Nat]
  BY GoodFacts
<1>2. PICK g \in [SUBSET S -> Nat] : Sums(f, S, g)
  <2> HIDE DEF f, S
  <2> QED BY <1>1, SumsExist
<1>3. /\ \A j \in DOMAIN d.tree : Length[d.tree[j].value] = f[j]
      /\ \A j \in DOMAIN e.tree : Length[e.tree[j].value] = f[j]
      /\ DOMAIN d.tree \subseteq S /\ DOMAIN e.tree \subseteq S
      /\ f[k] = Length[e.tree[k].value]
      /\ S \in SUBSET S /\ k \in S /\ S \ {k} = DOMAIN d.tree
  OBVIOUS
<1> HIDE DEF f, S
<1>4. Bytes(d) = g[DOMAIN d.tree]
  <2>1. DOMAIN d.tree \subseteq S /\ \A j \in DOMAIN d.tree : Length[d.tree[j].value] = f[j]
    BY <1>3
  <2> QED BY <1>1, <1>2, <2>1, BytesIs
<1>5. Bytes(e) = g[DOMAIN e.tree]
  <2>1. DOMAIN e.tree \subseteq S /\ \A j \in DOMAIN e.tree : Length[e.tree[j].value] = f[j]
    BY <1>3
  <2> QED BY <1>1, <1>2, <2>1, BytesIs
<1>6. g[S] = f[k] + g[S \ {k}]
  BY <1>2, <1>3 DEF Sums
<1> QED BY <1>3, <1>4, <1>5, <1>6 DEF S

-----------------------------------------------------------------------------
(* What the operations do to a dictionary *)

\* e is d after some nodes at the tail of its queue have been freed; the keys X
\* are the ones the call was about.
Evicts(d, e, X) ==
  /\ Good(e)
  /\ Range(e.queue) \subseteq Range(d.queue) \cup X
  /\ \A k \in Range(e.queue) \ X : e.tree[k] = d.tree[k]
  /\ \A j, k \in Range(e.queue) \ X : Before(e.queue, j, k) => Before(d.queue, j, k)
  /\ \A j \in Range(d.queue) \ X, k \in Range(e.queue) \ X :
       j \notin Range(e.queue) => Before(d.queue, k, j)

\* Only nodes with an expiry time have been freed.
Spares(d, e, X) ==
  \A k \in Range(d.queue) \ X : k \notin Range(e.queue) => d.tree[k].expires # 0

\* The node of k, if there is one, is the one used last.
AtHead(e, k) == \A j \in Keys : ~Before(e.queue, j, k)

\* The operations may follow each other (ngx_http_lua_shdict.c:921-1122).
LEMMA EvictsTransitive ==
  ASSUME NEW d, NEW e, NEW c, NEW X, Evicts(d, e, X), Evicts(e, c, X)
  PROVE  /\ Evicts(d, c, X)
         /\ Spares(d, e, X) /\ Spares(e, c, X) => Spares(d, c, X)
<1>1. \A k \in Range(c.queue) \ X : k \in Range(e.queue) \ X
  BY DEF Evicts
<1>2. Good(c) /\ Range(c.queue) \subseteq Range(d.queue) \cup X
  BY DEF Evicts
<1>3. \A k \in Range(c.queue) \ X : c.tree[k] = d.tree[k]
  BY <1>1 DEF Evicts
<1>4. \A j, k \in Range(c.queue) \ X : Before(c.queue, j, k) => Before(d.queue, j, k)
  BY <1>1 DEF Evicts
<1>5. ASSUME NEW j \in Range(d.queue) \ X, NEW k \in Range(c.queue) \ X, j \notin Range(c.queue)
      PROVE  Before(d.queue, k, j)
  <2>1. CASE j \in Range(e.queue)
    <3>1. Before(e.queue, k, j)
      BY <1>5, <2>1 DEF Evicts
    <3> QED BY <1>1, <2>1, <3>1 DEF Evicts
  <2>2. CASE j \notin Range(e.queue)
    BY <1>1, <2>2 DEF Evicts
  <2> QED BY <2>1, <2>2
<1>6. Evicts(d, c, X)
  BY <1>2, <1>3, <1>4, <1>5 DEF Evicts
<1>7. ASSUME Spares(d, e, X), Spares(e, c, X) PROVE Spares(d, c, X)
  <2> SUFFICES ASSUME NEW k \in Range(d.queue) \ X, k \notin Range(c.queue)
               PROVE  d.tree[k].expires # 0
    BY DEF Spares
  <2>1. CASE k \in Range(e.queue)
    BY <1>7, <2>1 DEF Spares, Evicts
  <2>2. CASE k \notin Range(e.queue)
    BY <1>7, <2>2 DEF Spares
  <2> QED BY <2>1, <2>2
<1> QED BY <1>6, <1>7

\* What is true of all keys is true of all but some.
LEMMA EvictsWiden ==
  ASSUME NEW d, NEW e, NEW X, Evicts(d, e, {})
  PROVE  Evicts(d, e, X) /\ (Spares(d, e, {}) => Spares(d, e, X))
<1>1. Evicts(d, e, X)
  BY DEF Evicts
<1>2. Spares(d, e, {}) => Spares(d, e, X)
  BY DEF Spares
<1> QED BY <1>1, <1>2

\* To free nodes is to take them from the tree and the queue (ngx_http_lua_shdict.c:1017-1027).
LEMMA FreeFacts ==
  ASSUME NEW d, Good(d), NEW keys
  PROVE  /\ Good(Free(d, keys))
         /\ Range(Free(d, keys).queue) = Range(d.queue) \ keys
         /\ \A k \in Range(d.queue) \ keys : Free(d, keys).tree[k] = d.tree[k]
         /\ \A j, k \in Keys : Before(Free(d, keys).queue, j, k) => Before(d.queue, j, k)
<1> DEFINE e == Free(d, keys)
           w == Without(d.queue, keys)
<1>0. d.queue \in Seq(Keys) /\ IsInjective(d.queue) /\ d.tree \in [Range(d.queue) -> Node]
  BY DEF Good
<1>1. /\ w \in Seq(Keys)
      /\ Range(w) = Range(d.queue) \ keys
      /\ \A a, b \in Keys : Before(w, a, b) => Before(d.queue, a, b)
      /\ IsInjective(d.queue) => IsInjective(w)
  BY <1>0, WithoutFacts
<1> HIDE DEF w
<1>2. /\ e.queue = w /\ e.tree = [k \in Range(d.queue) \ keys |-> d.tree[k]]
      /\ e = [tree |-> e.tree, queue |-> e.queue]
  BY <1>0 DEF Free, Restrict, w
<1> HIDE DEF e
<1>3. e.tree \in [Range(e.queue) -> Node]
  BY <1>0, <1>1, <1>2
<1>4. Good(e)
  BY <1>0, <1>1, <1>2, <1>3 DEF Good
<1> QED BY <1>1, <1>2, <1>4 DEF e

\* The nodes at the tail are behind all others (ngx_http_lua_shdict.c:257-275).
LEMMA FreeOldest ==
  ASSUME NEW d, Good(d), NEW n \in Nat, n <= Len(d.queue)
  PROVE  /\ Evicts(d, Free(d, Oldest(d, n)), {})
         /\ Range(Free(d, Oldest(d, n)).queue) = Range(d.queue) \ Oldest(d, n)
<1> DEFINE e == Free(d, Oldest(d, n))
           q == d.queue
<1>1. /\ Good(e)
      /\ Range(e.queue) = Range(q) \ Oldest(d, n)
      /\ \A k \in Range(q) \ Oldest(d, n) : e.tree[k] = d.tree[k]
      /\ \A j, k \in Keys : Before(e.queue, j, k) => Before(q, j, k)
  BY FreeFacts
<1> HIDE DEF e
<1>2. Range(q) \subseteq Keys /\ q \in Seq(Keys)
  BY GoodFacts DEF Good
<1>3. ASSUME NEW j \in Range(q), NEW k \in Range(e.queue), j \notin Range(e.queue)
      PROVE  Before(q, k, j)
  <2>1. j \in Oldest(d, n) /\ k \in Range(q) /\ k \notin Oldest(d, n)
    BY <1>1, <1>3
  <2>2. PICK x \in (Len(q) - n + 1) .. Len(q) : j = q[x]
    BY <2>1 DEF Oldest
  <2>3. PICK y \in DOMAIN q : k = q[y]
    BY <2>1 DEF Range
  <2>4. DOMAIN q = 1 .. Len(q) /\ Len(q) \in Nat
    BY <1>2
  <2>5. y \notin (Len(q) - n + 1) .. Len(q)
    BY <2>1, <2>3 DEF Oldest
  <2>6. y < x /\ x \in DOMAIN q
    BY <2>2, <2>4, <2>5
  <2> QED BY <2>2, <2>3, <2>6 DEF Before
<1>4. Evicts(d, e, {})
  <2>1. \A j, k \in Range(e.queue) : Before(e.queue, j, k) => Before(q, j, k)
    BY <1>1, <1>2
  <2> QED BY <1>1, <1>3, <2>1 DEF Evicts
<1> QED BY <1>1, <1>4 DEF e

\* To do nothing is to evict nothing.
LEMMA EvictsReflexive ==
  ASSUME NEW d, NEW X, Good(d)
  PROVE  Evicts(d, d, X) /\ Spares(d, d, X)
BY DEF Evicts, Spares

\* A call may free the node it is about (ngx_http_lua_shdict.c:1017-1027).
LEMMA FreeKey ==
  ASSUME NEW d, Good(d), NEW k \in Keys
  PROVE  /\ Evicts(d, Free(d, {k}), {k})
         /\ Spares(d, Free(d, {k}), {k})
         /\ Range(Free(d, {k}).queue) = Range(d.queue) \ {k}
         /\ \A j \in Range(d.queue) \ {k} : Free(d, {k}).tree[j] = d.tree[j]
<1> DEFINE e == Free(d, {k})
<1>1. /\ Good(e)
      /\ Range(e.queue) = Range(d.queue) \ {k}
      /\ \A j \in Range(d.queue) \ {k} : e.tree[j] = d.tree[j]
      /\ \A i, j \in Keys : Before(e.queue, i, j) => Before(d.queue, i, j)
  BY FreeFacts
<1> HIDE DEF e
<1>2. Range(d.queue) \subseteq Keys
  BY GoodFacts
<1>3. Evicts(d, e, {k})
  <2>1. \A i, j \in Range(e.queue) \ {k} : Before(e.queue, i, j) => Before(d.queue, i, j)
    BY <1>1, <1>2
  <2> QED BY <1>1, <2>1 DEF Evicts
<1>4. Spares(d, e, {k})
  BY <1>1 DEF Spares
<1> QED BY <1>1, <1>3, <1>4 DEF e

\* The number of nodes expire frees is well defined: the loop ends after two
\* nodes, at a node that has not expired, or at the end (ngx_http_lua_shdict.c:252-283).
LEMMA ExpirableFacts ==
  ASSUME NEW d, Good(d), NEW t
  PROVE  /\ Expirable(d, t) \in Nat
         /\ Expirable(d, t) <= Len(d.queue)
         /\ \A k \in Oldest(d, Expirable(d, t)) : Dead(d.tree[k], t)
<1> DEFINE q == d.queue
           L == Len(q)
           Ends(n) == /\ n <= L
                      /\ \A k \in Oldest(d, n) : Dead(d.tree[k], t)
                      /\ n = 2 \/ n = L \/ ~Dead(d.tree[q[L - n]], t)
<1>0. L \in Nat
  BY DEF Good
<1>1. \E n \in 0 .. 2 : Ends(n)
  <2>1. Oldest(d, 0) = {}
    BY <1>0 DEF Oldest
  <2>2. CASE L = 0 \/ ~Dead(d.tree[q[L]], t)
    <3>1. L - 0 = L /\ 0 <= L
      BY <1>0
    <3>2. Ends(0)
      BY <1>0, <2>1, <2>2, <3>1
    <3> HIDE DEF Ends
    <3> QED BY <3>2
  <2>3. CASE L # 0 /\ Dead(d.tree[q[L]], t)
    <3>1. Oldest(d, 1) = {q[L]}
      <4>1. (L - 1 + 1) .. L = {L}
        BY <1>0
      <4> QED BY <4>1 DEF Oldest
    <3>2. CASE L = 1 \/ ~Dead(d.tree[q[L - 1]], t)
      <4>1. Ends(1)
        BY <1>0, <2>3, <3>1, <3>2
      <4> HIDE DEF Ends
      <4> QED BY <4>1
    <3>3. CASE L # 1 /\ Dead(d.tree[q[L - 1]], t)
      <4>1. \A x \in (L - 2 + 1) .. L : x = L \/ x = L - 1
        BY <1>0
      <4>2. \A k \in Oldest(d, 2) : k = q[L] \/ k = q[L - 1]
        BY <4>1 DEF Oldest
      <4>3. 2 <= L
        <5>1. L # 0 /\ L # 1
          BY <2>3, <3>3
        <5> HIDE DEF L
        <5> QED BY <1>0, <5>1
      <4>4. Ends(2)
        BY <2>3, <3>3, <4>2, <4>3
      <4> HIDE DEF Ends
      <4> QED BY <4>4
    <3> QED BY <3>2, <3>3
  <2> QED BY <2>2, <2>3
<1>2. Expirable(d, t) = CHOOSE n \in 0 .. 2 : Ends(n)
  BY DEF Expirable
<1>3. Expirable(d, t) \in 0 .. 2 /\ Ends(Expirable(d, t))
  <2> HIDE DEF Ends
  <2> QED BY <1>1, <1>2
<1> QED BY <1>3

\* expire frees nodes from the tail that have expired (ngx_http_lua_shdict.c:231-286).
LEMMA ExpireFacts ==
  ASSUME NEW d, Good(d), NEW t
  PROVE  /\ Evicts(d, Expire(d, t), {})
         /\ Spares(d, Expire(d, t), {})
<1> DEFINE n == Expirable(d, t)
           e == Free(d, Oldest(d, n))
<1>1. n \in Nat /\ n <= Len(d.queue) /\ \A k \in Oldest(d, n) : Dead(d.tree[k], t)
  BY ExpirableFacts
<1>2. Expire(d, t) = e
  BY DEF Expire
<1> HIDE DEF n
<1>3. Evicts(d, e, {}) /\ Range(e.queue) = Range(d.queue) \ Oldest(d, n)
  BY <1>1, FreeOldest
<1> HIDE DEF e
<1>4. Spares(d, e, {})
  BY <1>1, <1>3 DEF Spares, Dead
<1> QED BY <1>2, <1>3, <1>4

\* By force the last node goes first (ngx_http_lua_shdict.c:261-275).
LEMMA ExpireForcedFacts ==
  ASSUME NEW d, Good(d), NEW t
  PROVE  Evicts(d, ExpireForced(d, t), {})
<1>1. CASE d.queue = <<>>
  BY <1>1, EvictsReflexive DEF ExpireForced
<1>2. CASE d.queue # <<>>
  <2> DEFINE e == Free(d, Oldest(d, 1))
  <2>1. d.queue \in Seq(Keys)
    BY DEF Good
  <2>2. 1 \in Nat /\ 1 <= Len(d.queue)
    BY <1>2, <2>1
  <2>3. Evicts(d, e, {})
    BY <2>2, FreeOldest
  <2>4. ExpireForced(d, t) = Expire(e, t)
    BY <1>2 DEF ExpireForced
  <2> HIDE DEF e
  <2>5. Evicts(e, Expire(e, t), {})
    BY <2>3, ExpireFacts DEF Evicts
  <2> QED BY <2>3, <2>4, <2>5, EvictsTransitive
<1> QED BY <1>1, <1>2

\* All dictionaries whose queue links their tree.
GoodDicts ==
  {d \in [tree : UNION {[S -> Node] : S \in SUBSET Keys}, queue : Seq(Keys)] : Good(d)}

LEMMA GoodInGoodDicts == ASSUME NEW d PROVE d \in GoodDicts <=> Good(d)
<1>1. ASSUME Good(d) PROVE d \in GoodDicts
  <2>1. Range(d.queue) \in SUBSET Keys
    BY <1>1, GoodFacts
  <2>2. d.tree \in UNION {[S -> Node] : S \in SUBSET Keys}
    BY <1>1, <2>1 DEF Good
  <2> HIDE DEF Good
  <2>3. d.queue \in Seq(Keys) /\ d = [tree |-> d.tree, queue |-> d.queue]
    BY <1>1 DEF Good
  <2> QED BY <1>1, <2>2, <2>3 DEF GoodDicts
<1> QED BY <1>1 DEF GoodDicts

\* Every round of forced eviction frees nodes from the tail (ngx_http_lua_shdict.c:1064-1075).
LEMMA EvictionsFacts ==
  ASSUME NEW d, Good(d), NEW t
  PROVE  \A i \in 0 .. MaxEvict : Evicts(d, Evictions(d, t)[i], {})
<1> DEFINE M == MaxEvict
           f == [i \in 1 .. M |-> [e \in GoodDicts |-> ExpireForced(e, t)]]
           Table(g) == [i \in 0 .. M |-> IF i = 0 THEN d ELSE ExpireForced(g[i - 1], t)]
           after == CHOOSE g : g = Table(g)
<1>0. M \in Nat /\ d \in GoodDicts
  BY DictAssumption, GoodInGoodDicts
<1>1. f \in [1 .. M -> [GoodDicts -> GoodDicts]]
  <2>1. \A e \in GoodDicts : ExpireForced(e, t) \in GoodDicts
    BY GoodInGoodDicts, ExpireForcedFacts DEF Evicts
  <2> QED BY <2>1
<1>2. PICK g \in [0 .. M -> GoodDicts] : Loop(d, f, M, g)
  <2> HIDE DEF f, M
  <2> QED BY <1>0, <1>1, LoopRuns
<1>3. g = Table(g)
  <2>1. ASSUME NEW i \in 0 .. M PROVE g[i] = Table(g)[i]
    <3>1. CASE i = 0
      BY <1>2, <3>1 DEF Loop
    <3>2. CASE i # 0
      <4>1. i \in 1 .. M /\ i - 1 \in 0 .. M
        BY <1>0, <3>2
      <4>2. g[i] = f[i][g[i - 1]] /\ g[i - 1] \in GoodDicts
        BY <1>2, <4>1 DEF Loop
      <4> QED BY <3>2, <4>1, <4>2
    <3> QED BY <3>1, <3>2
  <2> QED BY <2>1
<1>4. after = Table(after)
  <2> HIDE DEF Table
  <2> QED BY <1>3
<1>5. Evictions(d, t) = after
  BY DEF Evictions
<1> HIDE DEF after
<1> DEFINE S == {i \in 0 .. M : Evicts(d, after[i], {})}
<1>6. 0 \in S
  <2>1. after[0] = d /\ 0 \in 0 .. M
    BY <1>0, <1>4
  <2> QED BY <2>1, EvictsReflexive
<1>7. ASSUME NEW n \in 0 .. M - 1, n \in S PROVE n + 1 \in S
  <2>1. n + 1 \in 0 .. M /\ n + 1 # 0 /\ (n + 1) - 1 = n
    BY <1>0
  <2>2. after[n + 1] = ExpireForced(after[n], t)
    BY <1>4, <2>1
  <2>3. Evicts(d, after[n], {})
    BY <1>7
  <2>4. Evicts(after[n], ExpireForced(after[n], t), {})
    BY <2>3, ExpireForcedFacts DEF Evicts
  <2>5. Evicts(d, after[n + 1], {})
    BY <2>2, <2>3, <2>4, EvictsTransitive
  <2> QED BY <2>1, <2>5
<1>8. 0 .. M \subseteq S
  <2> HIDE DEF S, M
  <2> QED BY <1>0, <1>6, <1>7, InductionTo
<1> QED BY <1>5, <1>8

\* A node that is found goes to the head of the queue (ngx_http_lua_shdict.c:197-198).
LEMMA FoundFacts ==
  ASSUME NEW d, Good(d), NEW k \in Keys
  PROVE  /\ Evicts(d, Found(d, k), {k})
         /\ Spares(d, Found(d, k), {k})
         /\ Found(d, k).tree = d.tree
         /\ AtHead(Found(d, k), k)
<1>0. d.queue \in Seq(Keys) /\ IsInjective(d.queue) /\ d.tree \in [Range(d.queue) -> Node]
  BY DEF Good
<1>1. CASE k \notin DOMAIN d.tree
  <2>1. Found(d, k) = d
    BY <1>1 DEF Found
  <2>2. \A j \in Keys : ~Before(d.queue, j, k)
    BY <1>0, <1>1 DEF Before, Range
  <2> QED BY <2>1, <2>2, EvictsReflexive DEF AtHead
<1>2. CASE k \in DOMAIN d.tree
  <2> DEFINE h == ToHead(d.queue, k)
             e == Found(d, k)
  <2>1. /\ h \in Seq(Keys)
        /\ Range(h) = Range(d.queue) \cup {k}
        /\ \A a, b \in Keys \ {k} : Before(h, a, b) <=> Before(d.queue, a, b)
        /\ \A a \in Keys : ~Before(h, a, k)
        /\ IsInjective(d.queue) => IsInjective(h)
    BY <1>0, ToHeadFacts
  <2>2. e.queue = h /\ e.tree = d.tree /\ e = [tree |-> e.tree, queue |-> e.queue]
    BY <1>2 DEF Found, Touch, Good
  <2> HIDE DEF h, e
  <2>3. Range(h) = Range(d.queue)
    BY <1>0, <1>2, <2>1
  <2>4. Good(e)
    BY <1>0, <2>1, <2>2, <2>3 DEF Good
  <2>5. Range(h) \subseteq Keys
    BY <2>2, <2>4, GoodFacts
  <2>6. Evicts(d, e, {k})
    BY <2>1, <2>2, <2>3, <2>4, <2>5 DEF Evicts
  <2>7. Spares(d, e, {k}) /\ AtHead(e, k)
    BY <2>1, <2>2, <2>3 DEF Spares, AtHead
  <2> QED BY <2>2, <2>6, <2>7 DEF e
<1> QED BY <1>1, <1>2

\* A node that is stored is at the head, and the others stay (ngx_http_lua_shdict.c:1086-1117).
LEMMA InsertFacts ==
  ASSUME NEW d, Good(d), NEW k \in Keys, NEW node \in Node
  PROVE  /\ Evicts(d, Insert(d, k, node), {k})
         /\ Spares(d, Insert(d, k, node), {k})
         /\ AtHead(Insert(d, k, node), k)
         /\ k \in DOMAIN Insert(d, k, node).tree
         /\ DOMAIN d.tree \subseteq DOMAIN Insert(d, k, node).tree
         /\ DOMAIN Insert(d, k, node).tree \subseteq DOMAIN d.tree \cup {k}
<1> DEFINE h == ToHead(d.queue, k)
           e == Insert(d, k, node)
<1>0. d.queue \in Seq(Keys) /\ IsInjective(d.queue) /\ d.tree \in [Range(d.queue) -> Node]
  BY DEF Good
<1>1. /\ h \in Seq(Keys)
      /\ Range(h) = Range(d.queue) \cup {k}
      /\ \A a, b \in Keys \ {k} : Before(h, a, b) <=> Before(d.queue, a, b)
      /\ \A a \in Keys : ~Before(h, a, k)
      /\ IsInjective(d.queue) => IsInjective(h)
  BY <1>0, ToHeadFacts
<1>2. /\ e.queue = h
      /\ e.tree = [j \in DOMAIN d.tree \cup {k} |-> IF j = k THEN node ELSE d.tree[j]]
      /\ e = [tree |-> e.tree, queue |-> e.queue]
  BY DEF Insert
<1> HIDE DEF h, e
<1>3. /\ k \in DOMAIN e.tree /\ DOMAIN d.tree \subseteq DOMAIN e.tree
      /\ DOMAIN e.tree \subseteq DOMAIN d.tree \cup {k}
      /\ e.tree[k] = node
      /\ \A j \in DOMAIN d.tree \ {k} : e.tree[j] = d.tree[j]
  BY <1>2
<1>4. e.tree \in [Range(e.queue) -> Node]
  BY <1>0, <1>1, <1>2
<1>5. Good(e)
  BY <1>0, <1>1, <1>2, <1>4 DEF Good
<1>6. Range(h) \subseteq Keys /\ DOMAIN d.tree = Range(d.queue)
  BY <1>0, <1>2, <1>5, GoodFacts
<1>7. Evicts(d, e, {k})
  BY <1>1, <1>2, <1>3, <1>5, <1>6 DEF Evicts
<1>8. Spares(d, e, {k}) /\ AtHead(e, k)
  BY <1>1, <1>2 DEF Spares, AtHead
<1> QED BY <1>3, <1>7, <1>8 DEF e

-----------------------------------------------------------------------------
(* What a call on a key does *)

\* A call about key k frees nodes from the tail only, leaves k at the head if at
\* all, and does not use more memory than there is.
Called(k) ==
  /\ Evicts(Dict, Dict', {k})
  /\ AtHead(Dict', k)
  /\ Bytes(Dict') <= Capacity
  /\ used' = IF k \in DOMAIN tree' THEN ToHead(used, k) ELSE used
  /\ now' = now
  /\ reply'.key = k

LEMMA FinishCalled ==
  ASSUME NEW o, NEW k \in Keys, NEW e, NEW v, NEW s, NEW forced,
         Evicts(Dict, e, {k}), AtHead(e, k), Bytes(e) <= Capacity,
         Finish(o, k, e, v, s, forced)
  PROVE  /\ Called(k)
         /\ Dict' = e /\ tree' = e.tree /\ queue' = e.queue
         /\ reply' = Lossy!Answer(o, k, v, s, forced)
<1>1. e = [tree |-> e.tree, queue |-> e.queue]
  BY DEF Evicts, Good
<1>2. tree' = e.tree /\ queue' = e.queue /\ reply' = Lossy!Answer(o, k, v, s, forced)
  BY DEF Finish
<1>3. Dict' = e
  BY <1>1, <1>2 DEF Dict
<1>4. /\ used' = IF k \in DOMAIN tree' THEN ToHead(used, k) ELSE used
      /\ now' = now
  BY <1>2 DEF Finish
<1>5. reply'.key = k
  BY <1>2 DEF Lossy!Answer
<1> QED BY <1>2, <1>3, <1>4, <1>5 DEF Called

\* Every call begins with expire, and most go on with a lookup that moves the
\* node to the head (ngx_http_lua_shdict.c:921-931).
LEMMA CallStarts ==
  ASSUME DictInv, NEW t, NEW k \in Keys
  PROVE  LET d == Expire(Dict, t)
             e == Found(d, k)
         IN  /\ Good(d) /\ Evicts(Dict, d, {k}) /\ Spares(Dict, d, {k}) /\ Spares(Dict, d, {})
             /\ Range(d.queue) \subseteq Range(queue)
             /\ \A j \in Range(d.queue) : d.tree[j] = tree[j]
             /\ Bytes(d) <= Capacity
             /\ Good(e) /\ Evicts(Dict, e, {k}) /\ Spares(Dict, e, {k})
             /\ e.tree = d.tree /\ AtHead(e, k) /\ Bytes(e) <= Capacity
<1> DEFINE d == Expire(Dict, t)
           e == Found(d, k)
<1>0. Good(Dict) /\ Bytes(Dict) <= Capacity /\ Capacity \in Nat
  BY DictAssumption DEF DictInv
<1>1. Evicts(Dict, d, {}) /\ Spares(Dict, d, {})
  BY <1>0, ExpireFacts
<1> HIDE DEF d
<1>2. Good(d) /\ Evicts(Dict, d, {k}) /\ Spares(Dict, d, {k})
  BY <1>1, EvictsWiden DEF Evicts
<1>3. /\ Range(d.queue) \subseteq Range(queue)
      /\ \A j \in Range(d.queue) : d.tree[j] = tree[j]
  BY <1>1 DEF Evicts, Dict
<1>4. /\ DOMAIN d.tree = Range(d.queue) /\ DOMAIN Dict.tree = Range(Dict.queue)
      /\ Dict.tree = tree /\ Dict.queue = queue
  BY <1>0, <1>2, GoodFacts DEF Dict
<1>5. Bytes(d) \in Nat /\ Bytes(Dict) \in Nat /\ Bytes(d) <= Bytes(Dict)
  <2>1. DOMAIN d.tree \subseteq DOMAIN Dict.tree
    BY <1>3, <1>4
  <2>2. \A j \in DOMAIN d.tree : Length[d.tree[j].value] = Length[Dict.tree[j].value]
    BY <1>3, <1>4
  <2> QED BY <1>0, <1>2, <2>1, <2>2, BytesShrink
<1>6. Evicts(d, e, {k}) /\ Spares(d, e, {k}) /\ e.tree = d.tree /\ AtHead(e, k)
  BY <1>2, FoundFacts
<1> HIDE DEF e
<1>7. Evicts(Dict, e, {k}) /\ Spares(Dict, e, {k})
  BY <1>2, <1>6, EvictsTransitive
<1>8. Good(e)
  BY <1>6 DEF Evicts
<1>9. Bytes(e) = Bytes(d)
  BY <1>6 DEF Bytes
<1>10. Bytes(d) <= Capacity
  BY <1>0, <1>5
<1> QED BY <1>1, <1>2, <1>3, <1>6, <1>7, <1>8, <1>9, <1>10 DEF d, e

\* What a store does (ngx_http_lua_shdict.c:973-1122): it may free nodes that do
\* not expire only if it says that it used force.
StoreEnds(o, k, v) ==
  \E forced \in BOOLEAN :
    /\ ~forced => Spares(Dict, Dict', {k})
    /\ \/ /\ reply' = Lossy!Answer(o, k, Nil, "ok", forced)
          /\ k \in DOMAIN tree'
          /\ tree'[k].value = v
          /\ tree'[k].expires = 0 \/ \E p \in Procs : tree'[k].expires >= now[p]
       \/ /\ reply' = Lossy!Answer(o, k, Nil, "no memory", forced)
          /\ k \notin DOMAIN tree'

\* A node that is new finds room (ngx_http_lua_shdict.c:1047-1117).
LEMMA InsertNew ==
  ASSUME NEW e, NEW k \in Keys, NEW node \in Node, Evicts(Dict, e, {k}), k \notin DOMAIN e.tree,
         Bytes(e) + Length[node.value] <= Capacity
  PROVE  LET c == Insert(e, k, node)
         IN  /\ Evicts(Dict, c, {k}) /\ AtHead(c, k) /\ Bytes(c) <= Capacity
             /\ k \in DOMAIN c.tree /\ c.tree[k] = node
             /\ Spares(Dict, e, {k}) => Spares(Dict, c, {k})
<1> DEFINE c == Insert(e, k, node)
<1>0. Good(e)
  BY DEF Evicts
<1>1. /\ Evicts(e, c, {k}) /\ Spares(e, c, {k}) /\ AtHead(c, k)
      /\ k \in DOMAIN c.tree /\ DOMAIN e.tree \subseteq DOMAIN c.tree
      /\ DOMAIN c.tree \subseteq DOMAIN e.tree \cup {k}
      /\ c.tree[k] = node
      /\ \A j \in DOMAIN e.tree \ {k} : c.tree[j] = e.tree[j]
  <2>1. /\ Evicts(e, c, {k}) /\ Spares(e, c, {k}) /\ AtHead(c, k)
        /\ k \in DOMAIN c.tree /\ DOMAIN e.tree \subseteq DOMAIN c.tree
        /\ DOMAIN c.tree \subseteq DOMAIN e.tree \cup {k}
    BY <1>0, InsertFacts
  <2>2. c.tree[k] = node /\ \A j \in DOMAIN e.tree \ {k} : c.tree[j] = e.tree[j]
    BY DEF Insert
  <2> HIDE DEF c
  <2> QED BY <2>1, <2>2
<1> HIDE DEF c
<1>2. Evicts(Dict, c, {k}) /\ (Spares(Dict, e, {k}) => Spares(Dict, c, {k}))
  BY <1>1, EvictsTransitive
<1>3. Good(c)
  BY <1>1 DEF Evicts
<1>4. Bytes(c) = Length[c.tree[k].value] + Bytes(e)
  <2>1. /\ k \in DOMAIN c.tree /\ DOMAIN e.tree \subseteq DOMAIN c.tree
        /\ DOMAIN c.tree \subseteq DOMAIN e.tree \cup {k}
        /\ \A j \in DOMAIN e.tree : c.tree[j] = e.tree[j]
    BY <1>1
  <2> QED BY <1>0, <1>3, <2>1, BytesAdd
<1>5. Bytes(e) \in Nat
  BY <1>0, BytesShrink
<1>6. Length[node.value] \in Nat
  BY DictAssumption DEF Node
<1> QED BY <1>1, <1>2, <1>4, <1>5, <1>6 DEF c

LEMMA PutFacts ==
  ASSUME DictInv, NEW o, NEW p \in Procs, NEW k \in Keys, NEW v \in Stored, NEW ttl \in TTLs,
         NEW d, Evicts(Dict, d, {k}), Spares(Dict, d, {k}), Bytes(d) <= Capacity,
         Put(o, p, k, v, ttl, d)
  PROVE  Called(k) /\ StoreEnds(o, k, v)
<1> DEFINE node == [value |-> v, expires |-> IF ttl > 0 THEN now[p] + ttl ELSE 0]
           w == Free(d, {k})
           evicted == Evictions(w, now[p])
<1>0. Good(d) /\ Capacity \in Nat /\ now[p] \in Nat /\ ttl \in Nat /\ MaxEvict \in Nat
  BY DictAssumption DEF Evicts, DictInv, FirstTime
<1>1. v \in Values /\ Length[v] \in Nat
  BY DictAssumption DEF Stored, Values, Numbers
<1>2. /\ node \in Node /\ node.value = v
      /\ node.expires = 0 \/ node.expires >= now[p]
  BY <1>0, <1>1 DEF Node
<1> HIDE DEF node
<1>3. /\ Evicts(d, w, {k}) /\ Spares(d, w, {k})
      /\ Range(w.queue) = Range(d.queue) \ {k}
      /\ \A j \in Range(d.queue) \ {k} : w.tree[j] = d.tree[j]
  BY <1>0, FreeKey
<1> HIDE DEF w
<1>4. Good(w) /\ Evicts(Dict, w, {k}) /\ Spares(Dict, w, {k})
  BY <1>3, EvictsTransitive DEF Evicts
<1>5. ASSUME NEW i \in 0 .. MaxEvict
      PROVE  /\ Evicts(w, evicted[i], {k}) /\ Evicts(Dict, evicted[i], {k})
             /\ Good(evicted[i]) /\ k \notin DOMAIN evicted[i].tree
             /\ Range(evicted[i].queue) \subseteq Range(w.queue)
             /\ \A j \in DOMAIN evicted[i].tree : evicted[i].tree[j] = w.tree[j]
  <2> DEFINE e == evicted[i]
  <2>1. Evicts(w, e, {})
    BY <1>4, EvictionsFacts
  <2> HIDE DEF e
  <2>2. Evicts(w, e, {k}) /\ Evicts(Dict, e, {k})
    BY <1>4, <2>1, EvictsWiden, EvictsTransitive
  <2>3. Good(e) /\ Range(e.queue) \subseteq Range(w.queue)
        /\ \A j \in Range(e.queue) : e.tree[j] = w.tree[j]
    BY <2>1 DEF Evicts
  <2>4. DOMAIN e.tree = Range(e.queue)
    BY <2>3, GoodFacts
  <2> QED BY <1>3, <2>2, <2>3, <2>4 DEF e
<1> HIDE DEF evicted
<1>6. CASE k \in DOMAIN d.tree /\ Length[d.tree[k].value] = Length[v]
  <2> DEFINE c == Insert(d, k, node)
  <2>1. Finish(o, k, c, Nil, "ok", FALSE)
    BY <1>6 DEF Put, node
  <2>2. /\ Evicts(d, c, {k}) /\ Spares(d, c, {k}) /\ AtHead(c, k)
        /\ k \in DOMAIN c.tree /\ DOMAIN d.tree \subseteq DOMAIN c.tree
        /\ DOMAIN c.tree \subseteq DOMAIN d.tree \cup {k}
        /\ c.tree[k] = node
        /\ \A j \in DOMAIN d.tree \ {k} : c.tree[j] = d.tree[j]
    <3>1. /\ Evicts(d, c, {k}) /\ Spares(d, c, {k}) /\ AtHead(c, k)
          /\ k \in DOMAIN c.tree /\ DOMAIN d.tree \subseteq DOMAIN c.tree
          /\ DOMAIN c.tree \subseteq DOMAIN d.tree \cup {k}
      BY <1>0, <1>2, InsertFacts
    <3>2. c.tree[k] = node /\ \A j \in DOMAIN d.tree \ {k} : c.tree[j] = d.tree[j]
      BY DEF Insert
    <3> HIDE DEF c
    <3> QED BY <3>1, <3>2
  <2> HIDE DEF c
  <2>3. Evicts(Dict, c, {k}) /\ Spares(Dict, c, {k}) /\ Good(c)
    BY <2>2, EvictsTransitive DEF Evicts
  <2>4. Bytes(c) \in Nat /\ Bytes(d) \in Nat /\ Bytes(c) <= Bytes(d)
    <3>1. DOMAIN c.tree \subseteq DOMAIN d.tree
      BY <1>6, <2>2
    <3>2. \A j \in DOMAIN c.tree : Length[c.tree[j].value] = Length[d.tree[j].value]
      BY <1>2, <1>6, <2>2, <3>1
    <3> QED BY <1>0, <2>3, <3>1, <3>2, BytesShrink
  <2>5. Bytes(c) <= Capacity
    BY <1>0, <2>4
  <2>6. /\ Called(k) /\ Dict' = c /\ tree' = c.tree
        /\ reply' = Lossy!Answer(o, k, Nil, "ok", FALSE)
    BY <2>1, <2>2, <2>3, <2>5, FinishCalled
  <2>7. k \in DOMAIN tree' /\ tree'[k] = node
    BY <2>2, <2>6
  <2>8. StoreEnds(o, k, v)
    BY <1>2, <2>3, <2>6, <2>7 DEF StoreEnds
  <2> QED BY <2>6, <2>8
<1>7. CASE ~(k \in DOMAIN d.tree /\ Length[d.tree[k].value] = Length[v])
  <2>1. \/ /\ Bytes(w) + Length[v] <= Capacity
           /\ Finish(o, k, Insert(w, k, node), Nil, "ok", FALSE)
        \/ \E i \in 1 .. MaxEvict :
             /\ Bytes(evicted[i]) + Length[v] <= Capacity
             /\ Finish(o, k, Insert(evicted[i], k, node), Nil, "ok", TRUE)
        \/ Finish(o, k, evicted[MaxEvict], Nil, "no memory", w.queue # <<>>)
    BY <1>7 DEF Put, node, w, evicted
  <2>2. ASSUME NEW e, NEW forced \in BOOLEAN, Evicts(Dict, e, {k}), k \notin DOMAIN e.tree,
               ~forced => Spares(Dict, e, {k}), Bytes(e) + Length[v] <= Capacity,
               Finish(o, k, Insert(e, k, node), Nil, "ok", forced)
        PROVE  Called(k) /\ StoreEnds(o, k, v)
    <3> DEFINE c == Insert(e, k, node)
    <3>1. /\ Evicts(Dict, c, {k}) /\ AtHead(c, k) /\ Bytes(c) <= Capacity
          /\ k \in DOMAIN c.tree /\ c.tree[k] = node
          /\ Spares(Dict, e, {k}) => Spares(Dict, c, {k})
      BY <1>2, <2>2, InsertNew
    <3>2. Finish(o, k, c, Nil, "ok", forced)
      BY <2>2
    <3> HIDE DEF c
    <3>3. /\ Called(k) /\ Dict' = c /\ tree' = c.tree
          /\ reply' = Lossy!Answer(o, k, Nil, "ok", forced)
      BY <3>1, <3>2, FinishCalled
    <3>4. k \in DOMAIN tree' /\ tree'[k] = node
      BY <3>1, <3>3
    <3>5. ~forced => Spares(Dict, Dict', {k})
      BY <2>2, <3>1, <3>3
    <3>6. StoreEnds(o, k, v)
      BY <1>2, <3>3, <3>4, <3>5 DEF StoreEnds
    <3> QED BY <3>3, <3>6
  <2>3. CASE /\ Bytes(w) + Length[v] <= Capacity
             /\ Finish(o, k, Insert(w, k, node), Nil, "ok", FALSE)
    <3>1. k \notin DOMAIN w.tree
      BY <1>3, <1>4, GoodFacts
    <3> QED BY <1>4, <2>2, <2>3, <3>1
  <2>4. CASE \E i \in 1 .. MaxEvict :
               /\ Bytes(evicted[i]) + Length[v] <= Capacity
               /\ Finish(o, k, Insert(evicted[i], k, node), Nil, "ok", TRUE)
    <3>1. PICK i \in 1 .. MaxEvict :
               /\ Bytes(evicted[i]) + Length[v] <= Capacity
               /\ Finish(o, k, Insert(evicted[i], k, node), Nil, "ok", TRUE)
      BY <2>4
    <3>2. i \in 0 .. MaxEvict
      BY <1>0
    <3>3. Evicts(Dict, evicted[i], {k}) /\ k \notin DOMAIN evicted[i].tree
      BY <1>5, <3>2
    <3> QED BY <2>2, <3>1, <3>3
  <2>5. CASE Finish(o, k, evicted[MaxEvict], Nil, "no memory", w.queue # <<>>)
    <3> DEFINE e == evicted[MaxEvict]
    <3>1. MaxEvict \in 0 .. MaxEvict
      BY <1>0
    <3>2. /\ Evicts(w, e, {k}) /\ Evicts(Dict, e, {k})
          /\ Good(e) /\ k \notin DOMAIN e.tree
          /\ Range(e.queue) \subseteq Range(w.queue)
          /\ \A j \in DOMAIN e.tree : e.tree[j] = w.tree[j]
      BY <1>5, <3>1
    <3>3. Finish(o, k, e, Nil, "no memory", w.queue # <<>>)
      BY <2>5
    <3> HIDE DEF e
    <3>4. DOMAIN e.tree = Range(e.queue) /\ DOMAIN w.tree = Range(w.queue) /\ DOMAIN d.tree = Range(d.queue)
      BY <1>0, <1>4, <3>2, GoodFacts
    <3>5. AtHead(e, k)
      BY <3>2, <3>4 DEF AtHead, Before, Range
    <3>6. Bytes(w) \in Nat /\ Bytes(d) \in Nat /\ Bytes(w) <= Bytes(d)
      <4>1. DOMAIN w.tree \subseteq DOMAIN d.tree
        BY <1>3, <3>4
      <4>2. \A j \in DOMAIN w.tree : Length[w.tree[j].value] = Length[d.tree[j].value]
        BY <1>3, <3>4
      <4> QED BY <1>0, <1>4, <4>1, <4>2, BytesShrink
    <3>7. Bytes(e) \in Nat /\ Bytes(e) <= Bytes(w)
      <4>1. DOMAIN e.tree \subseteq DOMAIN w.tree
        BY <3>2, <3>4
      <4>2. \A j \in DOMAIN e.tree : Length[e.tree[j].value] = Length[w.tree[j].value]
        BY <3>2
      <4> QED BY <1>4, <3>2, <4>1, <4>2, BytesShrink
    <3>8. Bytes(e) <= Capacity
      BY <1>0, <3>6, <3>7
    <3>9. /\ Called(k) /\ Dict' = e /\ tree' = e.tree
          /\ reply' = Lossy!Answer(o, k, Nil, "no memory", w.queue # <<>>)
      BY <3>2, <3>3, <3>5, <3>8, FinishCalled
    <3>10. ASSUME w.queue = <<>> PROVE Spares(Dict, Dict', {k})
      <4>1. Range(w.queue) = {}
        BY <3>10 DEF Range
      <4>2. Spares(w, e, {k})
        BY <4>1 DEF Spares
      <4>3. Spares(Dict, e, {k})
        BY <1>4, <3>2, <4>2, EvictsTransitive
      <4> QED BY <3>9, <4>3
    <3>11. k \notin DOMAIN tree'
      BY <3>2, <3>9
    <3>12. StoreEnds(o, k, v)
      BY <3>9, <3>10, <3>11 DEF StoreEnds
    <3> QED BY <3>9, <3>12
  <2> QED BY <2>1, <2>3, <2>4, <2>5
<1> QED BY <1>6, <1>7

\* get (ngx_http_lua_shdict.c:380-538).
LEMMA GetFacts ==
  ASSUME DictInv, NEW p \in Procs, NEW k \in Keys, Get(p, k)
  PROVE  LET d == Expire(Dict, now[p])
         IN  /\ Called(k)
             /\ tree' = d.tree
             /\ reply' = Lossy!Answer("get", k,
                           IF Lookup(d, k, now[p]) = "ok" THEN d.tree[k].value ELSE Nil,
                           "ok", FALSE)
<1> DEFINE d == Expire(Dict, now[p])
           v == IF Lookup(d, k, now[p]) = "ok" THEN d.tree[k].value ELSE Nil
           e == Found(d, k)
<1>1. Evicts(Dict, e, {k}) /\ e.tree = d.tree /\ AtHead(e, k) /\ Bytes(e) <= Capacity
  BY CallStarts
<1>2. Finish("get", k, e, v, "ok", FALSE)
  BY DEF Get
<1> HIDE DEF d, e, v
<1>3. Called(k) /\ tree' = e.tree /\ reply' = Lossy!Answer("get", k, v, "ok", FALSE)
  BY <1>1, <1>2, FinishCalled
<1> QED BY <1>1, <1>3 DEF d, v

\* delete (ngx_http_lua_shdict.c:542-556).
LEMMA DeleteFacts ==
  ASSUME DictInv, NEW p \in Procs, NEW k \in Keys, Delete(p, k)
  PROVE  /\ Called(k)
         /\ Spares(Dict, Dict', {k})
         /\ k \notin DOMAIN tree'
         /\ reply' = Lossy!Answer("delete", k, Nil, "ok", FALSE)
<1> DEFINE d == Expire(Dict, now[p])
           e == Free(d, {k})
<1>1. Good(d) /\ Evicts(Dict, d, {k}) /\ Spares(Dict, d, {k}) /\ Bytes(d) <= Capacity
  BY CallStarts
<1>2. Finish("delete", k, e, Nil, "ok", FALSE)
  BY DEF Delete
<1> HIDE DEF d
<1>3. /\ Evicts(d, e, {k}) /\ Spares(d, e, {k})
      /\ Range(e.queue) = Range(d.queue) \ {k}
      /\ \A j \in Range(d.queue) \ {k} : e.tree[j] = d.tree[j]
  BY <1>1, FreeKey
<1> HIDE DEF e
<1>4. Evicts(Dict, e, {k}) /\ Spares(Dict, e, {k}) /\ Good(e)
  BY <1>1, <1>3, EvictsTransitive DEF Evicts
<1>5. DOMAIN e.tree = Range(e.queue) /\ DOMAIN d.tree = Range(d.queue)
  BY <1>1, <1>4, GoodFacts
<1>6. AtHead(e, k)
  BY <1>3 DEF AtHead, Before, Range
<1>7. Bytes(e) \in Nat /\ Bytes(d) \in Nat /\ Bytes(e) <= Bytes(d)
  <2>1. DOMAIN e.tree \subseteq DOMAIN d.tree
    BY <1>3, <1>5
  <2>2. \A j \in DOMAIN e.tree : Length[e.tree[j].value] = Length[d.tree[j].value]
    BY <1>3, <1>5
  <2> QED BY <1>1, <1>4, <2>1, <2>2, BytesShrink
<1>8. Bytes(e) <= Capacity
  BY <1>1, <1>7, DictAssumption
<1>9. /\ Called(k) /\ Dict' = e /\ tree' = e.tree
      /\ reply' = Lossy!Answer("delete", k, Nil, "ok", FALSE)
  BY <1>2, <1>4, <1>6, <1>8, FinishCalled
<1> QED BY <1>3, <1>4, <1>5, <1>9

\* set (ngx_http_lua_shdict.c:813-1122).
LEMMA SetFacts ==
  ASSUME DictInv, NEW p \in Procs, NEW k \in Keys, NEW v \in Stored, NEW ttl \in TTLs,
         Set(p, k, v, ttl)
  PROVE  Called(k) /\ StoreEnds("set", k, v)
<1> DEFINE e == Found(Expire(Dict, now[p]), k)
<1>1. Evicts(Dict, e, {k}) /\ Spares(Dict, e, {k}) /\ Bytes(e) <= Capacity
  BY CallStarts
<1>2. Put("set", p, k, v, ttl, e)
  BY DEF Set
<1> HIDE DEF e
<1> QED BY <1>1, <1>2, PutFacts

\* add (ngx_http_lua_shdict.c:943-965).
LEMMA AddFacts ==
  ASSUME DictInv, NEW p \in Procs, NEW k \in Keys, NEW v \in Stored, NEW ttl \in TTLs,
         Add(p, k, v, ttl)
  PROVE  LET d == Expire(Dict, now[p])
         IN  /\ Called(k)
             /\ \/ /\ Lookup(d, k, now[p]) = "ok"
                   /\ tree' = d.tree
                   /\ reply' = Lossy!Answer("add", k, Nil, "exists", FALSE)
                \/ /\ Lookup(d, k, now[p]) # "ok"
                   /\ StoreEnds("add", k, v)
<1> DEFINE d == Expire(Dict, now[p])
           e == Found(d, k)
<1>1. /\ Evicts(Dict, e, {k}) /\ Spares(Dict, e, {k}) /\ Bytes(e) <= Capacity
      /\ e.tree = d.tree /\ AtHead(e, k)
  BY CallStarts
<1>2. IF Lookup(d, k, now[p]) = "ok"
        THEN Finish("add", k, e, Nil, "exists", FALSE)
        ELSE Put("add", p, k, v, ttl, e)
  BY DEF Add
<1> HIDE DEF d, e
<1>3. CASE Lookup(d, k, now[p]) = "ok"
  <2>1. Called(k) /\ tree' = e.tree /\ reply' = Lossy!Answer("add", k, Nil, "exists", FALSE)
    BY <1>1, <1>2, <1>3, FinishCalled
  <2> QED BY <1>1, <1>3, <2>1 DEF d
<1>4. CASE Lookup(d, k, now[p]) # "ok"
  <2>1. Called(k) /\ StoreEnds("add", k, v)
    BY <1>1, <1>2, <1>4, PutFacts
  <2> QED BY <1>4, <2>1 DEF d
<1> QED BY <1>3, <1>4

\* incr (ngx_http_lua_shdict.c:1126-1228): a number grows by one in its place.
LEMMA IncrFacts ==
  ASSUME DictInv, NEW p \in Procs, NEW k \in Keys, Incr(p, k)
  PROVE  LET d == Expire(Dict, now[p])
         IN  /\ Called(k)
             /\ \/ /\ Lookup(d, k, now[p]) # "ok"
                   /\ tree' = d.tree
                   /\ reply' = Lossy!Answer("incr", k, Nil, "not found", FALSE)
                \/ /\ Lookup(d, k, now[p]) = "ok"
                   /\ d.tree[k].value \notin Numbers
                   /\ tree' = d.tree
                   /\ reply' = Lossy!Answer("incr", k, Nil, "not a number", FALSE)
                \/ /\ Lookup(d, k, now[p]) = "ok"
                   /\ d.tree[k].value \in Numbers
                   /\ Spares(Dict, Dict', {k})
                   /\ k \in DOMAIN tree'
                   /\ tree'[k].value = d.tree[k].value + 1
                   /\ tree'[k].expires = d.tree[k].expires
                   /\ reply' = Lossy!Answer("incr", k, d.tree[k].value + 1, "ok", FALSE)
<1> DEFINE d == Expire(Dict, now[p])
           e == Found(d, k)
           node == [d.tree[k] EXCEPT !.value = @ + 1]
           c == Insert(d, k, node)
<1>1. /\ Good(d) /\ Evicts(Dict, d, {k}) /\ Spares(Dict, d, {k}) /\ Bytes(d) <= Capacity
      /\ Evicts(Dict, e, {k}) /\ Bytes(e) <= Capacity
      /\ e.tree = d.tree /\ AtHead(e, k)
  BY CallStarts
<1>2. IF Lookup(d, k, now[p]) # "ok"
        THEN Finish("incr", k, e, Nil, "not found", FALSE)
      ELSE IF d.tree[k].value \notin Numbers
        THEN Finish("incr", k, e, Nil, "not a number", FALSE)
      ELSE /\ d.tree[k].value < MaxNum
           /\ Finish("incr", k, c, d.tree[k].value + 1, "ok", FALSE)
  BY DEF Incr
<1> HIDE DEF d, e, c
<1>3. CASE Lookup(d, k, now[p]) # "ok"
  <2>1. Called(k) /\ tree' = e.tree /\ reply' = Lossy!Answer("incr", k, Nil, "not found", FALSE)
    BY <1>1, <1>2, <1>3, FinishCalled
  <2> QED BY <1>1, <1>3, <2>1 DEF d
<1>4. CASE Lookup(d, k, now[p]) = "ok" /\ d.tree[k].value \notin Numbers
  <2>1. Called(k) /\ tree' = e.tree /\ reply' = Lossy!Answer("incr", k, Nil, "not a number", FALSE)
    BY <1>1, <1>2, <1>4, FinishCalled
  <2> QED BY <1>1, <1>4, <2>1 DEF d
<1>5. CASE Lookup(d, k, now[p]) = "ok" /\ d.tree[k].value \in Numbers
  <2>1. k \in DOMAIN d.tree
    BY <1>5 DEF Lookup
  <2>2. d.tree[k] \in Node /\ d.tree[k].value < MaxNum
    BY <1>1, <1>2, <1>5, <2>1, GoodFacts
  <2>3. /\ node \in Node
        /\ node.value = d.tree[k].value + 1 /\ node.expires = d.tree[k].expires
        /\ d.tree[k].value + 1 \in Numbers
    BY <1>5, <2>2, DictAssumption DEF Node, Values, Numbers
  <2>4. Length[node.value] = Length[d.tree[k].value]
    BY <1>5, <2>3, DictAssumption
  <2> HIDE DEF node
  <2>5. /\ Evicts(d, c, {k}) /\ Spares(d, c, {k}) /\ AtHead(c, k)
        /\ k \in DOMAIN c.tree /\ DOMAIN d.tree \subseteq DOMAIN c.tree
        /\ DOMAIN c.tree \subseteq DOMAIN d.tree \cup {k}
    BY <1>1, <2>3, InsertFacts DEF c
  <2>6. c.tree[k] = node /\ \A j \in DOMAIN d.tree \ {k} : c.tree[j] = d.tree[j]
    BY DEF Insert, c
  <2>7. Evicts(Dict, c, {k}) /\ Spares(Dict, c, {k}) /\ Good(c)
    BY <1>1, <2>5, EvictsTransitive DEF Evicts
  <2>8. Bytes(c) \in Nat /\ Bytes(d) \in Nat /\ Bytes(c) <= Bytes(d)
    <3>1. DOMAIN c.tree \subseteq DOMAIN d.tree
      BY <2>1, <2>5
    <3>2. \A j \in DOMAIN c.tree : Length[c.tree[j].value] = Length[d.tree[j].value]
      BY <2>4, <2>6, <3>1
    <3> QED BY <1>1, <2>7, <3>1, <3>2, BytesShrink
  <2>9. Bytes(c) <= Capacity
    BY <1>1, <2>8, DictAssumption
  <2>10. /\ Called(k) /\ Dict' = c /\ tree' = c.tree
         /\ reply' = Lossy!Answer("incr", k, d.tree[k].value + 1, "ok", FALSE)
    BY <1>2, <1>5, <2>5, <2>7, <2>9, FinishCalled
  <2>11. Spares(Dict, Dict', {k}) /\ k \in DOMAIN tree' /\ tree'[k] = node
    BY <2>5, <2>6, <2>7, <2>10
  <2> QED BY <1>5, <2>3, <2>10, <2>11 DEF d
<1> QED BY <1>3, <1>4, <1>5

\* flush_all (ngx_http_lua_shdict.c:560-598): what is not freed is marked.
LEMMA FlushAllFacts ==
  ASSUME DictInv, NEW p \in Procs, FlushAll(p)
  PROVE  /\ Good(Dict')
         /\ Bytes(Dict') <= Capacity
         /\ Range(queue') \subseteq Range(queue)
         /\ \A j, k \in Range(queue') : Before(queue', j, k) => Before(queue, j, k)
         /\ \A k \in DOMAIN tree' : tree'[k].expires = 1
         /\ used' = used /\ now' = now
         /\ reply' = Lossy!Answer("flush_all", Nil, Nil, "ok", FALSE)
<1> DEFINE d == [Dict EXCEPT !.tree = [k \in DOMAIN tree |-> [tree[k] EXCEPT !.expires = 1]]]
           e == ExpireForced(d, now[p])
<1>0. Good(Dict) /\ Bytes(Dict) <= Capacity
  BY DEF DictInv
<1>1. /\ d.tree = [k \in DOMAIN tree |-> [tree[k] EXCEPT !.expires = 1]]
      /\ d.queue = queue /\ d = [tree |-> d.tree, queue |-> d.queue]
  BY DEF Dict
<1>2. Finish("flush_all", Nil, e, Nil, "ok", FALSE)
  BY DEF FlushAll
<1> HIDE DEF d
<1>3. /\ Dict.tree = tree /\ Dict.queue = queue /\ DOMAIN tree = Range(queue)
      /\ \A k \in DOMAIN tree : tree[k] \in Node
  BY <1>0, GoodFacts DEF Dict
<1>4. \A k \in DOMAIN tree : /\ d.tree[k] \in Node
                             /\ d.tree[k].value = tree[k].value
                             /\ d.tree[k].expires = 1
  BY <1>1, <1>3 DEF Node
<1>5. d.tree \in [Range(d.queue) -> Node]
  <2>1. DOMAIN d.tree = Range(d.queue) /\ d.tree = [k \in DOMAIN d.tree |-> d.tree[k]]
    BY <1>1, <1>3
  <2>2. \A k \in Range(d.queue) : d.tree[k] \in Node
    BY <1>1, <1>3, <1>4
  <2> QED BY <2>1, <2>2
<1>6. Good(d)
  BY <1>0, <1>1, <1>3, <1>5 DEF Good
<1>7. Evicts(d, e, {})
  BY <1>6, ExpireForcedFacts
<1> HIDE DEF e
<1>8. /\ Good(e) /\ Range(e.queue) \subseteq Range(d.queue)
      /\ \A j, k \in Range(e.queue) : Before(e.queue, j, k) => Before(d.queue, j, k)
      /\ \A k \in Range(e.queue) : e.tree[k] = d.tree[k]
  BY <1>7 DEF Evicts
<1>9. DOMAIN e.tree = Range(e.queue) /\ Range(e.queue) \subseteq Keys
  BY <1>8, GoodFacts
<1>10. Bytes(e) \in Nat /\ Bytes(Dict) \in Nat /\ Bytes(e) <= Bytes(Dict)
  <2>1. DOMAIN e.tree \subseteq DOMAIN Dict.tree
    BY <1>1, <1>3, <1>8, <1>9
  <2>2. \A k \in DOMAIN e.tree : Length[e.tree[k].value] = Length[Dict.tree[k].value]
    BY <1>3, <1>4, <1>8, <1>9, <2>1
  <2> QED BY <1>0, <1>8, <2>1, <2>2, BytesShrink
<1>11. /\ tree' = e.tree /\ queue' = e.queue /\ now' = now
       /\ reply' = Lossy!Answer("flush_all", Nil, Nil, "ok", FALSE)
  BY <1>2 DEF Finish
<1>12. Nil \notin Keys
  BY DictAssumption
<1>13. used' = used
  BY <1>2, <1>9, <1>12 DEF Finish
<1>14. Dict' = e
  <2>1. e = [tree |-> e.tree, queue |-> e.queue]
    BY <1>8 DEF Good
  <2> QED BY <1>11, <2>1 DEF Dict
<1>15. Bytes(e) <= Capacity
  BY <1>0, <1>10, DictAssumption
<1>16. \A k \in DOMAIN tree' : tree'[k].expires = 1
  BY <1>1, <1>3, <1>4, <1>8, <1>9, <1>11
<1>17. /\ Range(queue') \subseteq Range(queue)
       /\ \A j, k \in Range(queue') : Before(queue', j, k) => Before(queue, j, k)
  BY <1>1, <1>8, <1>11
<1>18. Good(Dict') /\ Bytes(Dict') <= Capacity
  BY <1>8, <1>14, <1>15
<1> QED BY <1>11, <1>13, <1>16, <1>17, <1>18

\* flush_expired (ngx_http_lua_shdict.c:602-675).
LEMMA FlushExpiredFacts ==
  ASSUME DictInv, NEW p \in Procs, FlushExpired(p)
  PROVE  /\ Good(Dict')
         /\ Bytes(Dict') <= Capacity
         /\ Range(queue') \subseteq Range(queue)
         /\ \A j, k \in Range(queue') : Before(queue', j, k) => Before(queue, j, k)
         /\ \A k \in DOMAIN tree' : tree'[k] = tree[k]
         /\ \A k \in DOMAIN tree \ DOMAIN tree' : Dead(tree[k], now[p])
         /\ used' = used /\ now' = now
         /\ \E n \in 0 .. Cardinality(Keys) :
              reply' = Lossy!Answer("flush_expired", Nil, n, "ok", FALSE)
<1> DEFINE dead == {k \in DOMAIN tree : Dead(tree[k], now[p])}
           e == Free(Dict, dead)
<1>0. Good(Dict) /\ Bytes(Dict) <= Capacity
  BY DEF DictInv
<1>1. Finish("flush_expired", Nil, e, Cardinality(dead), "ok", FALSE)
  BY DEF FlushExpired
<1>2. /\ Good(e)
      /\ Range(e.queue) = Range(Dict.queue) \ dead
      /\ \A k \in Range(Dict.queue) \ dead : e.tree[k] = Dict.tree[k]
      /\ \A j, k \in Keys : Before(e.queue, j, k) => Before(Dict.queue, j, k)
  BY <1>0, FreeFacts
<1>3. Dict.tree = tree /\ Dict.queue = queue /\ DOMAIN tree = Range(queue) /\ Range(queue) \subseteq Keys
  BY <1>0, GoodFacts DEF Dict
<1>4. Cardinality(dead) \in 0 .. Cardinality(Keys)
  <2>1. dead \in SUBSET Keys
    BY <1>3
  <2> HIDE DEF dead
  <2>2. IsFiniteSet(dead) /\ Cardinality(dead) <= Cardinality(Keys)
    BY <2>1, DictAssumption, FS_Subset
  <2>3. Cardinality(dead) \in Nat /\ Cardinality(Keys) \in Nat
    BY <2>2, DictAssumption, FS_CardinalityType
  <2> QED BY <2>2, <2>3
<1> HIDE DEF e
<1>5. DOMAIN e.tree = Range(e.queue)
  BY <1>2, GoodFacts
<1>6. Bytes(e) \in Nat /\ Bytes(Dict) \in Nat /\ Bytes(e) <= Bytes(Dict)
  <2>1. DOMAIN e.tree \subseteq DOMAIN Dict.tree
    BY <1>2, <1>3, <1>5
  <2>2. \A k \in DOMAIN e.tree : Length[e.tree[k].value] = Length[Dict.tree[k].value]
    BY <1>2, <1>5
  <2> QED BY <1>0, <1>2, <2>1, <2>2, BytesShrink
<1>7. /\ tree' = e.tree /\ queue' = e.queue /\ now' = now
      /\ reply' = Lossy!Answer("flush_expired", Nil, Cardinality(dead), "ok", FALSE)
  BY <1>1 DEF Finish
<1>8. Nil \notin Keys
  BY DictAssumption
<1>9. used' = used
  BY <1>1, <1>2, <1>3, <1>5, <1>8 DEF Finish
<1>10. Dict' = e
  <2>1. e = [tree |-> e.tree, queue |-> e.queue]
    BY <1>2 DEF Good
  <2> QED BY <1>7, <2>1 DEF Dict
<1>11. Bytes(e) <= Capacity
  BY <1>0, <1>6, DictAssumption
<1>12. /\ \A k \in DOMAIN tree' : tree'[k] = tree[k]
       /\ \A k \in DOMAIN tree \ DOMAIN tree' : Dead(tree[k], now[p])
  BY <1>2, <1>3, <1>5, <1>7
<1>13. /\ Range(queue') \subseteq Range(queue)
       /\ \A j, k \in Range(queue') : Before(queue', j, k) => Before(queue, j, k)
  BY <1>2, <1>3, <1>7
<1>14. Good(Dict') /\ Bytes(Dict') <= Capacity
  BY <1>2, <1>10, <1>11
<1> HIDE DEF dead
<1> QED BY <1>4, <1>7, <1>9, <1>12, <1>13, <1>14

-----------------------------------------------------------------------------
(* The invariant is inductive *)

LEMMA InitDict == Init => DictInv
<1> SUFFICES ASSUME Init PROVE DictInv
  OBVIOUS
<1>1. tree = <<>> /\ queue = <<>> /\ used = <<>> /\ now = [p \in Procs |-> FirstTime]
  BY DEF Init
<1>2. Range(queue) = {} /\ queue \in Seq(Keys) /\ used \in Seq(Keys)
  BY <1>1 DEF Range
<1>3. tree \in [Range(queue) -> Node]
  BY <1>1, <1>2
<1>4. Dict.tree = tree /\ Dict.queue = queue /\ Dict = [tree |-> Dict.tree, queue |-> Dict.queue]
  BY DEF Dict
<1>5. Good(Dict)
  BY <1>1, <1>2, <1>3, <1>4 DEF Good, IsInjective
<1>6. Bytes(Dict) <= Capacity
  <2> DEFINE S == DOMAIN Dict.tree
             f == [k \in S |-> Length[Dict.tree[k].value]]
  <2>0. S = {}
    BY <1>1, <1>4
  <2>1. IsFiniteSet(S) /\ f \in [S -> Nat]
    BY <2>0, FS_EmptySet
  <2>2. PICK g \in [SUBSET S -> Nat] : Sums(f, S, g)
    <3> HIDE DEF S, f
    <3> QED BY <2>1, SumsExist
  <2>3. DOMAIN Dict.tree \subseteq S /\ \A k \in DOMAIN Dict.tree : Length[Dict.tree[k].value] = f[k]
    OBVIOUS
  <2> HIDE DEF S, f
  <2>4. Bytes(Dict) = g[DOMAIN Dict.tree]
    BY <2>1, <2>2, <2>3, BytesIs
  <2>5. DOMAIN Dict.tree = {}
    BY <2>0 DEF S
  <2>6. Bytes(Dict) = 0
    BY <2>2, <2>4, <2>5 DEF Sums
  <2> QED BY <2>6, DictAssumption
<1>7. now \in [Procs -> FirstTime .. MaxTime]
  BY <1>1, DictAssumption DEF FirstTime
<1>8. InOrderOfUse
  BY <1>1, <1>2 DEF InOrderOfUse, Before
<1> QED BY <1>5, <1>6, <1>7, <1>8 DEF DictInv

\* A call about a key keeps the queue in the order of use.
LEMMA CalledKeepsInv ==
  ASSUME DictInv, NEW k \in Keys, Called(k)
  PROVE  DictInv'
<1>1. /\ Good(Dict') /\ Bytes(Dict') <= Capacity /\ now' = now /\ Good(Dict)
      /\ Range(queue') \subseteq Range(queue) \cup {k}
      /\ \A i, j \in Range(queue') \ {k} : Before(queue', i, j) => Before(queue, i, j)
  BY DEF Called, Evicts, Dict, DictInv
<1>2. /\ DOMAIN tree' = Range(queue') /\ Range(queue') \subseteq Keys
      /\ \A j \in Keys : ~Before(queue', j, k)
  <2>1. DOMAIN Dict'.tree = Range(Dict'.queue) /\ Range(Dict'.queue) \subseteq Keys
    BY <1>1, GoodFacts
  <2>2. Dict'.tree = tree' /\ Dict'.queue = queue'
    BY DEF Dict
  <2> QED BY <2>1, <2>2 DEF Called, AtHead
<1>3. /\ used \in Seq(Keys) /\ Range(queue) \subseteq Range(used)
      /\ \A i, j \in Keys : Before(queue, i, j) => Before(used, i, j)
  BY DEF DictInv, InOrderOfUse
<1>4. \A i, j \in Keys : Before(queue', i, j) => i \in Range(queue') /\ j \in Range(queue')
  BY DEF Before, Range
<1>5. InOrderOfUse'
  <2>1. CASE k \in DOMAIN tree'
    <3> DEFINE h == ToHead(used, k)
    <3>1. used' = h
      BY <2>1 DEF Called
    <3>2. /\ h \in Seq(Keys)
          /\ Range(h) = Range(used) \cup {k}
          /\ \A a, b \in Keys \ {k} : Before(h, a, b) <=> Before(used, a, b)
          /\ \A b \in Keys : Before(h, k, b) <=> b \in Range(used) \ {k}
      BY <1>3, ToHeadFacts
    <3> HIDE DEF h
    <3>3. ASSUME NEW i \in Keys, NEW j \in Keys, Before(queue', i, j) PROVE Before(h, i, j)
      <4>1. j # k /\ j \in Range(queue') /\ i \in Range(queue')
        BY <1>2, <1>4, <3>3
      <4>2. CASE i = k
        BY <1>1, <1>3, <3>2, <4>1, <4>2
      <4>3. CASE i # k
        BY <1>1, <1>3, <3>2, <3>3, <4>1, <4>3
      <4> QED BY <4>2, <4>3
    <3>4. Range(queue') \subseteq Range(h)
      BY <1>1, <1>3, <3>2
    <3> QED BY <3>1, <3>2, <3>3, <3>4 DEF InOrderOfUse
  <2>2. CASE k \notin DOMAIN tree'
    <3>1. used' = used
      BY <2>2 DEF Called
    <3>2. Range(queue') \subseteq Range(queue) /\ k \notin Range(queue')
      BY <1>1, <1>2, <2>2
    <3>3. \A i, j \in Keys : Before(queue', i, j) => Before(queue, i, j)
      BY <1>1, <1>4, <3>2
    <3> QED BY <1>3, <3>1, <3>2, <3>3 DEF InOrderOfUse
  <2> QED BY <2>1, <2>2
<1>6. now' \in [Procs -> FirstTime .. MaxTime]
  BY <1>1 DEF DictInv
<1> QED BY <1>1, <1>5, <1>6 DEF DictInv

\* So does a flush.
LEMMA FlushKeepsInv ==
  ASSUME DictInv, Good(Dict'), Bytes(Dict') <= Capacity,
         Range(queue') \subseteq Range(queue),
         \A j, k \in Range(queue') : Before(queue', j, k) => Before(queue, j, k),
         used' = used, now' = now
  PROVE  DictInv'
<1>1. \A i, j \in Keys : Before(queue', i, j) => i \in Range(queue') /\ j \in Range(queue')
  BY DEF Before, Range
<1>2. InOrderOfUse'
  BY <1>1 DEF DictInv, InOrderOfUse
<1>3. now' \in [Procs -> FirstTime .. MaxTime]
  BY DEF DictInv
<1> QED BY <1>2, <1>3 DEF DictInv

LEMMA TickKeepsInv ==
  ASSUME DictInv, NEW p \in Procs, Tick(p)
  PROVE  DictInv'
<1>1. UNCHANGED <<tree, queue, used>> /\ Dict' = Dict
  BY DEF Tick, Dict
<1>2. now \in [Procs -> FirstTime .. MaxTime] /\ MaxTime \in Nat /\ FirstTime \in Nat
  BY DictAssumption DEF DictInv, FirstTime
<1>3. now[p] < MaxTime /\ now' = [now EXCEPT ![p] = @ + 1]
  BY DEF Tick
<1>4. now[p] + 1 \in FirstTime .. MaxTime
  BY <1>2, <1>3
<1>5. now' \in [Procs -> FirstTime .. MaxTime]
  BY <1>2, <1>3, <1>4
<1>6. InOrderOfUse'
  BY <1>1 DEF DictInv, InOrderOfUse
<1> QED BY <1>1, <1>5, <1>6 DEF DictInv

\* Every step is a call about a key, a flush, or a tick of a clock.
LEMMA StepCases ==
  ASSUME DictInv, Next
  PROVE  \/ \E k \in Keys : Called(k)
         \/ \E p \in Procs : FlushAll(p) \/ FlushExpired(p) \/ Tick(p)
<1>1. PICK p \in Procs :
        \/ \E k \in Keys : Get(p, k) \/ Delete(p, k) \/ Incr(p, k)
        \/ \E k \in Keys, v \in Stored, ttl \in TTLs : Set(p, k, v, ttl) \/ Add(p, k, v, ttl)
        \/ FlushAll(p) \/ FlushExpired(p) \/ Tick(p)
  BY DEF Next
<1>2. ASSUME NEW k \in Keys, Get(p, k) \/ Delete(p, k) \/ Incr(p, k) PROVE Called(k)
  BY <1>2, GetFacts, DeleteFacts, IncrFacts
<1>3. ASSUME NEW k \in Keys, NEW v \in Stored, NEW ttl \in TTLs,
             Set(p, k, v, ttl) \/ Add(p, k, v, ttl)
      PROVE  Called(k)
  BY <1>3, SetFacts, AddFacts
<1> QED BY <1>1, <1>2, <1>3

LEMMA StepDict == DictInv /\ [Next]_vars => DictInv'
<1> SUFFICES ASSUME DictInv, [Next]_vars PROVE DictInv'
  OBVIOUS
<1>1. ASSUME NEW k \in Keys, Called(k) PROVE DictInv'
  BY <1>1, CalledKeepsInv
<1>2. ASSUME NEW p \in Procs, FlushAll(p) PROVE DictInv'
  BY <1>2, FlushAllFacts, FlushKeepsInv
<1>3. ASSUME NEW p \in Procs, FlushExpired(p) PROVE DictInv'
  BY <1>3, FlushExpiredFacts, FlushKeepsInv
<1>4. ASSUME NEW p \in Procs, Tick(p) PROVE DictInv'
  BY <1>4, TickKeepsInv
<1>5. CASE UNCHANGED vars
  BY <1>5 DEF vars, DictInv, Dict, InOrderOfUse
<1>6. CASE Next
  BY <1>1, <1>2, <1>3, <1>4, <1>6, StepCases
<1> QED BY <1>5, <1>6

\* The queue links every node exactly once, every node has its type and the slab
\* is never overdrawn, for every sequence of calls (ngx_http_lua_shdict.c:231-286, 813-1122).
THEOREM DictTypeCorrect == Spec => []TypeOK
<1>1. DictInv => TypeOK
  <2> SUFFICES ASSUME DictInv PROVE TypeOK
    OBVIOUS
  <2>1. Good(Dict) /\ Dict.tree = tree /\ Dict.queue = queue
    BY DEF DictInv, Dict
  <2>2. /\ DOMAIN tree = Range(queue) /\ Range(queue) \subseteq Keys
        /\ \A k \in DOMAIN tree : tree[k] \in Node
    BY <2>1, GoodFacts
  <2>3. Range(tree) \subseteq Node
    BY <2>2 DEF Range
  <2>4. IsInjective(queue)
    BY <2>1 DEF Good
  <2> QED BY <2>2, <2>3, <2>4 DEF DictInv, TypeOK
<1> QED BY <1>1, InitDict, StepDict, PTL DEF Spec

-----------------------------------------------------------------------------
(* The least recently used entries go *)

\* What a step of LeastRecentlyUsedGoes may do.
OldestGoes ==
  \A j, k \in Range(queue) \ {reply'.key} :
       /\ j \notin DOMAIN tree' /\ k \in DOMAIN tree'
       /\ \A p \in Procs : tree[j].expires = 0 \/ tree[j].expires > now[p]
       => \/ reply'.op = "flush_all"
          \/ \E m, n \in DOMAIN used : m < n /\ used[m] = k /\ used[n] = j

LEMMA StepOldestGoes == DictInv /\ Next => OldestGoes
<1> SUFFICES ASSUME DictInv, Next,
                    NEW j \in Range(queue) \ {reply'.key}, NEW k \in Range(queue) \ {reply'.key},
                    j \notin DOMAIN tree', k \in DOMAIN tree',
                    \A p \in Procs : tree[j].expires = 0 \/ tree[j].expires > now[p]
             PROVE  \/ reply'.op = "flush_all"
                    \/ \E m, n \in DOMAIN used : m < n /\ used[m] = k /\ used[n] = j
  BY DEF OldestGoes
<1>0. /\ Dict.tree = tree /\ Dict.queue = queue /\ DOMAIN tree = Range(queue)
      /\ Range(queue) \subseteq Keys
      /\ \A i \in DOMAIN tree : tree[i].expires \in Nat
  <2>1. Good(Dict) /\ Dict.tree = tree /\ Dict.queue = queue
    BY DEF DictInv, Dict
  <2> QED BY <2>1, GoodFacts
<1>1. ASSUME NEW c \in Keys, Called(c)
      PROVE  \E m, n \in DOMAIN used : m < n /\ used[m] = k /\ used[n] = j
  <2>1. reply'.key = c /\ Good(Dict') /\ Dict'.tree = tree' /\ Dict'.queue = queue'
    BY <1>1 DEF Called, Evicts, Dict
  <2>2. DOMAIN tree' = Range(queue')
    BY <2>1, GoodFacts
  <2>3. \A a \in Range(queue) \ {c}, b \in Range(queue') \ {c} :
          a \notin Range(queue') => Before(queue, b, a)
    BY <1>0, <1>1, <2>1 DEF Called, Evicts
  <2>4. Before(queue, k, j)
    BY <2>1, <2>2, <2>3
  <2>5. Before(used, k, j)
    BY <1>0, <2>4 DEF DictInv, InOrderOfUse
  <2> QED BY <2>5 DEF Before
<1>2. ASSUME NEW p \in Procs, FlushAll(p) PROVE reply'.op = "flush_all"
  <2>1. reply' = Lossy!Answer("flush_all", Nil, Nil, "ok", FALSE)
    BY <1>2, FlushAllFacts
  <2> QED BY <2>1 DEF Lossy!Answer
<1>3. ASSUME NEW p \in Procs, FlushExpired(p) PROVE FALSE
  <2>1. Dead(tree[j], now[p])
    BY <1>0, <1>3, FlushExpiredFacts
  <2>2. now[p] \in Nat /\ tree[j].expires \in Nat
    BY <1>0, DictAssumption DEF DictInv, FirstTime
  <2> QED BY <2>1, <2>2 DEF Dead
<1>4. ASSUME NEW p \in Procs, Tick(p) PROVE FALSE
  BY <1>0, <1>4 DEF Tick
<1> QED BY <1>1, <1>2, <1>3, <1>4, StepCases

\* However the processes' calls interleave, a store takes no entry that has not
\* expired while it spares one used less recently (ngx_http_lua_shdict.c:197-198, 257-275).
THEOREM LeastRecentlyUsedFirst == Spec => LeastRecentlyUsedGoes
<1>1. DictInv /\ [Next]_vars => [OldestGoes]_vars
  BY StepOldestGoes
<1> QED BY <1>1, InitDict, StepDict, PTL DEF Spec, LeastRecentlyUsedGoes, OldestGoes

-----------------------------------------------------------------------------
(* The dictionary implements LossyDict *)

\* What the callers see of the nodes.
SeenRight ==
  /\ Seen \in [Keys -> Lossy!Entry \cup {Nil}]
  /\ \A k \in Keys : Visible(k) => /\ Seen[k].value = tree[k].value
                                   /\ Seen[k] = [value |-> tree[k].value, mortal |-> tree[k].expires # 0]
                                   /\ Seen[k] # Nil
  /\ \A k \in Keys : ~Visible(k) => Seen[k] = Nil
  /\ \A k \in Keys : k \in Lossy!Mortal <=> Visible(k) /\ tree[k].expires # 0

LEMMA DictSeen == DictInv => SeenRight
<1> SUFFICES ASSUME DictInv PROVE SeenRight
  OBVIOUS
<1>0. /\ DOMAIN tree \subseteq Keys
      /\ \A k \in DOMAIN tree : tree[k] \in Node
  <2>1. Good(Dict) /\ Dict.tree = tree /\ Dict.queue = queue
    BY DEF DictInv, Dict
  <2> QED BY <2>1, GoodFacts
<1>1. Nil \notin [value : Values, mortal : BOOLEAN] /\ Lossy!Entry = [value : Values, mortal : BOOLEAN]
  BY DictAssumption DEF Lossy!Entry, Lossy!Values, Values
<1> DEFINE entry(k) == [value |-> tree[k].value, mortal |-> tree[k].expires # 0]
<1>2. ASSUME NEW k \in Keys, Visible(k)
      PROVE  entry(k) \in Lossy!Entry /\ entry(k) # Nil /\ Seen[k] = entry(k)
  <2>1. tree[k].value \in Values /\ (tree[k].expires # 0) \in BOOLEAN
    BY <1>0, <1>2 DEF Visible, Node
  <2>2. entry(k) \in [value : Values, mortal : BOOLEAN]
    BY <2>1
  <2>3. Seen[k] = entry(k)
    BY <1>2 DEF Seen
  <2> QED BY <1>1, <2>2, <2>3
<1>3. ASSUME NEW k \in Keys, ~Visible(k) PROVE Seen[k] = Nil
  BY <1>3 DEF Seen
<1>4. Seen \in [Keys -> Lossy!Entry \cup {Nil}]
  <2>1. \A k \in Keys : Seen[k] \in Lossy!Entry \cup {Nil}
    BY <1>2, <1>3
  <2>2. Seen = [k \in Keys |-> Seen[k]]
    BY DEF Seen
  <2> QED BY <2>1, <2>2
<1>5. ASSUME NEW k \in Keys PROVE k \in Lossy!Mortal <=> Visible(k) /\ tree[k].expires # 0
  <2>1. k \in Lossy!Mortal <=> Seen[k] # Nil /\ Seen[k].mortal
    BY DEF Lossy!Mortal
  <2>2. CASE Visible(k)
    <3>1. Seen[k] = entry(k) /\ Seen[k] # Nil
      BY <1>2, <2>2
    <3>2. entry(k).mortal = (tree[k].expires # 0)
      OBVIOUS
    <3>3. Seen[k].mortal = (tree[k].expires # 0)
      <4> HIDE DEF entry
      <4> QED BY <3>1, <3>2
    <3> QED BY <2>1, <2>2, <3>1, <3>3
  <2>3. CASE ~Visible(k)
    BY <1>3, <2>1, <2>3
  <2> QED BY <2>2, <2>3
<1>6. ASSUME NEW k \in Keys, Visible(k) PROVE Seen[k].value = tree[k].value
  <2>1. Seen[k] = entry(k)
    BY <1>2, <1>6
  <2> QED BY <2>1
<1> QED BY <1>2, <1>3, <1>4, <1>5, <1>6 DEF SeenRight

LEMMA StepSeen == DictInv /\ [Next]_vars => SeenRight /\ SeenRight'
BY DictSeen, StepDict, PTL

\* Nodes that stay as they are, or are lost as they may be, are kept.
LEMMA KeptFacts ==
  ASSUME SeenRight, SeenRight', now' = now, NEW K \in SUBSET Keys, NEW lost,
         \A k \in K : k \in DOMAIN tree' => k \in DOMAIN tree /\ tree'[k] = tree[k],
         \A k \in K : Visible(k) /\ k \notin DOMAIN tree' => k \in lost
  PROVE  Lossy!Kept(K, lost)
<1>1. Seen' \in [Keys -> Lossy!Entry \cup {Nil}]
  BY DEF SeenRight
<1>2. ASSUME NEW k \in K PROVE Seen'[k] = Seen[k] \/ (k \in lost /\ Seen'[k] = Nil)
  <2>1. CASE k \in DOMAIN tree'
    <3>1. tree'[k] = tree[k] /\ (Visible(k)' <=> Visible(k))
      BY <2>1 DEF Visible
    <3>2. CASE Visible(k)
      <4>1. Seen[k] = [value |-> tree[k].value, mortal |-> tree[k].expires # 0]
        BY <3>2 DEF SeenRight
      <4>2. Seen'[k] = [value |-> tree'[k].value, mortal |-> tree'[k].expires # 0]
        BY <3>1, <3>2 DEF SeenRight
      <4> QED BY <3>1, <4>1, <4>2
    <3>3. CASE ~Visible(k)
      BY <3>1, <3>3 DEF SeenRight
    <3> QED BY <3>2, <3>3
  <2>2. CASE k \notin DOMAIN tree'
    <3>1. ~Visible(k)'
      BY <2>2 DEF Visible
    <3>2. Seen'[k] = Nil
      BY <3>1 DEF SeenRight
    <3> QED BY <2>2, <3>2 DEF SeenRight
  <2> QED BY <2>1, <2>2
<1> QED BY <1>1, <1>2 DEF Lossy!Kept

\* A call about a key keeps the other keys, if not by force.
LEMMA CalledKeepsOthers ==
  ASSUME DictInv, SeenRight, SeenRight', NEW k \in Keys, Called(k)
  PROVE  /\ Lossy!Kept(Keys \ {k}, Keys)
         /\ Spares(Dict, Dict', {k}) => Lossy!Kept(Keys \ {k}, Lossy!Mortal)
<1> DEFINE K == Keys \ {k}
<1>0. /\ Dict.tree = tree /\ Dict.queue = queue /\ Dict'.tree = tree' /\ Dict'.queue = queue'
      /\ Good(Dict) /\ Evicts(Dict, Dict', {k}) /\ Good(Dict') /\ now' = now
  BY DEF Called, Evicts, Dict, DictInv
<1>1. DOMAIN tree = Range(queue) /\ DOMAIN tree' = Range(queue')
  BY <1>0, GoodFacts
<1>2. \A j \in K : j \in DOMAIN tree' => j \in DOMAIN tree /\ tree'[j] = tree[j]
  BY <1>0, <1>1 DEF Evicts
<1>3. K \in SUBSET Keys
  OBVIOUS
<1> HIDE DEF K
<1>4. Lossy!Kept(K, Keys)
  BY <1>0, <1>2, <1>3, KeptFacts
<1>5. ASSUME Spares(Dict, Dict', {k}) PROVE Lossy!Kept(K, Lossy!Mortal)
  <2>1. \A j \in K : Visible(j) /\ j \notin DOMAIN tree' => j \in Lossy!Mortal
    <3>1. \A j \in K : j \in DOMAIN tree /\ j \notin DOMAIN tree' => tree[j].expires # 0
      BY <1>0, <1>1, <1>5 DEF Spares, K
    <3> QED BY <1>3, <3>1 DEF SeenRight, Visible
  <2> QED BY <1>0, <1>2, <1>3, <2>1, KeptFacts
<1> QED BY <1>4, <1>5 DEF K

\* What a lookup tells of the key, by the clock of the process
\* (ngx_http_lua_shdict.c:162-228).
LEMMA LookupFacts ==
  ASSUME DictInv, SeenRight, NEW p \in Procs, NEW k \in Keys
  PROVE  LET d == Expire(Dict, now[p])
         IN  /\ \A j \in Keys : j \in DOMAIN d.tree => j \in DOMAIN tree /\ d.tree[j] = tree[j]
             /\ \A j \in Keys : Visible(j) /\ j \notin DOMAIN d.tree => j \in Lossy!Mortal
             /\ Lookup(d, k, now[p]) = "ok" => k \in DOMAIN d.tree /\ Visible(k)
             /\ Lookup(d, k, now[p]) # "ok" => Lossy!Missing(k)
<1> DEFINE d == Expire(Dict, now[p])
<1>0. /\ Dict.tree = tree /\ Dict.queue = queue /\ Good(Dict)
      /\ Good(d) /\ Spares(Dict, d, {}) /\ Range(d.queue) \subseteq Range(queue)
      /\ \A j \in Range(d.queue) : d.tree[j] = tree[j]
  BY CallStarts DEF Dict, DictInv
<1> HIDE DEF d
<1>1. /\ DOMAIN tree = Range(queue) /\ DOMAIN d.tree = Range(d.queue)
      /\ \A j \in DOMAIN tree : tree[j].expires \in Nat
  BY <1>0, GoodFacts
<1>2. \A j \in Keys : j \in DOMAIN d.tree => j \in DOMAIN tree /\ d.tree[j] = tree[j]
  BY <1>0, <1>1
<1>3. \A j \in Keys : j \in DOMAIN tree /\ j \notin DOMAIN d.tree => tree[j].expires # 0
  BY <1>0, <1>1 DEF Spares
<1>4. \A j \in Keys : Visible(j) /\ j \notin DOMAIN d.tree => j \in Lossy!Mortal
  BY <1>3 DEF SeenRight, Visible
<1>5. now[p] \in Nat
  BY DictAssumption DEF DictInv, FirstTime
<1>6. ASSUME Lookup(d, k, now[p]) = "ok" PROVE k \in DOMAIN d.tree /\ Visible(k)
  <2>1. k \in DOMAIN d.tree /\ ~(d.tree[k].expires # 0 /\ d.tree[k].expires < now[p])
    BY <1>6 DEF Lookup
  <2>2. k \in DOMAIN tree /\ d.tree[k] = tree[k] /\ tree[k].expires \in Nat
    BY <1>1, <1>2, <2>1
  <2>3. tree[k].expires = 0 \/ tree[k].expires >= now[p]
    BY <1>5, <2>1, <2>2
  <2> QED BY <2>1, <2>2, <2>3 DEF Visible
<1>7. ASSUME Lookup(d, k, now[p]) # "ok" PROVE Lossy!Missing(k)
  <2>1. k \notin DOMAIN d.tree \/ d.tree[k].expires # 0
    BY <1>7 DEF Lookup
  <2>2. Visible(k) => k \in Lossy!Mortal
    BY <1>2, <1>3, <2>1 DEF SeenRight, Visible
  <2>3. ~Visible(k) => Seen[k] = Nil
    BY DEF SeenRight
  <2> QED BY <2>2, <2>3 DEF Lossy!Missing
<1> QED BY <1>2, <1>4, <1>6, <1>7 DEF d

\* What a lookup and nothing else leaves: only entries with an expiry time go,
\* and not the one that was found.
LEMMA OnlyLooked ==
  ASSUME DictInv, SeenRight, SeenRight', NEW p \in Procs, NEW k \in Keys, now' = now,
         tree' = Expire(Dict, now[p]).tree
  PROVE  /\ Lossy!Lose(Lossy!Mortal)
         /\ Lookup(Expire(Dict, now[p]), k, now[p]) = "ok" => Lossy!Lose(Lossy!Mortal \ {k})
<1> DEFINE d == Expire(Dict, now[p])
<1>1. /\ \A j \in Keys : j \in DOMAIN d.tree => j \in DOMAIN tree /\ d.tree[j] = tree[j]
      /\ \A j \in Keys : Visible(j) /\ j \notin DOMAIN d.tree => j \in Lossy!Mortal
      /\ Lookup(d, k, now[p]) = "ok" => k \in DOMAIN d.tree /\ Visible(k)
  BY LookupFacts
<1>2. tree' = d.tree
  OBVIOUS
<1> HIDE DEF d
<1>3. Keys \in SUBSET Keys
  OBVIOUS
<1>4. \A j \in Keys : j \in DOMAIN tree' => j \in DOMAIN tree /\ tree'[j] = tree[j]
  BY <1>1, <1>2
<1>5. \A j \in Keys : Visible(j) /\ j \notin DOMAIN tree' => j \in Lossy!Mortal
  BY <1>1, <1>2
<1>6. Lossy!Kept(Keys, Lossy!Mortal)
  BY <1>3, <1>4, <1>5, KeptFacts
<1>7. ASSUME Lookup(d, k, now[p]) = "ok" PROVE Lossy!Kept(Keys, Lossy!Mortal \ {k})
  <2>1. \A j \in Keys : Visible(j) /\ j \notin DOMAIN tree' => j \in Lossy!Mortal \ {k}
    BY <1>1, <1>2, <1>5, <1>7
  <2> QED BY <1>3, <1>4, <2>1, KeptFacts
<1> QED BY <1>6, <1>7 DEF d, Lossy!Lose

\* get returns what was stored last, or may miss what may expire
\* (ngx_http_lua_shdict.c:380-538).
LEMMA GetMaps ==
  ASSUME DictInv, SeenRight, SeenRight', NEW p \in Procs, NEW k \in Keys, Get(p, k)
  PROVE  Lossy!Get(k)
<1> DEFINE d == Expire(Dict, now[p])
           v == IF Lookup(d, k, now[p]) = "ok" THEN d.tree[k].value ELSE Nil
<1>1. Called(k) /\ tree' = d.tree /\ reply' = Lossy!Answer("get", k, v, "ok", FALSE)
  BY GetFacts
<1>2. now' = now
  BY <1>1 DEF Called
<1>3. Lossy!Lose(Lossy!Mortal)
  BY <1>1, <1>2, OnlyLooked
<1>4. /\ \A j \in Keys : j \in DOMAIN d.tree => j \in DOMAIN tree /\ d.tree[j] = tree[j]
      /\ Lookup(d, k, now[p]) = "ok" => k \in DOMAIN d.tree /\ Visible(k)
      /\ Lookup(d, k, now[p]) # "ok" => Lossy!Missing(k)
  BY LookupFacts
<1> HIDE DEF d
<1>5. CASE Lookup(d, k, now[p]) = "ok"
  <2>1. v = tree[k].value /\ Visible(k)
    BY <1>4, <1>5
  <2>2. Seen[k] # Nil /\ Seen[k].value = v
    BY <2>1 DEF SeenRight
  <2>3. v \in Lossy!Values /\ v # Nil
    <3>1. Good(Dict) /\ Dict.tree = tree
      BY DEF DictInv, Dict
    <3>2. tree[k] \in Node
      BY <1>4, <1>5, <3>1, GoodFacts
    <3> QED BY <2>1, <3>2, DictAssumption DEF Node, Values, Lossy!Values
  <2> HIDE DEF v
  <2> QED BY <1>1, <1>3, <2>2, <2>3 DEF Lossy!Get
<1>6. CASE Lookup(d, k, now[p]) # "ok"
  <2>1. v = Nil /\ Lossy!Missing(k)
    BY <1>4, <1>6
  <2> HIDE DEF v
  <2> QED BY <1>1, <1>3, <2>1 DEF Lossy!Get
<1> QED BY <1>5, <1>6

\* A store leaves the new value or none (ngx_http_lua_shdict.c:973-1122).
LEMMA StoreMaps ==
  ASSUME DictInv, SeenRight, SeenRight', NEW o, NEW k \in Keys, NEW v, Called(k), StoreEnds(o, k, v)
  PROVE  Lossy!Put(o, k, v)
<1>1. PICK forced \in BOOLEAN :
        /\ ~forced => Spares(Dict, Dict', {k})
        /\ \/ /\ reply' = Lossy!Answer(o, k, Nil, "ok", forced)
              /\ k \in DOMAIN tree'
              /\ tree'[k].value = v
              /\ tree'[k].expires = 0 \/ \E p \in Procs : tree'[k].expires >= now[p]
           \/ /\ reply' = Lossy!Answer(o, k, Nil, "no memory", forced)
              /\ k \notin DOMAIN tree'
  BY DEF StoreEnds
<1> DEFINE lost == IF forced THEN Keys ELSE Lossy!Mortal
<1>2. Lossy!Kept(Keys \ {k}, lost)
  <2>1. /\ Lossy!Kept(Keys \ {k}, Keys)
        /\ Spares(Dict, Dict', {k}) => Lossy!Kept(Keys \ {k}, Lossy!Mortal)
    BY CalledKeepsOthers
  <2>2. CASE forced
    BY <2>1, <2>2
  <2>3. CASE ~forced
    BY <1>1, <2>1, <2>3
  <2> QED BY <2>2, <2>3
<1>3. now' = now
  BY DEF Called
<1> HIDE DEF lost
<1>4. ASSUME reply' = Lossy!Answer(o, k, Nil, "ok", forced), k \in DOMAIN tree', tree'[k].value = v,
             tree'[k].expires = 0 \/ \E p \in Procs : tree'[k].expires >= now[p]
      PROVE  \E m \in BOOLEAN : Lossy!LoseAnd(lost, k, [value |-> v, mortal |-> m])
  <2>1. Visible(k)'
    BY <1>3, <1>4 DEF Visible
  <2> DEFINE m == tree'[k].expires # 0
  <2>2. Seen'[k] = [value |-> tree'[k].value, mortal |-> m]
    BY <2>1 DEF SeenRight
  <2>3. m \in BOOLEAN
    OBVIOUS
  <2> HIDE DEF m
  <2>4. Lossy!LoseAnd(lost, k, [value |-> v, mortal |-> m])
    BY <1>2, <1>4, <2>2 DEF Lossy!LoseAnd
  <2> QED BY <2>3, <2>4
<1>5. ASSUME reply' = Lossy!Answer(o, k, Nil, "no memory", forced), k \notin DOMAIN tree'
      PROVE  Lossy!LoseAnd(lost, k, Nil)
  <2>1. ~Visible(k)'
    BY <1>5 DEF Visible
  <2>2. Seen'[k] = Nil
    BY <2>1 DEF SeenRight
  <2> QED BY <1>2, <2>2 DEF Lossy!LoseAnd
<1>6. \/ /\ reply' = Lossy!Answer(o, k, Nil, "ok", forced)
         /\ \E m \in BOOLEAN : Lossy!LoseAnd(lost, k, [value |-> v, mortal |-> m])
      \/ /\ reply' = Lossy!Answer(o, k, Nil, "no memory", forced)
         /\ Lossy!LoseAnd(lost, k, Nil)
  BY <1>1, <1>4, <1>5
<1> QED BY <1>6 DEF Lossy!Put, lost

\* add stores only what is missing (ngx_http_lua_shdict.c:943-965).
LEMMA AddMaps ==
  ASSUME DictInv, SeenRight, SeenRight', NEW p \in Procs, NEW k \in Keys, NEW v \in Stored,
         NEW ttl \in TTLs, Add(p, k, v, ttl)
  PROVE  Lossy!Add(k, v)
<1> DEFINE d == Expire(Dict, now[p])
<1>1. /\ Called(k)
      /\ \/ /\ Lookup(d, k, now[p]) = "ok"
            /\ tree' = d.tree
            /\ reply' = Lossy!Answer("add", k, Nil, "exists", FALSE)
         \/ /\ Lookup(d, k, now[p]) # "ok"
            /\ StoreEnds("add", k, v)
  BY AddFacts
<1>2. now' = now
  BY <1>1 DEF Called
<1>3. /\ Lookup(d, k, now[p]) = "ok" => k \in DOMAIN d.tree /\ Visible(k)
      /\ Lookup(d, k, now[p]) # "ok" => Lossy!Missing(k)
  BY LookupFacts
<1>4. CASE Lookup(d, k, now[p]) = "ok"
  <2>1. Lossy!Lose(Lossy!Mortal \ {k})
    BY <1>1, <1>2, <1>4, OnlyLooked
  <2>2. Seen[k] # Nil
    BY <1>3, <1>4 DEF SeenRight
  <2> QED BY <1>1, <1>4, <2>1, <2>2 DEF Lossy!Add
<1>5. CASE Lookup(d, k, now[p]) # "ok"
  <2>1. Lossy!Put("add", k, v)
    BY <1>1, <1>5, StoreMaps
  <2> QED BY <1>3, <1>5, <2>1 DEF Lossy!Add
<1> QED BY <1>4, <1>5

\* delete (ngx_http_lua_shdict.c:542-556).
LEMMA DeleteMaps ==
  ASSUME DictInv, SeenRight, SeenRight', NEW p \in Procs, NEW k \in Keys, Delete(p, k)
  PROVE  Lossy!Delete(k)
<1>1. /\ Called(k) /\ Spares(Dict, Dict', {k}) /\ k \notin DOMAIN tree'
      /\ reply' = Lossy!Answer("delete", k, Nil, "ok", FALSE)
  BY DeleteFacts
<1>2. Lossy!Kept(Keys \ {k}, Lossy!Mortal)
  BY <1>1, CalledKeepsOthers
<1>3. ~Visible(k)'
  BY <1>1 DEF Visible
<1>4. Seen'[k] = Nil
  BY <1>3 DEF SeenRight
<1> QED BY <1>1, <1>2, <1>4 DEF Lossy!Delete, Lossy!LoseAnd

\* incr adds one to what was stored last, and the expiry time stays
\* (ngx_http_lua_shdict.c:1126-1228).
LEMMA IncrMaps ==
  ASSUME DictInv, SeenRight, SeenRight', NEW p \in Procs, NEW k \in Keys, Incr(p, k)
  PROVE  Lossy!Incr(k)
<1> DEFINE d == Expire(Dict, now[p])
<1>1. /\ Called(k)
      /\ \/ /\ Lookup(d, k, now[p]) # "ok"
            /\ tree' = d.tree
            /\ reply' = Lossy!Answer("incr", k, Nil, "not found", FALSE)
         \/ /\ Lookup(d, k, now[p]) = "ok"
            /\ d.tree[k].value \notin Numbers
            /\ tree' = d.tree
            /\ reply' = Lossy!Answer("incr", k, Nil, "not a number", FALSE)
         \/ /\ Lookup(d, k, now[p]) = "ok"
            /\ d.tree[k].value \in Numbers
            /\ Spares(Dict, Dict', {k})
            /\ k \in DOMAIN tree'
            /\ tree'[k].value = d.tree[k].value + 1
            /\ tree'[k].expires = d.tree[k].expires
            /\ reply' = Lossy!Answer("incr", k, d.tree[k].value + 1, "ok", FALSE)
  BY IncrFacts
<1>2. now' = now
  BY <1>1 DEF Called
<1>3. /\ \A j \in Keys : j \in DOMAIN d.tree => j \in DOMAIN tree /\ d.tree[j] = tree[j]
      /\ Lookup(d, k, now[p]) = "ok" => k \in DOMAIN d.tree /\ Visible(k)
      /\ Lookup(d, k, now[p]) # "ok" => Lossy!Missing(k)
  BY LookupFacts
<1>4. CASE Lookup(d, k, now[p]) # "ok"
  <2>1. Lossy!Lose(Lossy!Mortal)
    BY <1>1, <1>2, <1>4, OnlyLooked
  <2> QED BY <1>1, <1>3, <1>4, <2>1 DEF Lossy!Incr
<1>5. ASSUME Lookup(d, k, now[p]) = "ok"
      PROVE  /\ d.tree[k] = tree[k] /\ Visible(k) /\ Seen[k] # Nil
             /\ Seen[k].value = tree[k].value
             /\ Seen[k] = [value |-> tree[k].value, mortal |-> tree[k].expires # 0]
             /\ tree[k].value \in Data \cup Numbers
  <2>1. d.tree[k] = tree[k] /\ Visible(k) /\ k \in DOMAIN tree
    BY <1>3, <1>5
  <2>2. /\ Seen[k] # Nil /\ Seen[k].value = tree[k].value
        /\ Seen[k] = [value |-> tree[k].value, mortal |-> tree[k].expires # 0]
    BY <2>1 DEF SeenRight
  <2>3. Good(Dict) /\ Dict.tree = tree
    BY DEF DictInv, Dict
  <2>4. tree[k] \in Node
    BY <2>1, <2>3, GoodFacts
  <2> QED BY <2>1, <2>2, <2>4 DEF Node, Values
<1>6. CASE Lookup(d, k, now[p]) = "ok" /\ d.tree[k].value \notin Numbers
  <2>1. Lossy!Lose(Lossy!Mortal \ {k})
    BY <1>1, <1>2, <1>6, OnlyLooked
  <2>2. Seen[k] # Nil /\ Seen[k].value \in Data
    BY <1>5, <1>6
  <2> QED BY <1>1, <1>6, <2>1, <2>2 DEF Lossy!Incr
<1>7. CASE Lookup(d, k, now[p]) = "ok" /\ d.tree[k].value \in Numbers
  <2> DEFINE n == tree[k].value
  <2>1. /\ n \in Numbers /\ Spares(Dict, Dict', {k}) /\ k \in DOMAIN tree'
        /\ tree'[k].value = n + 1 /\ tree'[k].expires = tree[k].expires
        /\ reply' = Lossy!Answer("incr", k, n + 1, "ok", FALSE)
        /\ Visible(k) /\ Seen[k] # Nil /\ Seen[k].value = n
        /\ Seen[k] = [value |-> n, mortal |-> tree[k].expires # 0]
    BY <1>1, <1>5, <1>7
  <2>2. Lossy!Kept(Keys \ {k}, Lossy!Mortal)
    BY <1>1, <2>1, CalledKeepsOthers
  <2>3. Visible(k)'
    BY <1>2, <2>1 DEF Visible
  <2>4. Seen'[k] = [value |-> tree'[k].value, mortal |-> tree'[k].expires # 0]
    BY <2>3 DEF SeenRight
  <2>5. Seen'[k] = [Seen[k] EXCEPT !.value = n + 1]
    BY <2>1, <2>4
  <2> HIDE DEF n
  <2>6. Lossy!LoseAnd(Lossy!Mortal, k, [Seen[k] EXCEPT !.value = n + 1])
    BY <2>2, <2>5 DEF Lossy!LoseAnd
  <2> QED BY <2>1, <2>6 DEF Lossy!Incr
<1> QED BY <1>4, <1>6, <1>7

\* After flush_all no process finds anything (ngx_http_lua_shdict.c:560-598).
LEMMA FlushAllMaps ==
  ASSUME DictInv, SeenRight', NEW p \in Procs, FlushAll(p)
  PROVE  Lossy!FlushAll
<1>1. /\ \A k \in DOMAIN tree' : tree'[k].expires = 1
      /\ now' = now /\ reply' = Lossy!Answer("flush_all", Nil, Nil, "ok", FALSE)
  BY FlushAllFacts
<1>2. \A q \in Procs : now'[q] \in Int /\ now'[q] >= 2
  BY <1>1, DictAssumption DEF DictInv, FirstTime
<1>3. ASSUME NEW k \in Keys PROVE Seen'[k] = Nil
  <2>1. ~Visible(k)'
    BY <1>1, <1>2 DEF Visible
  <2> QED BY <2>1 DEF SeenRight
<1>4. Seen' \in [Keys -> Lossy!Entry \cup {Nil}]
  BY DEF SeenRight
<1>5. Seen' = [k \in Keys |-> Nil]
  BY <1>3, <1>4
<1> QED BY <1>1, <1>5 DEF Lossy!FlushAll

\* flush_expired (ngx_http_lua_shdict.c:602-675).
LEMMA FlushExpiredMaps ==
  ASSUME DictInv, SeenRight, SeenRight', NEW p \in Procs, FlushExpired(p)
  PROVE  Lossy!FlushExpired
<1>1. /\ Good(Dict') /\ Range(queue') \subseteq Range(queue)
      /\ \A k \in DOMAIN tree' : tree'[k] = tree[k]
      /\ \A k \in DOMAIN tree \ DOMAIN tree' : Dead(tree[k], now[p])
      /\ now' = now
      /\ \E n \in 0 .. Cardinality(Keys) :
           reply' = Lossy!Answer("flush_expired", Nil, n, "ok", FALSE)
  BY FlushExpiredFacts
<1>2. DOMAIN tree' \subseteq DOMAIN tree
  <2>1. /\ Good(Dict) /\ Dict.tree = tree /\ Dict.queue = queue
        /\ Dict'.tree = tree' /\ Dict'.queue = queue'
    BY DEF DictInv, Dict
  <2>2. DOMAIN tree = Range(queue) /\ DOMAIN tree' = Range(queue')
    BY <1>1, <2>1, GoodFacts
  <2> QED BY <1>1, <2>2
<1>3. \A k \in Keys : k \in DOMAIN tree' => k \in DOMAIN tree /\ tree'[k] = tree[k]
  BY <1>1, <1>2
<1>4. \A k \in Keys : Visible(k) /\ k \notin DOMAIN tree' => k \in Lossy!Mortal
  BY <1>1 DEF SeenRight, Visible, Dead
<1>5. Keys \in SUBSET Keys
  OBVIOUS
<1>6. Lossy!Kept(Keys, Lossy!Mortal)
  BY <1>1, <1>3, <1>4, <1>5, KeptFacts
<1>7. Lossy!Cardinality(Keys) = Cardinality(Keys)
  BY DEF Cardinality, Lossy!Cardinality
<1> QED BY <1>1, <1>6, <1>7 DEF Lossy!FlushExpired, Lossy!Lose

\* When a process reads its clock, entries may go out of sight and none comes back
\* (ngx_http_lua_shdict.c:213-224).
LEMMA TickMaps ==
  ASSUME DictInv, SeenRight, SeenRight', NEW p \in Procs, Tick(p)
  PROVE  Lossy!Fade
<1>1. tree' = tree /\ reply' = reply /\ now' = [now EXCEPT ![p] = @ + 1]
  BY DEF Tick
<1>2. \A q \in Procs : now[q] \in Nat /\ now'[q] \in Nat /\ now[q] <= now'[q]
  BY <1>1, DictAssumption DEF DictInv, FirstTime
<1>3. \A k \in DOMAIN tree : tree[k].expires \in Nat
  <2>1. Good(Dict) /\ Dict.tree = tree
    BY DEF DictInv, Dict
  <2> QED BY <2>1, GoodFacts
<1>4. Seen' \in [Keys -> Lossy!Entry \cup {Nil}]
  BY DEF SeenRight
<1>5. ASSUME NEW k \in Keys PROVE Seen'[k] = Seen[k] \/ (k \in Lossy!Mortal /\ Seen'[k] = Nil)
  <2>1. Visible(k)' => Visible(k)
    BY <1>1, <1>2, <1>3 DEF Visible
  <2>2. Visible(k) /\ ~Visible(k)' => tree[k].expires # 0
    BY <1>1 DEF Visible
  <2>3. CASE Visible(k)'
    <3>1. Seen'[k] = [value |-> tree'[k].value, mortal |-> tree'[k].expires # 0]
      BY <2>3 DEF SeenRight
    <3>2. Seen[k] = [value |-> tree[k].value, mortal |-> tree[k].expires # 0]
      BY <2>1, <2>3 DEF SeenRight
    <3> QED BY <1>1, <3>1, <3>2
  <2>4. CASE ~Visible(k)'
    BY <2>2, <2>4 DEF SeenRight
  <2> QED BY <2>3, <2>4
<1> QED BY <1>1, <1>4, <1>5 DEF Lossy!Fade, Lossy!Lose, Lossy!Kept

\* Every step is a step of LossyDict or leaves what the callers see as it is.
LEMMA StepLossy == DictInv /\ [Next]_vars => [Lossy!Next]_(Lossy!lossyVars)
<1> SUFFICES ASSUME DictInv, [Next]_vars PROVE Lossy!Next \/ UNCHANGED Lossy!lossyVars
  OBVIOUS
<1>0. SeenRight /\ SeenRight'
  BY StepSeen
<1>1. CASE UNCHANGED vars
  BY <1>1 DEF vars, Lossy!lossyVars, Seen, Visible
<1>2. CASE Next
  <2>1. PICK p \in Procs :
          \/ \E k \in Keys : Get(p, k) \/ Delete(p, k) \/ Incr(p, k)
          \/ \E k \in Keys, v \in Stored, ttl \in TTLs : Set(p, k, v, ttl) \/ Add(p, k, v, ttl)
          \/ FlushAll(p) \/ FlushExpired(p) \/ Tick(p)
    BY <1>2 DEF Next
  <2>2. ASSUME NEW k \in Keys, Get(p, k) \/ Delete(p, k) \/ Incr(p, k)
        PROVE  Lossy!Get(k) \/ Lossy!Delete(k) \/ Lossy!Incr(k)
    BY <1>0, <2>2, GetMaps, DeleteMaps, IncrMaps
  <2>3. ASSUME NEW k \in Keys, NEW v \in Stored, NEW ttl \in TTLs,
               Set(p, k, v, ttl) \/ Add(p, k, v, ttl)
        PROVE  v \in Lossy!Values /\ (Lossy!Set(k, v) \/ Lossy!Add(k, v))
    <3>1. v \in Lossy!Values
      BY DictAssumption DEF Stored, Numbers, Lossy!Values
    <3>2. ASSUME Set(p, k, v, ttl) PROVE Lossy!Put("set", k, v)
      BY <1>0, <3>2, SetFacts, StoreMaps
    <3>3. ASSUME Add(p, k, v, ttl) PROVE Lossy!Add(k, v)
      BY <1>0, <3>3, AddMaps
    <3> QED BY <2>3, <3>1, <3>2, <3>3 DEF Lossy!Set
  <2>4. FlushAll(p) => Lossy!FlushAll
    BY <1>0, FlushAllMaps
  <2>5. FlushExpired(p) => Lossy!FlushExpired
    BY <1>0, FlushExpiredMaps
  <2>6. Tick(p) => Lossy!Fade
    BY <1>0, TickMaps
  <2> QED BY <2>1, <2>2, <2>3, <2>4, <2>5, <2>6 DEF Lossy!Next
<1> QED BY <1>1, <1>2

LEMMA InitLossy == Init => Lossy!Init
<1> SUFFICES ASSUME Init PROVE Lossy!Init
  OBVIOUS
<1>1. DOMAIN tree = {} /\ reply = Lossy!NoReply
  BY DEF Init
<1>2. \A k \in Keys : ~Visible(k)
  BY <1>1 DEF Visible
<1>3. Seen = [k \in Keys |-> Nil]
  BY <1>2 DEF Seen
<1> QED BY <1>1, <1>3 DEF Lossy!Init

\* The tree, the queue and the eviction of the shared dictionary implement the
\* dictionary that may forget, for any number of processes with clocks of their
\* own (ngx_http_lua_shdict.c:162-286, 380-675, 813-1228).
THEOREM DictImplementsLossyDict == Spec => ImplementsLossyDict
BY InitDict, StepDict, InitLossy, StepLossy, PTL DEF Spec, ImplementsLossyDict, Lossy!Spec

=============================================================================
