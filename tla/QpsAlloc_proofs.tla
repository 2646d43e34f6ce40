--------------------------- MODULE QpsAlloc_proofs ---------------------------
(***************************************************************************)
(* Proofs about QpsAlloc, for any number of workers, any set of rounds and *)
(* any quotas.                                                             *)
(***************************************************************************)
EXTENDS QpsAlloc, WellFoundedInduction, TLAPS

-----------------------------------------------------------------------------
(* Induction over the natural numbers, stated with a set: the provers      *)
(* cannot instantiate the predicate of the library's theorem.              *)

\* A set of naturals that has 0 and is closed under successor has all.  The sums
\* of center.lua:329-363 are loops over the workers, and this is how their
\* invariants are proved.
LEMMA SetInduction ==
  ASSUME NEW S, 0 \in S, \A n \in Nat : n \in S => n + 1 \in S
  PROVE  Nat \subseteq S
<1> DEFINE T == Nat \ S
           Less == {p \in Nat \X Nat : p[1] < p[2]}
<1> SUFFICES ASSUME T # {} PROVE FALSE
  OBVIOUS
<1>1. IsWellFoundedOn(Less, Nat)
  BY NatLessThanWellFounded DEF OpToRel
<1>2. PICK x \in T : \A y \in T : ~(<<y, x>> \in Less)
  <2> HIDE DEF Less
  <2> QED BY <1>1, WFMin
<1>3. x \in Nat \ {0}
  OBVIOUS
<1>4. x - 1 \in T
  <2>1. x - 1 \in Nat /\ (x - 1) + 1 = x
    BY <1>3
  <2> QED BY <2>1
<1>5. <<x - 1, x>> \in Less
  BY <1>3
<1> QED BY <1>2, <1>4, <1>5

\* Induction up to N, the form the lemmas about the loops over the workers use
\* (center.lua:331-352).
LEMMA InductionToN ==
  ASSUME NEW S, 0 \in S, \A n \in 0 .. N - 1 : n \in S => n + 1 \in S
  PROVE  0 .. N \subseteq S
<1> DEFINE T == {n \in Nat : n <= N => n \in S}
<1>1. 0 \in T
  OBVIOUS
<1>2. ASSUME NEW n \in Nat, n \in T PROVE n + 1 \in T
  <2> SUFFICES ASSUME n + 1 <= N PROVE n + 1 \in S
    OBVIOUS
  <2>1. n \in 0 .. N - 1 /\ n <= N
    BY NAssumption
  <2>2. n \in S
    BY <1>2, <2>1
  <2> QED BY <2>1, <2>2
<1>3. Nat \subseteq T
  <2> HIDE DEF T
  <2> QED BY <1>1, <1>2, SetInduction
<1> QED BY <1>3, NAssumption

-----------------------------------------------------------------------------
(* Sums *)

\* A table of partial sums of f exists up to every n: the loop that adds up the
\* workers' numbers (center.lua:331-334, 348-352) has a result.
LEMMA SumsExist ==
  ASSUME NEW f \in [Workers -> Int]
  PROVE  \E g \in [0 .. N -> Int] :
           g[0] = 0 /\ \A i \in 1 .. N : g[i] = g[i - 1] + f[i]
<1> DEFINE Good(n, g) == g[0] = 0 /\ \A i \in 1 .. n : g[i] = g[i - 1] + f[i]
           S == {n \in 0 .. N : \E g \in [0 .. N -> Int] : Good(n, g)}
<1>1. 0 \in S
  <2>1. [i \in 0 .. N |-> 0] \in [0 .. N -> Int] /\ Good(0, [i \in 0 .. N |-> 0])
    BY NAssumption
  <2> HIDE DEF Good
  <2> QED BY <2>1, NAssumption
<1>2. ASSUME NEW n \in 0 .. N - 1, n \in S PROVE n + 1 \in S
  <2>1. PICK g \in [0 .. N -> Int] : Good(n, g)
    BY <1>2
  <2>2. n \in 0 .. N /\ n + 1 \in 1 .. N /\ n + 1 \in 0 .. N
    BY NAssumption
  <2> DEFINE h == [g EXCEPT ![n + 1] = g[n] + f[n + 1]]
  <2>3. h \in [0 .. N -> Int]
    BY <2>2 DEF Workers
  <2>4. Good(n + 1, h)
    <3>1. h[0] = 0
      BY <2>1, <2>2
    <3>2. ASSUME NEW i \in 1 .. n + 1 PROVE h[i] = h[i - 1] + f[i]
      <4>1. CASE i = n + 1
        BY <2>2, <4>1
      <4>2. CASE i # n + 1
        <5>1. i \in 1 .. n /\ i \in 0 .. N /\ i - 1 \in 0 .. N /\ i - 1 # n + 1
          BY <2>2, <4>2, NAssumption
        <5> QED BY <2>1, <4>2, <5>1
      <4> QED BY <4>1, <4>2
    <3> QED BY <3>1, <3>2
  <2> HIDE DEF Good, h
  <2> QED BY <2>2, <2>3, <2>4
<1>3. N \in S
  <2> HIDE DEF S
  <2>1. 0 .. N \subseteq S
    BY <1>1, <1>2, InductionToN
  <2> QED BY <2>1, NAssumption
<1> QED BY <1>3

\* What the definition of PartialSums by recursion comes to (center.lua:331-334).
LEMMA PartialSumsDef ==
  ASSUME NEW f \in [Workers -> Int]
  PROVE  /\ PartialSums(f) \in [0 .. N -> Int]
         /\ PartialSums(f)[0] = 0
         /\ \A i \in 1 .. N : PartialSums(f)[i] = PartialSums(f)[i - 1] + f[i]
<1> DEFINE Table(g) == [i \in 0 .. N |-> IF i = 0 THEN 0 ELSE g[i - 1] + f[i]]
           ps == CHOOSE g : g = Table(g)
<1>1. PICK g \in [0 .. N -> Int] :
        g[0] = 0 /\ \A i \in 1 .. N : g[i] = g[i - 1] + f[i]
  BY SumsExist
<1>2. g = Table(g)
  <2>1. ASSUME NEW i \in 0 .. N PROVE g[i] = Table(g)[i]
    <3>1. CASE i = 0
      BY <1>1, <3>1
    <3>2. CASE i # 0
      <4>1. i \in 1 .. N
        BY <3>2, NAssumption
      <4> QED BY <1>1, <3>2, <4>1
    <3> QED BY <3>1, <3>2
  <2> QED BY <2>1
<1>3. ps = Table(ps)
  <2> HIDE DEF Table
  <2> QED BY <1>2
<1>4. PartialSums(f) = ps
  BY DEF PartialSums
<1> HIDE DEF ps
<1>5. ps[0] = 0
  BY <1>3, NAssumption
<1>6. ASSUME NEW i \in 1 .. N PROVE ps[i] = ps[i - 1] + f[i]
  <2>1. i \in 0 .. N /\ i # 0
    BY NAssumption
  <2> QED BY <1>3, <2>1
<1>7. ASSUME NEW i \in 0 .. N PROVE ps[i] \in Int
  <2> DEFINE S == {j \in 0 .. N : ps[j] \in Int}
  <2>1. 0 \in S
    BY <1>5, NAssumption
  <2>2. ASSUME NEW n \in 0 .. N - 1, n \in S PROVE n + 1 \in S
    <3>1. n + 1 \in 1 .. N /\ n + 1 \in 0 .. N /\ (n + 1) - 1 = n
      BY NAssumption
    <3>2. ps[n + 1] = ps[n] + f[n + 1]
      BY <1>6, <3>1
    <3> QED BY <2>2, <3>1, <3>2 DEF Workers
  <2>3. 0 .. N \subseteq S
    <3> HIDE DEF S
    <3> QED BY <2>1, <2>2, InductionToN
  <2> QED BY <2>3
<1>8. ps \in [0 .. N -> Int]
  BY <1>3, <1>7
<1> QED BY <1>4, <1>5, <1>6, <1>8

\* The sum of whole numbers is one (center.lua:331-334).
LEMMA SumType ==
  ASSUME NEW f \in [Workers -> Int]
  PROVE  Sum(f) \in Int
BY PartialSumsDef, NAssumption DEF Sum

\* A sum of numbers that are at most as large is at most as large: why a worker
\* that missed its share (center.lua:393-406) cannot push the others' over.
LEMMA SumMonotone ==
  ASSUME NEW f \in [Workers -> Int], NEW g \in [Workers -> Int],
         \A w \in Workers : f[w] <= g[w]
  PROVE  Sum(f) <= Sum(g)
<1> DEFINE F == PartialSums(f)
           G == PartialSums(g)
           S == {n \in 0 .. N : F[n] <= G[n]}
<1>1. /\ F \in [0 .. N -> Int] /\ F[0] = 0 /\ \A i \in 1 .. N : F[i] = F[i - 1] + f[i]
      /\ G \in [0 .. N -> Int] /\ G[0] = 0 /\ \A i \in 1 .. N : G[i] = G[i - 1] + g[i]
  BY PartialSumsDef
<1> HIDE DEF F, G
<1>2. 0 \in S
  BY <1>1, NAssumption
<1>3. ASSUME NEW n \in 0 .. N - 1, n \in S PROVE n + 1 \in S
  <2>1. n + 1 \in 1 .. N /\ n + 1 \in 0 .. N /\ n \in 0 .. N /\ (n + 1) - 1 = n
    BY NAssumption
  <2>2. F[n + 1] = F[n] + f[n + 1] /\ G[n + 1] = G[n] + g[n + 1]
    BY <1>1, <2>1
  <2>3. f[n + 1] <= g[n + 1] /\ f[n + 1] \in Int /\ g[n + 1] \in Int
    BY <2>1 DEF Workers
  <2>4. F[n] \in Int /\ G[n] \in Int /\ F[n] <= G[n]
    BY <1>1, <1>3, <2>1
  <2> QED BY <2>1, <2>2, <2>3, <2>4
<1>4. N \in S
  <2> HIDE DEF S
  <2>1. 0 .. N \subseteq S
    BY <1>2, <1>3, InductionToN
  <2> QED BY <2>1, NAssumption
<1> QED BY <1>4 DEF Sum, F, G

\* A constant adds up to N times itself: the equal split (center.lua:337-343).
LEMMA SumConstant ==
  ASSUME NEW c \in Int
  PROVE  Sum([w \in Workers |-> c]) = N * c
<1> DEFINE f == [w \in Workers |-> c]
           F == PartialSums(f)
           S == {n \in 0 .. N : F[n] = n * c}
<1>1. F \in [0 .. N -> Int] /\ F[0] = 0 /\ \A i \in 1 .. N : F[i] = F[i - 1] + f[i]
  BY PartialSumsDef
<1> HIDE DEF F
<1>2. 0 \in S
  BY <1>1, NAssumption
<1>3. ASSUME NEW n \in 0 .. N - 1, n \in S PROVE n + 1 \in S
  <2>1. n + 1 \in 1 .. N /\ n + 1 \in 0 .. N /\ (n + 1) - 1 = n
    BY NAssumption
  <2>2. F[n + 1] = n * c + c
    BY <1>1, <1>3, <2>1 DEF Workers
  <2>3. n * c + c = (n + 1) * c
    OBVIOUS
  <2> QED BY <2>1, <2>2, <2>3
<1>4. N \in S
  <2> HIDE DEF S
  <2>1. 0 .. N \subseteq S
    BY <1>2, <1>3, InductionToN
  <2> QED BY <2>1, NAssumption
<1> QED BY <1>4 DEF Sum, F

\* No traffic adds up to 0, the test at center.lua:337.
LEMMA SumZero == Sum([w \in Workers |-> 0]) = 0
BY SumConstant, NAssumption

\* Numbers that are not negative have a sum that is not negative: the traffic
\* the workers report (center.lua:309-317).
LEMMA SumNat ==
  ASSUME NEW f \in [Workers -> Nat]
  PROVE  Sum(f) \in Nat
<1>1. Sum([w \in Workers |-> 0]) <= Sum(f)
  BY SumMonotone
<1>2. Sum([w \in Workers |-> 0]) = 0
  BY SumZero
<1>3. Sum(f) \in Int
  BY SumType
<1> QED BY <1>1, <1>2, <1>3

\* What is added to one worker is added to the sum: the remainder that goes to
\* the worker drawn at random (center.lua:355-356).
LEMMA SumAdd ==
  ASSUME NEW f \in [Workers -> Int], NEW v \in Workers, NEW d \in Int
  PROVE  Sum([f EXCEPT ![v] = @ + d]) = Sum(f) + d
<1> DEFINE g == [f EXCEPT ![v] = @ + d]
           F == PartialSums(f)
           G == PartialSums(g)
           S == {n \in 0 .. N : G[n] = F[n] + (IF n < v THEN 0 ELSE d)}
<1>0. g \in [Workers -> Int]
  OBVIOUS
<1>1. /\ F \in [0 .. N -> Int] /\ F[0] = 0 /\ \A i \in 1 .. N : F[i] = F[i - 1] + f[i]
      /\ G \in [0 .. N -> Int] /\ G[0] = 0 /\ \A i \in 1 .. N : G[i] = G[i - 1] + g[i]
  BY <1>0, PartialSumsDef
<1> HIDE DEF F, G
<1>2. 0 \in S
  BY <1>1, NAssumption DEF Workers
<1>3. ASSUME NEW n \in 0 .. N - 1, n \in S PROVE n + 1 \in S
  <2>1. n + 1 \in 1 .. N /\ n + 1 \in 0 .. N /\ n \in 0 .. N /\ (n + 1) - 1 = n /\ v \in 1 .. N
    BY NAssumption DEF Workers
  <2>2. F[n + 1] = F[n] + f[n + 1] /\ G[n + 1] = G[n] + g[n + 1]
    BY <1>1, <2>1
  <2>3. F[n] \in Int /\ G[n] = F[n] + (IF n < v THEN 0 ELSE d)
    BY <1>1, <1>3, <2>1
  <2>4. f[n + 1] \in Int
    BY <2>1 DEF Workers
  <2>5. g[n + 1] = f[n + 1] + (IF n + 1 = v THEN d ELSE 0)
    BY <2>1, <2>4 DEF Workers
  <2>6. G[n + 1] = F[n + 1] + (IF n + 1 < v THEN 0 ELSE d)
    <3> HIDE DEF g
    <3>1. CASE n + 1 < v
      BY <2>1, <2>2, <2>3, <2>4, <2>5, <3>1
    <3>2. CASE n + 1 = v
      BY <2>1, <2>2, <2>3, <2>4, <2>5, <3>2
    <3>3. CASE n + 1 > v
      BY <2>1, <2>2, <2>3, <2>4, <2>5, <3>3
    <3> QED BY <2>1, <3>1, <3>2, <3>3
  <2> QED BY <2>1, <2>6
<1>4. N \in S
  <2> HIDE DEF S
  <2>1. 0 .. N \subseteq S
    BY <1>2, <1>3, InductionToN
  <2> QED BY <2>1, NAssumption
<1>5. G[N] = F[N] + d
  BY <1>4, NAssumption DEF Workers
<1> QED BY <1>5 DEF Sum, F, G

-----------------------------------------------------------------------------
(* reallocQpsLimit *)

\* Rounding down (math.floor at center.lua:338-349).
LEMMA Floor ==
  ASSUME NEW a \in Nat, NEW b \in Nat \ {0}
  PROVE  /\ a \div b \in Nat
         /\ b * (a \div b) <= a
         /\ a > 0 /\ a % b = 0 => a \div b >= 1
<1>1. a = b * (a \div b) + (a % b) /\ a % b \in 0 .. b - 1 /\ a \div b \in Int
  OBVIOUS
<1>2. a \div b \in Nat
  BY <1>1
<1>3. ASSUME a > 0, a % b = 0 PROVE a \div b >= 1
  <2>1. CASE a \div b = 0
    BY <1>1, <1>3, <2>1
  <2> QED BY <1>2, <2>1
<1> QED BY <1>1, <1>2, <1>3

\* The three ways to round leave the proportional part and the even part
\* together within the quota (center.lua:345-352).
LEMMA QuotaSplit ==
  ASSUME NEW q \in Nat
  PROVE  /\ (9 * q) \div 10 \in Nat
         /\ q \div (10 * N) \in Nat
         /\ (9 * q) \div 10 + N * (q \div (10 * N)) <= q
<1> DEFINE quota == (9 * q) \div 10
           avg == q \div (10 * N)
<1>1. quota \in Nat /\ 10 * quota <= 9 * q
  OBVIOUS
<1>2. 10 * N \in Nat \ {0}
  BY NAssumption
<1>3. avg \in Nat /\ (10 * N) * avg <= q
  BY <1>2, Floor
<1> HIDE DEF quota, avg
<1>4. (10 * N) * avg = 10 * (N * avg) /\ N * avg \in Nat
  BY <1>3, NAssumption
<1>5. 10 * quota + 10 * (N * avg) <= 10 * q
  BY <1>1, <1>3, <1>4
<1>6. quota + N * avg <= q
  BY <1>1, <1>4, <1>5
<1> QED BY <1>1, <1>3, <1>6 DEF quota, avg

\* Shares in proportion to the traffic t, each rounded down, add up to no more
\* than what is divided (center.lua:345-352).
LEMMA ProportionalSum ==
  ASSUME NEW t \in [Workers -> Nat], Sum(t) \in Nat \ {0},
         NEW quota \in Nat, NEW avg \in Nat
  PROVE  Sum([w \in Workers |-> ((quota * t[w]) \div Sum(t)) + avg]) <= quota + N * avg
<1> DEFINE sum == Sum(t)
           f == [w \in Workers |-> ((quota * t[w]) \div sum) + avg]
           F == PartialSums(f)
           T == PartialSums(t)
           S == {n \in 0 .. N : sum * F[n] <= quota * T[n] + n * (avg * sum)}
<1>1. ASSUME NEW w \in Workers
      PROVE  /\ f[w] \in Nat
             /\ sum * f[w] <= quota * t[w] + avg * sum
  <2>1. t[w] \in Nat /\ quota * t[w] \in Nat
    OBVIOUS
  <2> DEFINE d == (quota * t[w]) \div sum
  <2>2. d \in Nat /\ sum * d <= quota * t[w]
    BY <2>1, Floor
  <2>3. f[w] = d + avg
    OBVIOUS
  <2> HIDE DEF d, f, sum
  <2>4. sum \in Nat
    BY DEF sum
  <2>5. sum * (d + avg) = sum * d + avg * sum
    BY <2>2, <2>4
  <2>6. sum * d \in Nat /\ avg * sum \in Nat
    BY <2>2, <2>4
  <2> QED BY <2>1, <2>2, <2>3, <2>5, <2>6
<1>2. f \in [Workers -> Int] /\ sum \in Nat \ {0}
  BY <1>1
<1>3. /\ F \in [0 .. N -> Int] /\ F[0] = 0 /\ \A i \in 1 .. N : F[i] = F[i - 1] + f[i]
      /\ T \in [0 .. N -> Int] /\ T[0] = 0 /\ \A i \in 1 .. N : T[i] = T[i - 1] + t[i]
  <2> HIDE DEF f
  <2>1. t \in [Workers -> Int]
    OBVIOUS
  <2> QED BY <1>2, <2>1, PartialSumsDef
<1>4. Sum(f) = F[N] /\ sum = T[N]
  BY DEF Sum
<1> HIDE DEF F, T, f, sum
<1>5. 0 \in S
  BY <1>2, <1>3, NAssumption
<1>6. ASSUME NEW n \in 0 .. N - 1, n \in S PROVE n + 1 \in S
  <2>1. n + 1 \in 1 .. N /\ n + 1 \in 0 .. N /\ n \in 0 .. N /\ (n + 1) - 1 = n
    BY NAssumption
  <2>2. F[n + 1] = F[n] + f[n + 1] /\ T[n + 1] = T[n] + t[n + 1]
    BY <1>3, <2>1
  <2>3. F[n] \in Int /\ T[n] \in Int /\ sum * F[n] <= quota * T[n] + n * (avg * sum)
    BY <1>3, <1>6, <2>1
  <2>4. /\ f[n + 1] \in Int /\ t[n + 1] \in Int
        /\ sum * f[n + 1] <= quota * t[n + 1] + avg * sum
    BY <1>1, <1>2, <2>1 DEF Workers
  <2>5. sum * F[n + 1] = sum * F[n] + sum * f[n + 1]
    BY <1>2, <2>2, <2>3, <2>4
  <2>6. quota * T[n + 1] = quota * T[n] + quota * t[n + 1]
    BY <2>2, <2>3, <2>4
  <2>7. avg * sum \in Int /\ (n + 1) * (avg * sum) = n * (avg * sum) + avg * sum
    BY <1>2
  <2>8. sum * F[n + 1] <= quota * T[n + 1] + (n + 1) * (avg * sum)
    <3>1. /\ sum * F[n] \in Int /\ sum * f[n + 1] \in Int /\ quota * T[n] \in Int
          /\ quota * t[n + 1] \in Int /\ n * (avg * sum) \in Int
      BY <1>2, <2>3, <2>4, <2>7
    <3> QED BY <2>3, <2>4, <2>5, <2>6, <2>7, <3>1
  <2> QED BY <2>1, <2>8
<1>7. N \in S
  <2> HIDE DEF S
  <2>1. 0 .. N \subseteq S
    BY <1>5, <1>6, InductionToN
  <2> QED BY <2>1, NAssumption
<1>8. F[N] \in Int /\ sum * F[N] <= sum * (quota + N * avg)
  <2>1. F[N] \in Int
    BY <1>3, NAssumption
  <2>2. sum * F[N] <= quota * sum + N * (avg * sum)
    BY <1>4, <1>7
  <2>3. quota * sum + N * (avg * sum) = sum * (quota + N * avg)
    BY <1>2, NAssumption
  <2> QED BY <2>1, <2>2, <2>3
<1>9. F[N] <= quota + N * avg
  <2> SUFFICES ASSUME F[N] >= (quota + N * avg) + 1 PROVE FALSE
    BY <1>8, NAssumption
  <2>1. quota + N * avg \in Nat
    BY NAssumption
  <2>2. sum * F[N] >= sum * ((quota + N * avg) + 1)
    BY <1>2, <1>8, <2>1
  <2>3. sum * ((quota + N * avg) + 1) = sum * (quota + N * avg) + sum
    BY <1>2, <2>1
  <2> QED BY <1>2, <1>8, <2>1, <2>2, <2>3
<1> QED BY <1>4, <1>9 DEF f, sum

\* The limits before the remainder is given away are never negative and never
\* exceed the quota together (center.lua:336-353).
LEMMA BaseWithinQuota ==
  ASSUME NEW q \in Nat, NEW t \in [Workers -> Nat], NEW f \in BaseLimits(q, t)
  PROVE  f \in [Workers -> Nat] /\ Sum(f) <= q
<1>1. CASE Sum(t) = 0
  <2>1. f = [w \in Workers |-> q \div N]
    BY <1>1 DEF BaseLimits, EqualLimits
  <2>2. q \div N \in Nat /\ N * (q \div N) <= q
    BY Floor, NAssumption
  <2>3. q \div N \in Int
    BY <2>2
  <2>4. Sum(f) = N * (q \div N)
    BY <2>1, <2>3, SumConstant
  <2>5. f \in [Workers -> Nat]
    BY <2>1, <2>2
  <2> QED BY <2>2, <2>4, <2>5
<1>2. CASE Sum(t) # 0
  <2> DEFINE sum == Sum(t)
             quota == (9 * q) \div 10
             avg == q \div (10 * N)
             g == [w \in Workers |-> ((quota * t[w]) \div sum) + avg]
  <2>1. sum \in Nat \ {0}
    BY <1>2, SumNat
  <2>2. quota \in Nat /\ avg \in Nat /\ quota + N * avg <= q
    BY QuotaSplit
  <2>3. PICK short \in SUBSET {w \in Workers : FallsShort(quota, t[w], sum)} :
          f = [w \in Workers |-> ((quota * t[w]) \div sum) + avg
                                   - (IF w \in short THEN 1 ELSE 0)]
    BY <1>2 DEF BaseLimits, ProportionalLimits
  <2> HIDE DEF quota, avg, sum
  <2>4. ASSUME NEW w \in Workers
        PROVE  /\ g[w] \in Nat
               /\ f[w] \in Nat
               /\ f[w] <= g[w]
    <3> DEFINE a == quota * t[w]
    <3>1. a \in Nat
      BY <2>2
    <3>2. a \div sum \in Nat /\ (a > 0 /\ a % sum = 0 => a \div sum >= 1)
      BY <2>1, <3>1, Floor
    <3>3. w \in short => a > 0 /\ a % sum = 0
      BY <2>3 DEF FallsShort
    <3>4. g[w] = (a \div sum) + avg
      OBVIOUS
    <3>5. f[w] = (a \div sum) + avg - (IF w \in short THEN 1 ELSE 0)
      BY <2>3
    <3> HIDE DEF a, g
    <3> QED BY <2>2, <3>2, <3>3, <3>4, <3>5
  <2>5. f \in [Workers -> Nat] /\ g \in [Workers -> Nat]
    BY <2>3, <2>4
  <2>6. Sum(f) <= Sum(g)
    <3> HIDE DEF g
    <3>1. f \in [Workers -> Int] /\ g \in [Workers -> Int]
      BY <2>5
    <3> QED BY <2>4, <3>1, SumMonotone
  <2>7. Sum(g) <= quota + N * avg
    BY <2>1, <2>2, ProportionalSum DEF sum
  <2>8. Sum(f) \in Nat /\ Sum(g) \in Nat /\ N * avg \in Nat
    <3> HIDE DEF g
    <3> QED BY <2>2, <2>5, SumNat, NAssumption
  <2>9. Sum(f) <= q
    <3> HIDE DEF g
    <3> QED BY <2>2, <2>6, <2>7, <2>8
  <2> QED BY <2>5, <2>9
<1> QED BY <1>1, <1>2

\* reallocQpsLimit hands out the quota exactly: whatever the number of workers,
\* the traffic and the rounding of the divisions, no limit is negative and they
\* add up to the quota (center.lua:329-363).
THEOREM ReallocExact ==
  ASSUME NEW q \in Nat, NEW t \in [Workers -> Nat], NEW l \in ReallocQpsLimit(q, t)
  PROVE  l \in [Workers -> Nat] /\ Sum(l) = q
<1>1. PICK f \in BaseLimits(q, t), i \in Workers : l = [f EXCEPT ![i] = @ + (q - Sum(f))]
  BY DEF ReallocQpsLimit
<1>2. f \in [Workers -> Nat] /\ Sum(f) <= q
  BY <1>1, BaseWithinQuota
<1>3. Sum(f) \in Nat
  BY <1>2, SumNat
<1>4. Sum(l) = Sum(f) + (q - Sum(f))
  <2>1. f \in [Workers -> Int] /\ q - Sum(f) \in Int
    BY <1>2, <1>3
  <2> QED BY <1>1, <2>1, SumAdd
<1>5. f[i] \in Nat /\ f[i] + (q - Sum(f)) \in Nat
  BY <1>2, <1>3
<1>6. l \in [Workers -> Nat]
  BY <1>1, <1>2, <1>5
<1> QED BY <1>3, <1>4, <1>6

-----------------------------------------------------------------------------
(* The invariants *)

\* No round has begun and no worker has a limit (center.lua:409-413).
LEMMA InitSettled == Init => SharesSettled
<1> SUFFICES ASSUME Init PROVE SharesSettled
  OBVIOUS
<1> USE DEF Init
<1>1. TypeOK
  BY QpsAssumption DEF TypeOK
<1>2. ASSUME NEW r \in Rounds PROVE Sum(share[r]) <= qps[r]
  <2>1. Sum([w \in Workers |-> 0]) = 0
    BY SumZero
  <2> QED BY <2>1
<1> QED BY <1>1, <1>2 DEF SharesSettled

\* Every step keeps the shares of the rounds settled (center.lua:282-430,
\* sax.lua:88-128).
LEMMA StepSettled == SharesSettled /\ [Next]_vars => SharesSettled'
<1> SUFFICES ASSUME SharesSettled, [Next]_vars PROVE SharesSettled'
  OBVIOUS
<1> USE DEF SharesSettled, TypeOK, Shared
<1>1. ASSUME NEW r \in Rounds, Start(r) PROVE SharesSettled'
  <2>1. share[r] = [w \in Workers |-> 0] /\ Sum(share[r]) = 0
    <3>1. share[r] = [w \in Workers |-> 0]
      BY <1>1 DEF Start
    <3> QED BY ONLY <3>1, SumZero
  <2>2. /\ pc[r] = "idle"
        /\ UNCHANGED <<row, limit, total, source, seen, share, late>>
    BY <1>1 DEF Start
  <2>3. PICK p \in {"gather", "done"}, q \in Nat, ws \in SUBSET Workers :
          /\ pc' = [pc EXCEPT ![r] = p]
          /\ qps' = [qps EXCEPT ![r] = q]
          /\ pending' = [pending EXCEPT ![r] = ws]
    <3>1. CASE row.status = 1 /\ row.qps > 0
      <4>1. row.qps \in Nat
        BY QpsAssumption
      <4>2. /\ pc' = [pc EXCEPT ![r] = "gather"]
            /\ qps' = [qps EXCEPT ![r] = row.qps]
            /\ pending' = [pending EXCEPT ![r] = Workers]
        BY <1>1, <3>1 DEF Start
      <4> QED BY <4>1, <4>2
    <3>2. CASE ~(row.status = 1 /\ row.qps > 0)
      <4>1. pc' = [pc EXCEPT ![r] = "done"] /\ UNCHANGED <<qps, pending>>
        BY <1>1, <3>2 DEF Start
      <4>2. qps[r] \in Nat /\ qps' = [qps EXCEPT ![r] = qps[r]]
        BY <4>1
      <4>3. pending[r] \in SUBSET Workers /\ pending' = [pending EXCEPT ![r] = pending[r]]
        BY <4>1
      <4> QED BY <4>1, <4>2, <4>3
    <3> QED BY <3>1, <3>2
  <2>4. TypeOK'
    BY <2>2, <2>3
  <2>5. \A s \in Rounds : Sum(share'[s]) <= qps'[s]
    BY <2>1, <2>2, <2>3
  <2>6. \A s \in Rounds \ {r} : UNCHANGED <<pc[s], qps[s], share[s]>>
    BY <2>2, <2>3
  <2>7. ~Shared(r) /\ pc'[r] # "set" /\ share'[r] = [w \in Workers |-> 0]
    BY <2>1, <2>2, <2>3
  <2>8. \A s \in Rounds : Shared(s) => Shared(s)'
    BY <2>6, <2>7
  <2>9. \A s \in Rounds : /\ pc'[s] \in {"idle", "gather"} => share'[s] = [w \in Workers |-> 0]
                          /\ pc'[s] = "set" => Shared(s)'
    BY <2>6, <2>7, <2>8
  <2>10. \A w \in Workers : source'[w] # NoRound =>
           Shared(source[w])' /\ limit'[w] = share'[source'[w]][w]
    <3> SUFFICES ASSUME NEW w \in Workers, source[w] # NoRound
                 PROVE  Shared(source[w])' /\ limit[w] = share[source[w]][w]
      BY <2>2
    <3>1. source[w] \in Rounds /\ Shared(source[w]) /\ source'[w] = source[w]
      BY <2>2
    <3> QED BY <2>8, <3>1
  <2>11. \A x \in late' : Shared(x[1])'
    BY <2>2, <2>8
  <2> QED BY <2>4, <2>5, <2>9, <2>10, <2>11
<1>2. ASSUME NEW r \in Rounds, NEW w \in Workers, GatherOk(r, w) \/ GatherFail(r, w)
      PROVE  SharesSettled'
  <2>1. PICK n \in Nat : seen' = [seen EXCEPT ![r][w] = n]
    BY <1>2 DEF GatherOk, GatherFail
  <2>2. /\ pending' = [pending EXCEPT ![r] = @ \ {w}]
        /\ UNCHANGED <<row, limit, total, source, pc, qps, share, late>>
    BY <1>2 DEF GatherOk, GatherFail
  <2>3. TypeOK'
    BY <2>1, <2>2
  <2> QED BY <2>2, <2>3
<1>3. ASSUME NEW r \in Rounds, Realloc(r) PROVE SharesSettled'
  <2>1. PICK l \in ReallocQpsLimit(qps[r], seen[r]) : share' = [share EXCEPT ![r] = l]
    BY <1>3 DEF Realloc
  <2>2. l \in [Workers -> Nat] /\ Sum(l) = qps[r]
    BY <2>1, ReallocExact
  <2> QED BY <1>3, <2>1, <2>2 DEF Realloc
<1>4. ASSUME NEW r \in Rounds, NEW w \in Workers, SetOk(r, w) PROVE SharesSettled'
  BY <1>4 DEF SetOk, Apply
<1>5. ASSUME NEW r \in Rounds, NEW w \in Workers, SetFail(r, w) PROVE SharesSettled'
  BY <1>5 DEF SetFail
<1>6. ASSUME NEW r \in Rounds, NEW w \in Workers, SetTimeout(r, w) PROVE SharesSettled'
  BY <1>6 DEF SetTimeout
<1>7. ASSUME NEW r \in Rounds, NEW w \in Workers, LateSet(r, w) PROVE SharesSettled'
  BY <1>7 DEF LateSet, Apply
<1>8. ASSUME NEW r \in Rounds, Finish(r) PROVE SharesSettled'
  BY <1>8 DEF Finish
<1>9. ASSUME NEW w \in Workers, Serve(w) PROVE SharesSettled'
  BY <1>9 DEF Serve
<1>10. ASSUME NEW w \in Workers, FlushDict(w) PROVE SharesSettled'
  BY <1>10 DEF FlushDict
<1>11. CASE UpdateRow
  BY <1>11 DEF UpdateRow
<1>12. CASE UNCHANGED vars
  BY <1>12 DEF vars
<1> QED
  BY <1>1, <1>2, <1>3, <1>4, <1>5, <1>6, <1>7, <1>8, <1>9, <1>10, <1>11, <1>12
  DEF Next, RoundStep

\* The inductive invariant holds in every reachable state.
THEOREM SettledInvariant == Spec => []SharesSettled
BY InitSettled, StepSettled, PTL DEF Spec

\* Every variable keeps its type, in particular no worker ever has a negative
\* limit (center.lua:329-363, sax.lua:88-128).
THEOREM TypeCorrect == Spec => []TypeOK
<1>1. SharesSettled => TypeOK
  BY DEF SharesSettled
<1> QED BY <1>1, SettledInvariant, PTL

\* The limits of one round never exceed the quota that round has read, whatever
\* is lost, late or overlapping (center.lua:329-407).
THEOREM NoOverallocation == Spec => []RoundNeverOverallocates
<1>1. SharesSettled => RoundNeverOverallocates
  <2> SUFFICES ASSUME SharesSettled, NEW r \in Rounds PROVE HeldFrom(r) <= qps[r]
    BY DEF RoundNeverOverallocates
  <2> DEFINE held == [w \in Workers |-> IF source[w] = r THEN limit[w] ELSE 0]
  <2>1. held \in [Workers -> Int] /\ share[r] \in [Workers -> Int]
    BY DEF SharesSettled, TypeOK
  <2>2. \A w \in Workers : held[w] <= share[r][w]
    BY RoundsAssumption DEF SharesSettled, TypeOK
  <2>3. Sum(held) <= Sum(share[r])
    <3> HIDE DEF held
    <3> QED BY <2>1, <2>2, SumMonotone
  <2>4. Sum(held) \in Int /\ Sum(share[r]) \in Int /\ qps[r] \in Int
    <3>1. qps[r] \in Int
      BY DEF SharesSettled, TypeOK
    <3> HIDE DEF held
    <3> QED BY <2>1, <3>1, SumType
  <2>5. Sum(share[r]) <= qps[r]
    BY DEF SharesSettled
  <2>6. HeldFrom(r) = Sum(held)
    BY DEF HeldFrom
  <2> HIDE DEF held
  <2> QED BY <2>3, <2>4, <2>5, <2>6
<1> QED BY <1>1, SettledInvariant, PTL

\* Once all workers hold limits of one round, the whole quota of that round is in
\* use (center.lua:355-356).
THEOREM NothingLost == Spec => []WholeQuotaInUse
<1>1. SharesSettled => WholeQuotaInUse
  <2> SUFFICES ASSUME SharesSettled, NEW r \in Rounds, \A w \in Workers : source[w] = r
               PROVE  Sum(limit) = qps[r]
    BY DEF WholeQuotaInUse
  <2>1. limit = share[r]
    BY RoundsAssumption DEF SharesSettled, TypeOK
  <2>2. Shared(r)
    <3>1. 1 \in Workers
      BY NAssumption DEF Workers
    <3> QED BY <3>1, RoundsAssumption DEF SharesSettled
  <2> QED BY <2>1, <2>2 DEF Shared
<1> QED BY <1>1, SettledInvariant, PTL

=============================================================================
