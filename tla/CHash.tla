-------------------------------- MODULE CHash --------------------------------
(***************************************************************************)
(* The consistent hash ring of saxmob (tdm/c_hash.lua): init_consistent_   *)
(* hash with the binary search _consistent_hash_find.                      *)
(*                                                                         *)
(* Every redis peer has the same number of points on the ring; each bucket *)
(* is given the node its own point falls to.  The points are hash values,  *)
(* so the ring may be any sorted sequence of them, with ties.              *)
(***************************************************************************)
EXTENDS Integers, Sequences

CONSTANTS Buckets,   \* _CONSISTENT_BUCKETS
          MaxHash,   \* the largest hash value, 0xffffffff
          Servers    \* number of peers, #rds_server

ASSUME RingAssumption == /\ MaxHash \in Nat
                         /\ Servers \in Nat \ {0}
                         /\ Buckets \in Nat
                         /\ Buckets >= Servers

VARIABLES points,   \* nodes[k].point, after table.sort
          l, r,     \* the limits of the search
          buckets   \* the buckets found so far, as indices into nodes

ringVars == <<points, l, r, buckets>>

Nodes == Servers * (Buckets \div Servers)
Hashes == 0 .. MaxHash

\* The point of bucket i + 1.
Point(i) == i * (MaxHash \div Buckets)
Wanted == Point(Len(buckets))

Sorted == \A i, j \in 1 .. Nodes : i < j => points[i] <= points[j]

RingInit ==
  /\ points \in [1 .. Nodes -> Hashes]
  /\ Sorted
  /\ l = 1
  /\ r = Nodes
  /\ buckets = <<>>

\* Mutant: the middle itself is excluded on the right.
HalveBeyond ==
  /\ Len(buckets) < Buckets
  /\ l < r - 1
  /\ LET m == l + (r - l) \div 2
     IN  IF Wanted > points[m] THEN l' = m + 1 /\ UNCHANGED r
         ELSE r' = m - 1 /\ UNCHANGED l
  /\ UNCHANGED <<points, buckets>>

\* One turn of the loop of _consistent_hash_find.
Halve ==
  /\ Len(buckets) < Buckets
  /\ l < r - 1
  /\ LET m == l + (r - l) \div 2
     IN  IF Wanted > points[m] THEN l' = m + 1 /\ UNCHANGED r
         ELSE r' = m /\ UNCHANGED l
  /\ UNCHANGED <<points, buckets>>

\* Mutant: the right end of the last interval is not looked at.
FoundLeft == l

\* The node the search ends with.  After the last point the ring is not closed:
\* the answer is not the first node, but one of the last two.
Found == IF Wanted <= points[l] THEN l
         ELSE IF Wanted <= points[r] THEN r ELSE l

\* Mutant: the answer is an index that counts from zero.
FillZeroBased ==
  /\ Len(buckets) < Buckets
  /\ l >= r - 1
  /\ buckets' = Append(buckets, Found - 1)
  /\ l' = 1
  /\ r' = Nodes
  /\ UNCHANGED points

\* The bucket is filled, and the search for the next one begins.
Fill ==
  /\ Len(buckets) < Buckets
  /\ l >= r - 1
  /\ buckets' = Append(buckets, Found)
  /\ l' = 1
  /\ r' = Nodes
  /\ UNCHANGED points

RingNext == Halve \/ Fill

RingSpec == RingInit /\ [][RingNext]_ringVars

-----------------------------------------------------------------------------
(* Properties *)

\* Every variable has its type, and the search stays within the ring: no bucket
\* is nil, so get_consistent_hash_peer always has a peer (c_hash.lua:116-125).
RingTypeOK ==
  /\ points \in [1 .. Nodes -> Hashes]
  /\ l \in 1 .. Nodes
  /\ r \in 1 .. Nodes
  /\ buckets \in Seq(1 .. Nodes)
  /\ Len(buckets) <= Buckets

\* k is the node for hash value h: the first one at or after h or, when all are
\* before it, the last node or the one before.
NodeFor(k, h) ==
  \/ points[k] >= h /\ \A j \in 1 .. k - 1 : points[j] < h
  \/ k >= Nodes - 1 /\ \A j \in 1 .. Nodes : points[j] < h

\* Why the search is right: what is left of l is before the wanted point, r is
\* not, unless it is the end of the ring (c_hash.lua:10-20).
SearchBounds ==
  /\ l <= r
  /\ \A j \in 1 .. l - 1 : points[j] < Wanted
  /\ r = Nodes \/ Wanted <= points[r]

\* Every bucket holds the node its point falls to, for every ring, also with
\* equal points and at both ends (c_hash.lua:22-28, 102-104).
BucketsRight == \A i \in 1 .. Len(buckets) : NodeFor(buckets[i], Point(i - 1))

=============================================================================
