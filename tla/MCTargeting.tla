----------------------------- MODULE MCTargeting -----------------------------
EXTENDS Targeting, TLC

CONSTANTS i1, n1

OnePeer == i1 :> n1

Symmetry == Permutations(Procs) \cup Permutations(Batches)
=============================================================================
