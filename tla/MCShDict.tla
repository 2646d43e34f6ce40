------------------------------ MODULE MCShDict ------------------------------
EXTENDS ShDict, TLC

CONSTANT long

\* A number takes as much room as a short string, and long twice as much.
Lengths == [v \in Values |-> IF v = long THEN 2 ELSE 1]

\* Keys are interchangeable, and so are processes.
DictSymmetry == Permutations(Keys) \cup Permutations(Procs)
=============================================================================
