----------------------------- MODULE MCQpsWorker -----------------------------
EXTENDS QpsWorker, TLC

\* Processes are interchangeable.
ProcSymmetry == Permutations(Procs)
=============================================================================
