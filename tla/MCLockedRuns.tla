---------------------------- MODULE MCLockedRuns ----------------------------
EXTENDS LockedRuns, TLC

\* Processes and file contents are interchangeable.
Symmetry == Permutations(Procs) \cup Permutations(Files)
=============================================================================
