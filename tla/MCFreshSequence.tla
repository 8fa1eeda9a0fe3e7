-------------------------- MODULE MCFreshSequence --------------------------
(***************************************************************************)
(* Instances of FreshSequence for TLC.                                      *)
(***************************************************************************)
EXTENDS FreshReport, TLC

CONSTANTS r1, r2

OneRepetition == <<<<r1, 1>>, <<r1, 2>>>>
TwoRepetitions == <<<<r1, 1>>, <<r1, 2>>, <<r2, 1>>, <<r2, 2>>>>

Symmetric == Permutations(Procs)

WholeSchedule == {Slots}
=============================================================================
