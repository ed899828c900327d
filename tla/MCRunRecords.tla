---------------------------- MODULE MCRunRecords ----------------------------
(* The records of one routine, run by the daemon and by `routines run`.    *)
EXTENDS RunRecords, TLC

CONSTANTS daemon, cli

Symmetry == Permutations(Procs)
=============================================================================
