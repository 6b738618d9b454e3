---------------------------- MODULE MCWriteLock ----------------------------
(* WriteLock for TLC.  A pid is only compared with other pids, so the three *)
(* processes are interchangeable.                                           *)
EXTENDS WriteLock, TLC

Symmetry == Permutations(Pids)
=============================================================================
