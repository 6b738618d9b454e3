---------------------------- MODULE MCOffsetFile ----------------------------
(* OffsetFile for TLC.  Processes differ in nothing but their names, and so  *)
(* do entries of one kind.                                                   *)
EXTENDS OffsetFile, TLC

Symmetry == Permutations(Procs)
=============================================================================
