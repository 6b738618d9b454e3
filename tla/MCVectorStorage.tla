-------------------------- MODULE MCVectorStorage --------------------------
(* VectorStorage for TLC.  No action tells two labels apart. *)
EXTENDS VectorStorage, TLC

Symmetry == Permutations(Labels)
=============================================================================
