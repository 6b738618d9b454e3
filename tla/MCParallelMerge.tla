--------------------------- MODULE MCParallelMerge ---------------------------
(* Two workers and three texts for ParallelMerge.                           *)
EXTENDS ParallelMerge, TLC

\* The largest id is neither the first nor the last.
MCSids == <<1, 3, 2>>

Symmetry == Permutations(Workers)
=============================================================================
