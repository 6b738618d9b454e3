---------------------------- MODULE MCHnswGraph ----------------------------
\* Points on a line, no two of them equally far from a third.
EXTENDS HnswGraph, TLC

Symmetry == Permutations(Threads)

OnLine(v, w) == IF v <= w THEN w - v ELSE v - w
=============================================================================
