----------------------------- MODULE MCFiIomem -----------------------------
(* A small instance of FiIomem: two threads, two regions, a table with room *)
(* for both, and three pairs of masks.                                      *)
EXTENDS FiIomem, TLC

CONSTANTS t1, t2, m1, m2, m3

Alike == Permutations({t1, t2}) \cup Permutations({m1, m2, m3})
=============================================================================
