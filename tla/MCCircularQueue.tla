--------------------------- MODULE MCCircularQueue ---------------------------
(* CircularQueue on a two-slot ring whose indices wrap after eight values,  *)
(* seeded just below the wrap as the tests seed theirs.                      *)
EXTENDS CircularQueue, TLC

Symmetry == Permutations(Threads) \cup Permutations(Items)
=============================================================================
