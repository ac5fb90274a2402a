--------------------------- MODULE MCSemaphoreMap ---------------------------
EXTENDS SemaphoreMap, TLC

Symmetry == Permutations(Procs) \cup Permutations(Names)
=============================================================================
