--------------------------- MODULE MC_ProjectLock ---------------------------
\* Two sessions and three windows, each as good as another of its kind.
EXTENDS ProjectLock, TLC

CONSTANTS s1, s2, w1, w2, w3

Symmetry == Permutations(Sessions) \cup Permutations(Windows)
=============================================================================
