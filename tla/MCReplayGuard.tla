---- MODULE MCReplayGuard ----
\* Model values for checking ReplayGuard.
EXTENDS ReplayGuard, TLC

Symmetry == Permutations(Pod) \cup Permutations(Op)
====
