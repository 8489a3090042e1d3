---------------------------- MODULE MCMemoryJobs ----------------------------
EXTENDS MemoryJobs, TLC
\* Threads are alike, and so are the attempts with their tokens.
Symmetry == Permutations(Threads) \cup Permutations(Attempts)
=============================================================================
