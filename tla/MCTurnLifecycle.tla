-------------------------- MODULE MCTurnLifecycle --------------------------
EXTENDS TurnLifecycle, TLC
\* Turn states have no identity beyond being different.
Symmetry == Permutations(States) \cup Permutations(UserItems) \cup Permutations(Tasks)
=============================================================================
