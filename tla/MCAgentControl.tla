--------------------------- MODULE MCAgentControl ---------------------------
(* A session with the root and one agent that was spawned before; p2 and p3 *)
(* are free, and t2 and t3 are ids of threads that were never created.      *)
EXTENDS AgentControl

CONSTANTS root, t1, t2, t3, p1, p2, p3

OneSpawned == <<t1>>
OnePath == <<p1>>

CallSymmetry == Permutations(Calls) \cup Permutations({t2, t3}) \cup Permutations({p2, p3})

=============================================================================
