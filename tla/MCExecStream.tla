---------------------------- MODULE MCExecStream ----------------------------
EXTENDS ExecStream, TLC

Symmetry == Permutations(Streams)
=============================================================================
