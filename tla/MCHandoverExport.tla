-------------------------- MODULE MCHandoverExport --------------------------
EXTENDS HandoverExport, TLC
Symmetry == Permutations(Workers) \cup Permutations(Tokens)
=============================================================================
