-------------------------- MODULE MCProgressClaims --------------------------
EXTENDS ProgressClaims, TLC
Symmetry == Permutations(Claims) \cup Permutations(Dialogs)
                \cup Permutations(Requests) \cup Permutations(Payments)
=============================================================================
