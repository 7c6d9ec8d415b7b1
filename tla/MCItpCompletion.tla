--------------------------- MODULE MCItpCompletion ---------------------------
EXTENDS ItpCompletion, TLC
Symmetry == Permutations(Requests)
=============================================================================
