---------------------------- MODULE MCOfflineCapture ----------------------------
EXTENDS OfflineCapture, TLC

Symmetry == Permutations(Workers)
=============================================================================
