--------------------------- MODULE MCNcrLifecycle ---------------------------
EXTENDS NcrLifecycle, TLC
Symmetry == Permutations(Lots) \cup Permutations(Users) \cup Permutations(Closers)
            \cup Permutations(Senders)
=============================================================================
