------------------------ MODULE MCHoldPointRelease ------------------------
(* Small instances of HoldPointRelease. *)
EXTENDS HoldPointRelease, TLC

\* Links and the processes that handle requests are interchangeable.
Symmetric == Permutations(Links) \cup Permutations(Requesters)
               \cup Permutations(Mailers) \cup Permutations(Closers)
=============================================================================
