----------------------------- MODULE MCWriteQueue -----------------------------
(* Symmetry of the write path: dispatchers, and clients of the same kind, are *)
(* interchangeable.                                                           *)
EXTENDS WriteQueue, TLC

Symmetry == Permutations(Loops) \cup Permutations(Clients \ Rewriters)

=============================================================================
