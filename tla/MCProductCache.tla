--------------------------- MODULE MCProductCache ---------------------------
(* Instances of ProductCache for TLC; callers and builds are interchangeable. *)
EXTENDS ProductCache, TLC

Symmetry == Permutations(Callers) \cup Permutations(Builds)
=============================================================================
