--------------------------- MODULE MCModelRegistry ---------------------------
(* Small instances of ModelRegistry for TLC. *)
EXTENDS ModelRegistry, TLC

Symmetry == Permutations(Callers) \cup Permutations(Versions)
=============================================================================
