------------------------ MODULE MCStrategyGovernance ------------------------
(* Small instances of StrategyGovernance for TLC. *)
EXTENDS StrategyGovernance, TLC

Symmetry == Permutations(Callers) \cup Permutations(Versions) \cup Permutations(Requests)
=============================================================================
