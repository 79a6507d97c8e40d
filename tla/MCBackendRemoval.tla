-------------------------- MODULE MCBackendRemoval --------------------------
(* Symmetry of the instances of BackendRemoval.                            *)
EXTENDS BackendRemoval, TLC

Symmetry == Permutations(Backends) \cup Permutations(Workers) \cup Permutations(Removers)
=============================================================================
