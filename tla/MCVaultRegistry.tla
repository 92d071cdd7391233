-------------------------- MODULE MCVaultRegistry --------------------------
(* VaultRegistry on two connections, for TLC. *)
EXTENDS VaultRegistry, TLC

Symmetry == Permutations(Originals) \cup Permutations(Handles)
=============================================================================
