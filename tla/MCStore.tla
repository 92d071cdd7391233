------------------------------ MODULE MCStore ------------------------------
(* Store for TLC; the configurations differ in the number of tasks. *)
EXTENDS Store, TLC

Symmetry == Permutations(Convs)
=============================================================================
