--------------------------- MODULE MCPiiPipeline ---------------------------
(* PiiPipeline for TLC. *)
EXTENDS PiiPipeline, TLC

Symmetry == Permutations(Originals) \cup Permutations(Displays) \cup Permutations(Tasks)
=============================================================================
