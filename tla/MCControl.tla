----------------------------- MODULE MCControl -----------------------------
(* Control for TLC: patches that meet in the tiers, one of them with a new address, and one of the
   wrong type; files written by hand with good and with bad tiers. *)
EXTENDS Control, TLC

MCPatches == {[regex |-> FALSE], [regex |-> TRUE, ner |-> TRUE, listen |-> "other"], [mode |-> Bad]}

\* A patch of the mode, for HotReload.
ModePatches == {[mode |-> "replace"]}

MCFiles == {[DefaultConfig EXCEPT !.mode = "replace", !.slm = TRUE],
            [DefaultConfig EXCEPT !.mode = "replace", !.regex = FALSE, !.ner = TRUE, !.slm = TRUE]}

MCChoices == {Level("replace", TRUE, TRUE, TRUE)}

Symmetry == Permutations(Tasks)
=============================================================================
