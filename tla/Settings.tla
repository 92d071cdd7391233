------------------------------ MODULE Settings ------------------------------
(***************************************************************************)
(* The configuration as a value (src/src/config.rs): what is read from     *)
(* config.toml, how a partial patch is merged and refused, and the         *)
(* protection levels by which the command line sets it                     *)
(* (src/src/cmd_config.rs) and the tray shows it (src/src/tray.rs).        *)
(*                                                                         *)
(* A configuration is a record of the keys that some component reads; a    *)
(* patch is a function on some of them.  Bad stands for a value of the     *)
(* wrong JSON type, which deserialisation refuses.  The mode is any string,*)
(* and "other" stands for the ones that nothing in the program knows.      *)
(***************************************************************************)
EXTENDS Naturals, Sequences, FiniteSets

CONSTANTS
  Models,      \* ids of the catalog
  AutoModel,   \* the model ensure_slm_model downloads, the catalog's first
  None,        \* no model
  Bad          \* a JSON value of the wrong type

Modes   == {"off", "detect-only", "replace", "other"}
Listens == {"default", "other"}

Configs == [mode : Modes, regex : BOOLEAN, ner : BOOLEAN, slm : BOOLEAN,
            model : Models \cup {None}, listen : Listens]

ASSUME SettingsAssumption == AutoModel \in Models /\ None \notin Models /\ None \notin Configs

\* impl Default for Config and its parts
DefaultConfig == [mode |-> "off", regex |-> TRUE, ner |-> FALSE, slm |-> FALSE,
                  model |-> None, listen |-> "default"]

\* installed: something exists at pii.ner.model_path.
disable_ner_if_model_missing(c, installed) ==
  IF c.mode = "replace" /\ c.ner /\ ~installed THEN [c EXCEPT !.ner = FALSE] ELSE c

\* Config::load: an absent file gives the defaults, a present one is not validated.
load(file, installed) ==
  IF file = None THEN DefaultConfig ELSE disable_ner_if_model_missing(file, installed)

\* Keys the configuration does not have are merged into the JSON and lost on the way back.
json_deep_merge(c, p) == [k \in DOMAIN c |-> IF k \in DOMAIN p THEN p[k] ELSE c[k]]

validate_pii_tiers(c) == c.ner => c.regex

requires_restart(old, new) == old.listen /= new.listen

\* Mutant: the patch is validated on its own.
AcceptsPatch(c, p) ==
  /\ json_deep_merge(c, p) \in Configs
  /\ ~("ner" \in DOMAIN p /\ p.ner /\ "regex" \in DOMAIN p /\ ~p.regex)

\* What ConfigManager::patch accepts: the merged configuration, not the patch, is validated.
Accepts(c, p) == LET n == json_deep_merge(c, p) IN n \in Configs /\ validate_pii_tiers(n)

-----------------------------------------------------------------------------
Level(mode, r, n, s) == [mode |-> mode, regex |-> r, ner |-> n, slm |-> s]

LevelTable ==
  [off         |-> Level("off", FALSE, FALSE, FALSE),
   detect      |-> Level("detect-only", TRUE, FALSE, FALSE),
   one         |-> Level("replace", TRUE, FALSE, FALSE),
   two         |-> Level("replace", TRUE, TRUE, FALSE),
   three       |-> Level("replace", TRUE, TRUE, TRUE),
   intelligent |-> Level("replace", FALSE, FALSE, TRUE)]

Levels == DOMAIN LevelTable

\* A level that is not in the table ends the command with an error.
protection_level_to_patch(level) == LevelTable[level]

needs_model(level) == level \in {"three", "intelligent"}

\* The arguments of the tray's menu items: its "detect-only" is not a level of the table.
pii_level_for_id == (Levels \ {"detect"}) \cup {"detect-only"}

\* Mutant: the tiers are tested without the SLM.
derive_without_slm(c) ==
  CASE c.mode = "off"         -> "off"
    [] c.mode = "detect-only" -> "detect"
    [] c.mode = "replace"     -> IF c.regex /\ c.ner THEN "two" ELSE IF c.regex THEN "one" ELSE "intelligent"
    [] OTHER                  -> "off"

\* The level the tray marks; detect is its "detect-only".
derive_pii_level(c) ==
  CASE c.mode = "off"         -> "off"
    [] c.mode = "detect-only" -> "detect"
    [] c.mode = "replace" /\ c.regex /\ c.ner /\ c.slm   -> "three"
    [] c.mode = "replace" /\ c.regex /\ c.ner /\ ~c.slm  -> "two"
    [] c.mode = "replace" /\ c.regex /\ ~c.ner /\ ~c.slm -> "one"
    [] c.mode = "replace" /\ ~c.regex /\ ~c.ner /\ c.slm -> "intelligent"
    [] OTHER                  -> "off"

\* The menu items of the submenu that can be clicked, and the one that is checked.
pii_menu_states(c) ==
  [enabled |-> Levels \ {derive_pii_level(c)}, checked |-> derive_pii_level(c)]
=============================================================================
