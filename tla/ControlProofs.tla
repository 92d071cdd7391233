--------------------------- MODULE ControlProofs ---------------------------
(* Proofs about Control, for any models, handlers, downloads, children and patches. *)
EXTENDS Control, TLAPS

\* The records of a handler and of a command that do nothing are well typed.
LEMMA IdleTyped == IdleTask \in TaskRecords /\ IdleCli \in CliRecords
  BY DEF IdleTask, IdleCli, TaskRecords, CliRecords, HandlerPatches, CliPatches, DefaultConfig, Configs, Modes,
         Listens, Levels

\* The defaults are a valid configuration.
LEMMA DefaultValid == DefaultConfig \in Configs /\ validate_pii_tiers(DefaultConfig)
  BY DEF DefaultConfig, Configs, Modes, Listens, validate_pii_tiers

\* Config::load gives a configuration, and a valid one if the file has one: without its model Tier 2 is
\* switched off, which keeps the tiers valid.
LEMMA LoadValid ==
  ASSUME NEW f \in Configs \cup {None}, NEW installed
  PROVE  /\ load(f, installed) \in Configs
         /\ (f /= None => validate_pii_tiers(f)) => validate_pii_tiers(load(f, installed))
  <1>1. CASE f = None
    BY <1>1, DefaultValid DEF load
  <1>2. CASE f /= None
    <2>1. f \in Configs
      BY <1>2
    <2>2. [f EXCEPT !.ner = FALSE] \in Configs /\ validate_pii_tiers([f EXCEPT !.ner = FALSE])
      BY <2>1 DEF Configs, validate_pii_tiers
    <2> QED
      BY <1>2, <2>1, <2>2 DEF load, disable_ner_if_model_missing
  <1> QED
    BY <1>1, <1>2

\* The authors of a file, as the histories name them.
LEMMA AuthorsTyped ==
  /\ "program" \in Authors /\ "user" \in Authors /\ \A l \in Levels : l \in Authors
  /\ NotLoaded \in [by : Authors, ner : BOOLEAN]
  BY DEF Authors, NotLoaded

\* What a level sets.
LEMMA LevelKeys ==
  ASSUME NEW l \in Levels
  PROVE  /\ LevelTable[l] \in [mode : Modes, regex : BOOLEAN, ner : BOOLEAN, slm : BOOLEAN]
         /\ l \notin {"user", "program", "set", "wizard"}
  <1>1. l \in {"off", "detect", "one", "two", "three", "intelligent"}
    BY DEF Levels, LevelTable
  <1> DEFINE Type == [mode : Modes, regex : BOOLEAN, ner : BOOLEAN, slm : BOOLEAN]
  <1>2. ASSUME NEW m \in Modes, NEW r \in BOOLEAN, NEW n \in BOOLEAN, NEW k \in BOOLEAN
        PROVE  Level(m, r, n, k) \in Type
    BY DEF Level
  <1>3. LevelTable[l] \in {LevelTable["off"], LevelTable["detect"], LevelTable["one"], LevelTable["two"],
                            LevelTable["three"], LevelTable["intelligent"]}
    BY <1>1
  <1>4. /\ LevelTable["off"] \in Type /\ LevelTable["detect"] \in Type /\ LevelTable["one"] \in Type
        /\ LevelTable["two"] \in Type /\ LevelTable["three"] \in Type /\ LevelTable["intelligent"] \in Type
    <2>1. /\ LevelTable["off"] = Level("off", FALSE, FALSE, FALSE)
          /\ LevelTable["detect"] = Level("detect-only", TRUE, FALSE, FALSE)
          /\ LevelTable["one"] = Level("replace", TRUE, FALSE, FALSE)
          /\ LevelTable["two"] = Level("replace", TRUE, TRUE, FALSE)
          /\ LevelTable["three"] = Level("replace", TRUE, TRUE, TRUE)
          /\ LevelTable["intelligent"] = Level("replace", FALSE, FALSE, TRUE)
      BY DEF LevelTable
    <2>2. "off" \in Modes /\ "detect-only" \in Modes /\ "replace" \in Modes
      BY DEF Modes
    <2>3. TRUE \in BOOLEAN /\ FALSE \in BOOLEAN
      OBVIOUS
    <2> HIDE DEF Type
    <2> QED
      BY <1>2, <2>1, <2>2, <2>3
  <1> QED
    BY <1>1, <1>3, <1>4

\* A process that is started has a name nobody uses.
LEMMA NewChildIsFree ==
  ASSUME FreeChildren /= {}
  PROVE  NewChild \in FreeChildren
  <1>1. \E c : c \in FreeChildren
    OBVIOUS
  <1> QED
    BY <1>1, Zenon DEF NewChild

\* What the death of a child, and the start of one, leave alive.
LEMMA LiveAfter ==
  /\ \A S : DOMAIN Without(S) = DOMAIN live \ S
  /\ \A c : Drop(c) => DOMAIN live' = DOMAIN live \ {c} /\ orphans' = orphans \ {c}
  /\ \A m : Spawn(m) => DOMAIN live' = DOMAIN live \cup {NewChild} /\ NewChild \in FreeChildren
                          /\ orphans' = orphans /\ port' = port
  BY NewChildIsFree DEF Without, Drop, Spawn

\* The types of what Drop and Spawn change.
KidsTyped == /\ port \in Children \cup {None}
             /\ DOMAIN live \subseteq Children /\ orphans \subseteq DOMAIN live

\* The death and the start of a child keep these types.
LEMMA KidsKept ==
  ASSUME TypeOK
  PROVE  /\ KidsTyped
         /\ \A c : Drop(c) => KidsTyped'
         /\ \A m : Spawn(m) => KidsTyped' /\ NewChild \in Children
         /\ UNCHANGED <<live, port, orphans>> => KidsTyped'
  <1>1. KidsTyped
    BY DEF TypeOK, KidsTyped
  <1>2. ASSUME NEW c, Drop(c) PROVE KidsTyped'
    BY <1>1, <1>2, LiveAfter DEF KidsTyped, Drop
  <1>3. ASSUME NEW m, Spawn(m) PROVE KidsTyped' /\ NewChild \in Children
    <2>1. NewChild \in Children
      BY <1>3, LiveAfter DEF FreeChildren
    <2> QED
      BY <1>1, <1>3, <2>1, LiveAfter DEF KidsTyped
  <1>4. UNCHANGED <<live, port, orphans>> => KidsTyped'
    BY <1>1 DEF KidsTyped
  <1> QED
    BY <1>1, <1>2, <1>3, <1>4

\* A handler's record stays well typed when its place and one more field change.
LEMMA TaskTyped ==
  ASSUME NEW f \in [Tasks -> TaskRecords], NEW t \in Tasks,
         NEW a \in {"idle", "patch", "save", "start", "begin", "store", "remove"}
  PROVE  /\ f[t].child \in Children \cup {None}
         /\ \A p \in HandlerPatches : [f EXCEPT ![t].at = a, ![t].patch = p] \in [Tasks -> TaskRecords]
         /\ \A m \in Models \cup {None} : [f EXCEPT ![t].at = a, ![t].model = m] \in [Tasks -> TaskRecords]
         /\ \A c \in Children \cup {None} : [f EXCEPT ![t].at = a, ![t].child = c] \in [Tasks -> TaskRecords]
  <1>0. f[t].child \in Children \cup {None}
    BY DEF TaskRecords
  <1>1. ASSUME NEW p \in HandlerPatches PROVE [f EXCEPT ![t].at = a, ![t].patch = p] \in [Tasks -> TaskRecords]
    BY DEF TaskRecords
  <1>2. ASSUME NEW m \in Models \cup {None}
        PROVE [f EXCEPT ![t].at = a, ![t].model = m] \in [Tasks -> TaskRecords]
    BY DEF TaskRecords
  <1>3. ASSUME NEW c \in Children \cup {None}
        PROVE [f EXCEPT ![t].at = a, ![t].child = c] \in [Tasks -> TaskRecords]
    BY DEF TaskRecords
  <1> QED
    BY <1>0, <1>1, <1>2, <1>3

\* What the four config commands have in common: each loads the file and goes on by itself.
CliStarting == apply_protection_level \/ handle_pii_level \/ set_config \/ run_wizard

\* A config command that starts changes nothing but its own state, and has no child.
LEMMA CliBegins ==
  ASSUME TypeOK, CliStarting
  PROVE  /\ UNCHANGED <<serverVars, fileVars, task, dlVars, sideVars>>
         /\ cli.at = "idle"
         /\ cli' = cli \/ (cli' \in CliRecords /\ cli'.child = None /\ cli'.at \in {"fetch", "write"})
  <1> DEFINE Begun == cli' \in CliRecords /\ cli'.child = None /\ cli'.at \in {"fetch", "write"}
  <1>0. load(disk, Ner \in named) \in Configs
    BY LoadValid DEF TypeOK
  <1>1. ASSUME NEW at \in {"fetch", "write"}, NEW p \in CliPatches, NEW m \in Models \cup {None},
               NEW w \in Levels \cup {"set", "wizard"}, Runs(at, p, m, w)
        PROVE  Begun
    BY <1>0, <1>1 DEF Runs, CliRecords
  <1>2. \A p \in LevelPatches, m \in Models : WithModel(p, m) \in CliPatches /\ p \in CliPatches
    BY DEF CliPatches
  <1>3. \A l \in Levels : protection_level_to_patch(l) \in LevelPatches
    BY DEF LevelPatches
  <1>4. \A p \in CliChoices : p \in LevelPatches
    BY DEF LevelPatches
  <1>5. \A p \in Patches : p \in CliPatches
    BY DEF CliPatches
  <1>6. ASSUME apply_protection_level PROVE CliStarts /\ Begun
    <2>1. PICK l \in CliLevels \cap Levels, m \in Models :
            /\ CliStarts
            /\ \/ Runs("fetch", WithModel(protection_level_to_patch(l), m), m, l)
               \/ Runs("write", protection_level_to_patch(l), None, l)
      BY <1>6 DEF apply_protection_level
    <2>2. WithModel(protection_level_to_patch(l), m) \in CliPatches /\ protection_level_to_patch(l) \in CliPatches
      BY <1>2, <1>3
    <2> QED
      BY <1>1, <2>1, <2>2
  <1>7. ASSUME handle_pii_level PROVE CliStarts /\ (cli' = cli \/ Begun)
    <2>1. PICK l \in CliLevels \cap pii_level_for_id :
            /\ CliStarts
            /\ \/ cli' = cli
               \/ /\ l \in Levels
                  /\ IF needs_model(l) THEN Runs("fetch", WithModel(protection_level_to_patch(l), AutoModel), AutoModel, l)
                                       ELSE Runs("write", protection_level_to_patch(l), None, l)
      BY <1>7 DEF handle_pii_level
    <2>2. AutoModel \in Models
      BY SettingsAssumption
    <2>3. CASE cli' = cli
      BY <2>1, <2>3
    <2>4. CASE l \in Levels /\ (\/ Runs("fetch", WithModel(protection_level_to_patch(l), AutoModel), AutoModel, l)
                                \/ Runs("write", protection_level_to_patch(l), None, l))
      <3>1. /\ WithModel(protection_level_to_patch(l), AutoModel) \in CliPatches
            /\ protection_level_to_patch(l) \in CliPatches
        BY <1>2, <1>3, <2>2, <2>4
      <3> QED
        BY <1>1, <2>1, <2>2, <2>4, <3>1
    <2> QED
      BY <2>1, <2>3, <2>4
  <1>8. ASSUME set_config PROVE CliStarts /\ Begun
    BY <1>1, <1>5, <1>8 DEF set_config
  <1>9. ASSUME run_wizard PROVE CliStarts /\ Begun
    <2>1. PICK p \in CliChoices, m \in Models :
            CliStarts /\ (Runs("fetch", WithModel(p, m), m, "wizard") \/ Runs("write", p, None, "wizard"))
      BY <1>9 DEF run_wizard
    <2>2. WithModel(p, m) \in CliPatches /\ p \in CliPatches
      BY <1>2, <1>4
    <2> QED
      BY <1>1, <2>1, <2>2
  <1>10. CliStarts /\ (cli' = cli \/ Begun)
    BY <1>6, <1>7, <1>8, <1>9 DEF CliStarting
  <1> QED
    BY <1>10 DEF CliStarts

\* Every step keeps the types.
LEMMA TypeStep == TypeOK /\ BegunHasModel /\ [Next]_vars => TypeOK'
  <1> SUFFICES ASSUME TypeOK, BegunHasModel, [Next]_vars PROVE TypeOK'
    OBVIOUS
  <1> USE SettingsAssumption, ControlAssumption DEF TypeOK, serverVars, fileVars, dlVars, sideVars, counters
  <1>1. ASSUME cmd_start PROVE TypeOK'
    <2>1. mem' \in Configs /\ snap' \in Configs
      BY <1>1, LoadValid DEF cmd_start
    <2>2. origin' \in [by : Authors, ner : BOOLEAN]
      BY <1>1 DEF cmd_start
    <2> QED
      BY <1>1, <2>1, <2>2 DEF cmd_start
  <1>2. ASSUME ensure_slm_model PROVE TypeOK'
    <2>0. snap \in Configs /\ AutoModel \in Models
      OBVIOUS
    <2>1. snap' \in Configs
      <3>1. [snap EXCEPT !.model = AutoModel] \in Configs /\ [snap EXCEPT !.slm = FALSE] \in Configs
        BY <2>0 DEF Configs
      <3> QED
        BY <1>2, <3>1 DEF ensure_slm_model
    <2> QED
      BY <1>2, <2>1 DEF ensure_slm_model
  <1>3. ASSUME AdoptModel PROVE TypeOK'
    <2>1. mem' \in Configs /\ disk' \in Configs \cup {None} /\ patched' \in BOOLEAN
      <3>1. CASE Accepts(mem, [model |-> AutoModel])
        BY <1>3, <3>1 DEF AdoptModel, Accepts
      <3>2. CASE ~Accepts(mem, [model |-> AutoModel])
        BY <1>3, <3>2 DEF AdoptModel
      <3> QED
        BY <3>1, <3>2
    <2>2. author' \in Authors /\ server' = "spawn"
      BY <1>3, AuthorsTyped DEF AdoptModel
    <2> QED
      BY <1>3, <2>1, <2>2 DEF AdoptModel
  <1>4. ASSUME StartSidecar PROVE TypeOK'
    <2>1. snap' \in Configs
      BY <1>4 DEF StartSidecar, Configs
    <2>2. handle' \in Children \cup {None} /\ KidsTyped'
      BY <1>4, KidsKept DEF StartSidecar, KidsTyped
    <2> QED
      BY <1>4, <2>1, <2>2 DEF StartSidecar, KidsTyped
  <1>5. ASSUME ServerExits PROVE TypeOK'
    <2>1. KidsTyped'
      BY <1>5, KidsKept DEF ServerExits
    <2> QED
      BY <1>5, <2>1, IdleTyped, DefaultValid, AuthorsTyped DEF ServerExits, ForgetConfig, KidsTyped
  <1>6. ASSUME ServerKilled PROVE TypeOK'
    BY <1>6, IdleTyped, DefaultValid, AuthorsTyped DEF ServerKilled, ForgetConfig
  <1>7. ASSUME NEW t \in Tasks, PatchConfig(t) PROVE TypeOK'
    <2>1. PICK p \in Patches : task' = [task EXCEPT ![t].at = "patch", ![t].patch = p]
      BY <1>7 DEF PatchConfig
    <2>2. p \in HandlerPatches
      BY DEF HandlerPatches
    <2>3. task' \in [Tasks -> TaskRecords]
      BY <2>1, <2>2, TaskTyped
    <2> QED
      BY <1>7, <2>3 DEF PatchConfig
  <1>8. ASSUME NEW t \in Tasks, patch(t) PROVE TypeOK'
    <2>1. task' \in [Tasks -> TaskRecords]
      BY <1>8, IdleTyped DEF patch, Goes, Ends, TaskRecords
    <2>2. mem' \in Configs
      BY <1>8 DEF patch, Accepts
    <2> QED
      BY <1>8, <2>1, <2>2 DEF patch
  <1>9. ASSUME NEW t \in Tasks, save_to_disk(t) PROVE TypeOK'
    BY <1>9, IdleTyped, AuthorsTyped DEF save_to_disk, Ends, TaskRecords
  <1>10. ASSUME NEW t \in Tasks, PostDownload(t) PROVE TypeOK'
    <2>1. PICK m \in Models : task' = [task EXCEPT ![t].at = "begin", ![t].model = m]
      BY <1>10 DEF PostDownload
    <2>2. task' \in [Tasks -> TaskRecords]
      BY <2>1, TaskTyped
    <2> QED
      BY <1>10, <2>2 DEF PostDownload
  <1>11. ASSUME NEW t \in Tasks, start_background_download(t) PROVE TypeOK'
    BY <1>11, IdleTyped DEF start_background_download, Ends, TaskRecords, BegunHasModel
  <1>12. ASSUME NEW t \in Tasks, cancel(t) PROVE TypeOK'
    BY <1>12 DEF cancel, TaskRecords
  <1>13. ASSUME NEW t \in Tasks, deactivate(t) PROVE TypeOK'
    <2>0. [model |-> None, slm |-> FALSE] \in HandlerPatches
      BY DEF HandlerPatches
    <2>1. PICK p \in HandlerPatches : task' = [task EXCEPT ![t].at = "patch", ![t].patch = p]
      BY <1>13, <2>0, Zenon DEF deactivate
    <2>2. task' \in [Tasks -> TaskRecords]
      BY <2>1, TaskTyped
    <2>3. KidsTyped'
      BY <1>13, KidsKept DEF deactivate
    <2> QED
      BY <1>13, <2>2, <2>3 DEF deactivate, KidsTyped
  <1>14. ASSUME NEW t \in Tasks, activate(t) PROVE TypeOK'
    <2>1. PICK m \in Models : task' = [task EXCEPT ![t] = [at |-> "start", patch |-> [model |-> m], model |-> m,
                                                        child |-> None]]
      BY <1>14 DEF activate
    <2>2. [model |-> m] \in HandlerPatches
      BY DEF HandlerPatches
    <2>3. task' \in [Tasks -> TaskRecords]
      BY <2>1, <2>2 DEF TaskRecords
    <2>4. KidsTyped'
      BY <1>14, KidsKept DEF activate
    <2> QED
      BY <1>14, <2>3, <2>4 DEF activate, KidsTyped
  <1>15. ASSUME NEW t \in Tasks, ActivateStarts(t) PROVE TypeOK'
    <2>1. KidsTyped' /\ (Spawn(task[t].model) => NewChild \in Children)
      BY <1>15, KidsKept DEF ActivateStarts, KidsTyped
    <2>2. task' \in [Tasks -> TaskRecords]
      BY <1>15, <2>1 DEF ActivateStarts, Goes, TaskRecords
    <2> QED
      BY <1>15, <2>1, <2>2 DEF ActivateStarts, KidsTyped
  <1>16. ASSUME NEW t \in Tasks, ActivateStores(t) PROVE TypeOK'
    <2>1. task[t].child \in Children \cup {None} /\ task' \in [Tasks -> TaskRecords]
      BY <1>16, TaskTyped, ZenonT(60) DEF ActivateStores
    <2>2. KidsTyped'
      BY <1>16, KidsKept DEF ActivateStores
    <2> QED
      BY <1>16, <2>1, <2>2 DEF ActivateStores, KidsTyped
  <1>17. ASSUME NEW t \in Tasks, DeleteModel(t) PROVE TypeOK'
    <2>1. PICK m \in Models : task' = [task EXCEPT ![t].at = "remove", ![t].model = m]
      BY <1>17 DEF DeleteModel
    <2>2. task' \in [Tasks -> TaskRecords]
      BY <2>1, TaskTyped
    <2> QED
      BY <1>17, <2>2 DEF DeleteModel
  <1>18. ASSUME NEW t \in Tasks, RemoveFile(t) PROVE TypeOK'
    BY <1>18, IdleTyped DEF RemoveFile, Ends, TaskRecords
  <1>19. ASSUME NEW d \in Downloads, DownloadSucceeds(d) PROVE TypeOK'
    BY <1>19 DEF DownloadSucceeds, complete
  <1>20. ASSUME NEW d \in Downloads, DownloadFails(d) PROVE TypeOK'
    <2>1. dl' \in [Downloads -> [at : {"none", "running", "failed"}, model : Models \cup {None}]]
      BY <1>20 DEF DownloadFails
    <2> QED
      BY <1>20, <2>1 DEF DownloadFails, complete
  <1>21. ASSUME NEW d \in Downloads, DownloadCleansUp(d) PROVE TypeOK'
    BY <1>21 DEF DownloadCleansUp
  <1>22. ASSUME CliStarting PROVE TypeOK'
    BY <1>22, CliBegins
  <1>23. ASSUME CliFetches PROVE TypeOK'
    BY <1>23, IdleTyped DEF CliFetches, CliRecords
  <1>24. ASSUME CliWrites PROVE TypeOK'
    <2>1. disk' \in Configs \cup {None}
      BY <1>24 DEF CliWrites, Accepts
    <2>2. cli' \in CliRecords
      BY <1>24, IdleTyped DEF CliWrites, CliRecords
    <2>3. foreign' \in BOOLEAN /\ author' \in Authors
      BY <1>24, AuthorsTyped DEF CliWrites
    <2> QED
      BY <1>24, <2>1, <2>2, <2>3 DEF CliWrites
  <1>25. ASSUME maybe_launch_llama_server PROVE TypeOK'
    <2>1. KidsTyped' /\ (cli' = IdleCli \/ NewChild \in Children)
      BY <1>25, KidsKept DEF maybe_launch_llama_server, KidsTyped
    <2>2. cli' \in CliRecords
      BY <1>25, <2>1, IdleTyped, ZenonT(60) DEF maybe_launch_llama_server, CliRecords
    <2> QED
      BY <1>25, <2>1, <2>2 DEF maybe_launch_llama_server, KidsTyped
  <1>26. ASSUME CliEnds PROVE TypeOK'
    <2>1. KidsTyped'
      BY <1>26, KidsKept DEF CliEnds
    <2> QED
      BY <1>26, <2>1, IdleTyped DEF CliEnds, KidsTyped
  <1>27. ASSUME ChildBinds PROVE TypeOK'
    <2>1. PICK c \in DOMAIN live :
            \/ port' = c /\ UNCHANGED <<live, orphans>>
            \/ live' = Without({c}) /\ orphans' = orphans \ {c} /\ UNCHANGED port
      BY <1>27 DEF ChildBinds
    <2>2. KidsTyped'
      <3>1. KidsTyped /\ DOMAIN Without({c}) = DOMAIN live \ {c}
        BY KidsKept, LiveAfter
      <3> QED
        BY <2>1, <3>1 DEF KidsTyped
    <2> QED
      BY <1>27, <2>2 DEF ChildBinds, KidsTyped
  <1>28. ASSUME ChildEnds PROVE TypeOK'
    <2>1. KidsTyped'
      BY <1>28, KidsKept DEF ChildEnds
    <2> QED
      BY <1>28, <2>1 DEF ChildEnds, KidsTyped
  <1>29. ASSUME UserCopies \/ UserWrites PROVE TypeOK'
    BY <1>29 DEF UserCopies, UserWrites, Authors
  <1>30. CASE UNCHANGED vars
    BY <1>30 DEF vars
  <1> QED
        BY <1>1, <1>2, <1>3, <1>4, <1>5, <1>6, <1>7, <1>8, <1>9, <1>10, <1>11, <1>12, <1>13, <1>14, <1>15,
       <1>16, <1>17, <1>18, <1>19, <1>20, <1>21, <1>22, <1>23, <1>24, <1>25, <1>26, <1>27, <1>28, <1>29,
       <1>30
    DEF Next, Handler, Download, Cli, CliStarting

\* Every step keeps the tiers valid where the user's own file has not put them: whatever a program
\* puts into memory or into the file was merged and validated, and a load or a failed download only
\* takes tiers away.
LEMMA TiersStep == ControlInv /\ [Next]_vars => TiersValid'
  <1> SUFFICES ASSUME ControlInv, [Next]_vars PROVE TiersValid'
    OBVIOUS
  <1>0. TypeOK /\ TiersValid /\ SavesPatched /\ ChildrenInHand
    BY DEF ControlInv
  <1> USE <1>0, SettingsAssumption, ControlAssumption DEF serverVars, fileVars, dlVars, sideVars, counters
  <1>1. ASSUME cmd_start PROVE TiersValid'
    BY <1>1, LoadValid DEF TypeOK, TiersValid, cmd_start
  <1>2. ASSUME ensure_slm_model PROVE TiersValid'
    BY <1>2 DEF TypeOK, TiersValid, validate_pii_tiers, Configs, ensure_slm_model
  <1>3. ASSUME AdoptModel PROVE TiersValid'
    BY <1>3 DEF TypeOK, TiersValid, AdoptModel, Accepts
  <1>4. ASSUME StartSidecar PROVE TiersValid'
    BY <1>4 DEF TypeOK, TiersValid, validate_pii_tiers, Configs, StartSidecar
  <1>5. ASSUME ServerExits PROVE TiersValid'
    BY <1>5, DefaultValid DEF TiersValid, ServerExits, ForgetConfig
  <1>6. ASSUME ServerKilled PROVE TiersValid'
    BY <1>6, DefaultValid DEF TiersValid, ServerKilled, ForgetConfig
  <1>7. ASSUME NEW t \in Tasks, patch(t) PROVE TiersValid'
    BY <1>7 DEF TypeOK, TiersValid, patch, Accepts
  <1>8. ASSUME NEW t \in Tasks, save_to_disk(t) PROVE TiersValid'
    BY <1>8 DEF TypeOK, TiersValid, save_to_disk, SavesPatched
  <1>9. ASSUME CliStarting PROVE TiersValid'
    BY <1>9, CliBegins DEF TiersValid
  <1>10. ASSUME CliWrites PROVE TiersValid'
    BY <1>10 DEF TypeOK, TiersValid, CliWrites, Accepts
  <1>11. ASSUME NEW t \in Tasks, PatchConfig(t) \/ PostDownload(t) \/ start_background_download(t) \/ cancel(t) \/ deactivate(t)
               \/ activate(t) \/ ActivateStarts(t) \/ ActivateStores(t) \/ DeleteModel(t) \/ RemoveFile(t)
         PROVE TiersValid'
    BY <1>11 DEF PatchConfig, PostDownload, start_background_download, cancel, deactivate, activate,
           ActivateStarts, ActivateStores, DeleteModel, RemoveFile, Ends, Goes, TiersValid
  <1>12. ASSUME NEW d \in Downloads, DownloadSucceeds(d) \/ DownloadFails(d) \/ DownloadCleansUp(d)
         PROVE TiersValid'
    BY <1>12 DEF DownloadSucceeds, DownloadFails, DownloadCleansUp, complete, TiersValid
  <1>13. ASSUME CliFetches \/ maybe_launch_llama_server \/ CliEnds \/ ChildBinds \/ ChildEnds \/ UserCopies
         PROVE TiersValid'
    <2>1. UNCHANGED <<serverVars, fileVars>>
      BY <1>13 DEF CliFetches, maybe_launch_llama_server, CliEnds, ChildBinds, ChildEnds, UserCopies
    <2> QED
      BY <2>1 DEF TiersValid
  <1>14. CASE UNCHANGED vars
    BY <1>14 DEF vars, TiersValid
  <1>15. ASSUME UserWrites PROVE TiersValid'
    BY <1>15 DEF UserWrites, TiersValid
  <1> QED
    BY <1>1, <1>2, <1>3, <1>4, <1>5, <1>6, <1>7, <1>8, <1>9, <1>10, <1>11, <1>12, <1>13, <1>14, <1>15
    DEF Next, Handler, Download, Cli, CliStarting

\* A handler goes to a place, with a child in its hand; the others stay.
TaskGoes(t, a, c) == /\ task'[t].at = a /\ task'[t].child = c
                     /\ \A x \in Tasks : x /= t => task'[x] = task[x]

\* Where the steps of a handler lead.
LEMMA HandlerGoes ==
  ASSUME TypeOK, NEW t \in Tasks
  PROVE  /\ PatchConfig(t) \/ deactivate(t) => TaskGoes(t, "patch", task[t].child)
         /\ activate(t) => TaskGoes(t, "start", None)
         /\ PostDownload(t) => TaskGoes(t, "begin", task[t].child)
         /\ DeleteModel(t) => TaskGoes(t, "remove", task[t].child)
         /\ patch(t) => TaskGoes(t, "save", task[t].child) \/ (TaskGoes(t, "idle", None) /\ UNCHANGED <<mem, patched>>)
         /\ save_to_disk(t) \/ start_background_download(t) \/ RemoveFile(t) => TaskGoes(t, "idle", None)
         /\ ActivateStarts(t) => \/ Spawn(task[t].model) /\ TaskGoes(t, "store", NewChild)
                                 \/ UNCHANGED <<live, port, orphans>> /\ TaskGoes(t, "patch", task[t].child)
         /\ ActivateStores(t) => TaskGoes(t, "patch", None)
  <1> USE DEF TypeOK, TaskRecords, TaskGoes, Goes, Ends, IdleTask
  <1>1. PatchConfig(t) => TaskGoes(t, "patch", task[t].child)
    BY DEF PatchConfig
  <1>2. deactivate(t) => TaskGoes(t, "patch", task[t].child)
    <2>1. SUFFICES ASSUME NEW p, task' = [task EXCEPT ![t].at = "patch", ![t].patch = p]
                   PROVE  TaskGoes(t, "patch", task[t].child)
      BY DEF deactivate
    <2> QED
      BY <2>1
  <1>3. activate(t) => TaskGoes(t, "start", None)
    <2>1. SUFFICES ASSUME NEW p, NEW m, task' = [task EXCEPT ![t] = [at |-> "start", patch |-> p, model |-> m, child |-> None]]
                   PROVE  TaskGoes(t, "start", None)
      BY DEF activate
    <2> QED
      BY <2>1
  <1>4. PostDownload(t) => TaskGoes(t, "begin", task[t].child)
    BY DEF PostDownload
  <1>5. DeleteModel(t) => TaskGoes(t, "remove", task[t].child)
    BY DEF DeleteModel
  <1>6. patch(t) => TaskGoes(t, "save", task[t].child) \/ (TaskGoes(t, "idle", None) /\ UNCHANGED <<mem, patched>>)
    BY DEF patch
  <1>7. save_to_disk(t) \/ start_background_download(t) \/ RemoveFile(t) => TaskGoes(t, "idle", None)
    BY DEF save_to_disk, start_background_download, RemoveFile
  <1>8. ActivateStarts(t) => \/ Spawn(task[t].model) /\ TaskGoes(t, "store", NewChild)
                             \/ UNCHANGED <<live, port, orphans>> /\ TaskGoes(t, "patch", task[t].child)
    BY DEF ActivateStarts
  <1>9. ActivateStores(t) => TaskGoes(t, "patch", None)
    BY DEF ActivateStores
  <1> QED
    BY <1>1, <1>2, <1>3, <1>4, <1>5, <1>6, <1>7, <1>8, <1>9

\* Every step keeps the senders live: a task that ends takes the registration of its model with it,
\* and a new one is registered for a download that was free.
LEMMA SendersStep == ControlInv /\ [Next]_vars => SendersLive' /\ BegunHasModel'
  <1> SUFFICES ASSUME ControlInv, [Next]_vars PROVE SendersLive' /\ BegunHasModel'
    OBVIOUS
  <1>0. TypeOK /\ TiersValid /\ SendersLive /\ BegunHasModel
    BY DEF ControlInv
    <1> USE <1>0, SettingsAssumption, ControlAssumption DEF serverVars, fileVars, dlVars, sideVars,
     counters, TypeOK, TaskRecords, SendersLive, BegunHasModel, IdleTask, Goes, Ends
  <1>1. ASSUME NEW t \in Tasks, PatchConfig(t) PROVE SendersLive' /\ BegunHasModel'
    BY <1>1 DEF PatchConfig
  <1>2. ASSUME NEW t \in Tasks, patch(t) PROVE SendersLive' /\ BegunHasModel'
    BY <1>2 DEF patch
  <1>3. ASSUME NEW t \in Tasks, save_to_disk(t) PROVE SendersLive' /\ BegunHasModel'
    BY <1>3 DEF save_to_disk
  <1>4. ASSUME NEW t \in Tasks, PostDownload(t) PROVE SendersLive' /\ BegunHasModel'
    BY <1>4 DEF PostDownload
  <1>5. ASSUME NEW t \in Tasks, start_background_download(t) PROVE SendersLive' /\ BegunHasModel'
    BY <1>5 DEF start_background_download
  <1>6. ASSUME NEW t \in Tasks, cancel(t) PROVE SendersLive' /\ BegunHasModel'
    BY <1>6 DEF cancel
  <1>7. ASSUME NEW t \in Tasks, deactivate(t) PROVE SendersLive' /\ BegunHasModel'
    BY <1>7 DEF deactivate
  <1>8. ASSUME NEW t \in Tasks, activate(t) PROVE SendersLive' /\ BegunHasModel'
    BY <1>8 DEF activate
  <1>9. ASSUME NEW t \in Tasks, ActivateStarts(t) PROVE SendersLive' /\ BegunHasModel'
    BY <1>9 DEF ActivateStarts
  <1>10. ASSUME NEW t \in Tasks, ActivateStores(t) PROVE SendersLive' /\ BegunHasModel'
    BY <1>10 DEF ActivateStores
  <1>11. ASSUME NEW t \in Tasks, DeleteModel(t) PROVE SendersLive' /\ BegunHasModel'
    BY <1>11 DEF DeleteModel
  <1>12. ASSUME NEW t \in Tasks, RemoveFile(t) PROVE SendersLive' /\ BegunHasModel'
    BY <1>12 DEF RemoveFile
  <1>13. ASSUME CliStarting PROVE SendersLive' /\ BegunHasModel'
    BY <1>13, CliBegins
  <1>14. ASSUME cmd_start \/ ensure_slm_model \/ AdoptModel \/ StartSidecar \/ ServerExits \/ ServerKilled
         PROVE SendersLive' /\ BegunHasModel'
    BY <1>14 DEF cmd_start, ensure_slm_model, AdoptModel, StartSidecar, ServerExits, ServerKilled, ForgetConfig
  <1>15. ASSUME NEW d \in Downloads, DownloadSucceeds(d) \/ DownloadFails(d) \/ DownloadCleansUp(d)
         PROVE SendersLive' /\ BegunHasModel'
    BY <1>15 DEF DownloadSucceeds, DownloadFails, DownloadCleansUp, complete
  <1>16. ASSUME CliFetches \/ CliWrites \/ maybe_launch_llama_server \/ CliEnds \/ ChildBinds \/ ChildEnds \/
               UserCopies \/ UserWrites PROVE SendersLive' /\ BegunHasModel'
    BY <1>16 DEF CliFetches, CliWrites, maybe_launch_llama_server, CliEnds, ChildBinds, ChildEnds, UserCopies, UserWrites
  <1>17. CASE UNCHANGED vars
    BY <1>17 DEF vars
  <1> QED
        BY <1>1, <1>2, <1>3, <1>4, <1>5, <1>6, <1>7, <1>8, <1>9, <1>10, <1>11, <1>12, <1>13, <1>14, <1>15,
       <1>16, <1>17
    DEF Next, Handler, Download, Cli, CliStarting

\* Every step keeps the file in step with memory, unless a handler is about to save it.
LEMMA FileStep == ControlInv /\ [Next]_vars => FileFollows'
  <1> SUFFICES ASSUME ControlInv, [Next]_vars PROVE FileFollows'
    OBVIOUS
  <1>0. TypeOK /\ TiersValid /\ FileFollows /\ ChildrenInHand
    BY DEF ControlInv
    <1> USE <1>0, SettingsAssumption, ControlAssumption DEF serverVars, fileVars, dlVars, sideVars,
     counters, FileFollows
  <1>1. ASSUME ServerExits PROVE FileFollows'
    BY <1>1 DEF ServerExits
  <1>2. ASSUME ServerKilled PROVE FileFollows'
    BY <1>2 DEF ServerKilled
  <1>3. ASSUME NEW t \in Tasks, PatchConfig(t) PROVE FileFollows'
    <2>1. task[t].at = "idle" /\ UNCHANGED <<server, patched, foreign, disk, mem>>
      BY <1>3 DEF PatchConfig, Arrives
    <2>2. TaskGoes(t, "patch", task[t].child)
      BY <1>3, HandlerGoes
    <2> QED
      BY <2>1, <2>2 DEF TaskGoes
  <1>4. ASSUME NEW t \in Tasks, patch(t) PROVE FileFollows'
    <2>1. task[t].at = "patch" /\ UNCHANGED <<server, foreign, disk>>
      BY <1>4 DEF patch
    <2>2. TaskGoes(t, "save", task[t].child) \/ (TaskGoes(t, "idle", None) /\ UNCHANGED <<mem, patched>>)
      BY <1>4, HandlerGoes
    <2> QED
      BY <2>1, <2>2 DEF TaskGoes
  <1>5. ASSUME NEW t \in Tasks, save_to_disk(t) PROVE FileFollows'
    BY <1>5, HandlerGoes DEF TaskGoes, save_to_disk
  <1>6. ASSUME NEW t \in Tasks, PostDownload(t) PROVE FileFollows'
    <2>1. task[t].at = "idle" /\ UNCHANGED <<server, patched, foreign, disk, mem>>
      BY <1>6 DEF PostDownload, Arrives
    <2>2. TaskGoes(t, "begin", task[t].child)
      BY <1>6, HandlerGoes
    <2> QED
      BY <2>1, <2>2 DEF TaskGoes
  <1>7. ASSUME NEW t \in Tasks, start_background_download(t) PROVE FileFollows'
    BY <1>7, HandlerGoes DEF TaskGoes, start_background_download
  <1>8. ASSUME NEW t \in Tasks, cancel(t) PROVE FileFollows'
    BY <1>8 DEF cancel
  <1>9. ASSUME NEW t \in Tasks, deactivate(t) PROVE FileFollows'
    BY <1>9, HandlerGoes DEF TaskGoes, deactivate, Arrives
  <1>10. ASSUME NEW t \in Tasks, activate(t) PROVE FileFollows'
    BY <1>10, HandlerGoes DEF TaskGoes, activate, Arrives
  <1>11. ASSUME NEW t \in Tasks, ActivateStarts(t) PROVE FileFollows'
    BY <1>11, HandlerGoes DEF TaskGoes, ActivateStarts
  <1>12. ASSUME NEW t \in Tasks, ActivateStores(t) PROVE FileFollows'
    BY <1>12, HandlerGoes DEF TaskGoes, ActivateStores
  <1>13. ASSUME NEW t \in Tasks, DeleteModel(t) PROVE FileFollows'
    <2>1. task[t].at = "idle" /\ UNCHANGED <<server, patched, foreign, disk, mem>>
      BY <1>13 DEF DeleteModel, Arrives
    <2>2. TaskGoes(t, "remove", task[t].child)
      BY <1>13, HandlerGoes
    <2> QED
      BY <2>1, <2>2 DEF TaskGoes
  <1>14. ASSUME NEW t \in Tasks, RemoveFile(t) PROVE FileFollows'
    BY <1>14, HandlerGoes DEF TaskGoes, RemoveFile
  <1>15. ASSUME CliStarting PROVE FileFollows'
    BY <1>15, CliBegins
  <1>16. ASSUME cmd_start \/ ensure_slm_model \/ AdoptModel \/ StartSidecar PROVE FileFollows'
    BY <1>16 DEF cmd_start, ensure_slm_model, AdoptModel, StartSidecar, ChildrenInHand
  <1>17. ASSUME NEW d \in Downloads, DownloadSucceeds(d) \/ DownloadFails(d) \/ DownloadCleansUp(d)
         PROVE FileFollows'
    BY <1>17 DEF DownloadSucceeds, DownloadFails, DownloadCleansUp, complete, ChildrenInHand
  <1>18. ASSUME CliFetches \/ CliWrites \/ maybe_launch_llama_server \/ CliEnds \/ ChildBinds \/ ChildEnds \/
               UserCopies \/ UserWrites PROVE FileFollows'
    BY <1>18 DEF CliFetches, CliWrites, maybe_launch_llama_server, CliEnds, ChildBinds, ChildEnds, UserCopies, UserWrites,
           ChildrenInHand
  <1>19. CASE UNCHANGED vars
    BY <1>19 DEF vars, ChildrenInHand
  <1> QED
        BY <1>1, <1>2, <1>3, <1>4, <1>5, <1>6, <1>7, <1>8, <1>9, <1>10, <1>11, <1>12, <1>13, <1>14, <1>15,
       <1>16, <1>17, <1>18, <1>19
    DEF Next, Handler, Download, Cli, CliStarting

\* Somebody will end child c: whoever refers to it, or nobody that is left.
Held(c) == c = handle \/ c = cli.child \/ c \in orphans \/ \E t \in Tasks : c = task[t].child

\* NoOrphanSidecar, child by child.
LEMMA HeldEach ==
  /\ NoOrphanSidecar <=> \A c \in DOMAIN live : Held(c)
  /\ NoOrphanSidecar' <=> \A c \in DOMAIN live' : Held(c)'
  BY DEF NoOrphanSidecar, Held

\* A handler that stores no child, or stores it in the handle, leaves every live child in a hand.
LEMMA HandsKept ==
  ASSUME TypeOK, NoOrphanSidecar, ChildrenInHand, NEW t \in Tasks, NEW a, NEW c, TaskGoes(t, a, c), a /= "store",
         UNCHANGED <<server, cli>>, server = "on", c \in {None, task[t].child},
         IF task[t].at = "store" THEN c = None /\ handle' = task[t].child /\ handle \notin DOMAIN live'
                                 ELSE handle' = handle \/ handle \notin DOMAIN live',
         DOMAIN live' \subseteq DOMAIN live, orphans \cap DOMAIN live' \subseteq orphans'
  PROVE  NoOrphanSidecar' /\ ChildrenInHand'
  <1>1. task[t].at /= "store" => task[t].child = None
    BY DEF ChildrenInHand
  <1>2. c = None
    BY <1>1
  <1>3. ChildrenInHand'
    BY <1>2 DEF ChildrenInHand, TaskGoes
  <1>4. ASSUME NEW k \in DOMAIN live' PROVE Held(k)'
    <2>1. k \in DOMAIN live /\ k /= None /\ Held(k)
      BY ControlAssumption, HeldEach DEF TypeOK
    <2>2. CASE k = handle
      BY <2>1, <2>2 DEF Held
    <2>3. CASE k = cli.child \/ k \in orphans
      BY <2>3 DEF Held
    <2>4. CASE \E x \in Tasks : k = task[x].child
      BY <1>1, <2>1, <2>4 DEF Held, TaskGoes
    <2> QED
      BY <2>1, <2>2, <2>3, <2>4 DEF Held
  <1> QED
    BY <1>3, <1>4, HeldEach

\* Without the child in the handle, or with an empty one, nobody needs the handle.
LEMMA HandleDropped ==
  ASSUME TypeOK, IF handle = None THEN UNCHANGED <<live, port, orphans>> ELSE Drop(handle)
  PROVE  DOMAIN live' \subseteq DOMAIN live /\ handle \notin DOMAIN live' /\ orphans \cap DOMAIN live' \subseteq orphans'
  <1>1. CASE handle = None
    BY <1>1, ControlAssumption DEF TypeOK
  <1>2. CASE handle /= None
    BY <1>2, LiveAfter
  <1> QED
    BY <1>1, <1>2

\* Every step keeps each live child in somebody's hand: who drops a reference drops the child, and a new
\* child gets a name that nobody else holds.
LEMMA ChildrenStep == ControlInv /\ [Next]_vars => NoOrphanSidecar' /\ ChildrenInHand'
  <1> SUFFICES ASSUME ControlInv, [Next]_vars PROVE NoOrphanSidecar' /\ ChildrenInHand'
    OBVIOUS
  <1>0. TypeOK /\ TiersValid /\ NoOrphanSidecar /\ ChildrenInHand
    BY DEF ControlInv
    <1> USE <1>0, SettingsAssumption, ControlAssumption DEF serverVars, fileVars, dlVars, sideVars,
     counters, TypeOK, ChildrenInHand, Held
  <1>1. ASSUME cmd_start PROVE NoOrphanSidecar' /\ ChildrenInHand'
    BY <1>1, HeldEach DEF cmd_start
  <1>2. ASSUME ensure_slm_model PROVE NoOrphanSidecar' /\ ChildrenInHand'
    BY <1>2, HeldEach DEF ensure_slm_model
  <1>3. ASSUME AdoptModel PROVE NoOrphanSidecar' /\ ChildrenInHand'
    BY <1>3, HeldEach DEF AdoptModel
  <1>4. ASSUME StartSidecar PROVE NoOrphanSidecar' /\ ChildrenInHand'
    BY <1>4, HeldEach, LiveAfter DEF StartSidecar
  <1>5. ASSUME ServerExits PROVE NoOrphanSidecar' /\ ChildrenInHand'
    <2>1. /\ IF handle = None THEN UNCHANGED <<live, port, orphans>> ELSE Drop(handle)
          /\ handle' = None /\ task' = [x \in Tasks |-> IdleTask] /\ cli' = cli
          /\ \A x \in Tasks : task[x].child = None
      BY <1>5 DEF ServerExits
    <2>2. ChildrenInHand'
      BY <2>1 DEF IdleTask
    <2>3. ASSUME NEW k \in DOMAIN live' PROVE Held(k)'
      <3>1. k \in DOMAIN live /\ k /= handle /\ k /= None /\ Held(k) /\ (k \in orphans => k \in orphans')
        BY <2>1, <2>3, HandleDropped, HeldEach
      <3> QED
        BY <2>1, <3>1
    <2> QED
      BY <2>2, <2>3, HeldEach
  <1>6. ASSUME ServerKilled PROVE NoOrphanSidecar' /\ ChildrenInHand'
    BY <1>6, HeldEach DEF ServerKilled, IdleTask
  <1>7. ASSUME NEW t \in Tasks, PatchConfig(t) PROVE NoOrphanSidecar' /\ ChildrenInHand'
    <2>1. task[t].at = "idle" /\ server = "on" /\ UNCHANGED <<server, cli, live, orphans, handle>>
      BY <1>7 DEF PatchConfig, Arrives
    <2>2. TaskGoes(t, "patch", task[t].child)
      BY <1>7, HandlerGoes
    <2> QED
      BY <2>1, <2>2, HandsKept
  <1>8. ASSUME NEW t \in Tasks, patch(t) PROVE NoOrphanSidecar' /\ ChildrenInHand'
    <2>1. task[t].at = "patch" /\ server = "on" /\ UNCHANGED <<server, cli, live, orphans, handle>>
      BY <1>8 DEF patch
    <2>2. TaskGoes(t, "save", task[t].child) \/ TaskGoes(t, "idle", None)
      BY <1>8, HandlerGoes
    <2> QED
      BY <2>1, <2>2, HandsKept
  <1>9. ASSUME NEW t \in Tasks, save_to_disk(t) PROVE NoOrphanSidecar' /\ ChildrenInHand'
    <2>1. task[t].at = "save" /\ server = "on" /\ UNCHANGED <<server, cli, live, orphans, handle>>
      BY <1>9 DEF save_to_disk
    <2>2. TaskGoes(t, "idle", None)
      BY <1>9, HandlerGoes
    <2> QED
      BY <2>1, <2>2, HandsKept
  <1>10. ASSUME NEW t \in Tasks, PostDownload(t) PROVE NoOrphanSidecar' /\ ChildrenInHand'
    <2>1. task[t].at = "idle" /\ server = "on" /\ UNCHANGED <<server, cli, live, orphans, handle>>
      BY <1>10 DEF PostDownload, Arrives
    <2>2. TaskGoes(t, "begin", task[t].child)
      BY <1>10, HandlerGoes
    <2> QED
      BY <2>1, <2>2, HandsKept
  <1>11. ASSUME NEW t \in Tasks, start_background_download(t) PROVE NoOrphanSidecar' /\ ChildrenInHand'
    <2>1. task[t].at = "begin" /\ server = "on" /\ UNCHANGED <<server, cli, live, orphans, handle>>
      BY <1>11 DEF start_background_download
    <2>2. TaskGoes(t, "idle", None)
      BY <1>11, HandlerGoes
    <2> QED
      BY <2>1, <2>2, HandsKept
  <1>12. ASSUME NEW t \in Tasks, cancel(t) PROVE NoOrphanSidecar' /\ ChildrenInHand'
    BY <1>12, HeldEach DEF cancel
  <1>13. ASSUME NEW t \in Tasks, deactivate(t) PROVE NoOrphanSidecar' /\ ChildrenInHand'
    <2>1. task[t].at = "idle" /\ server = "on" /\ UNCHANGED <<server, cli>>
      BY <1>13 DEF deactivate, Arrives
    <2>2. TaskGoes(t, "patch", task[t].child)
      BY <1>13, HandlerGoes
    <2>3. IF handle = None THEN UNCHANGED <<live, port, orphans>> ELSE Drop(handle)
      BY <1>13 DEF deactivate
    <2> QED
      BY <2>1, <2>2, <2>3, HandleDropped, HandsKept
  <1>14. ASSUME NEW t \in Tasks, activate(t) PROVE NoOrphanSidecar' /\ ChildrenInHand'
    <2>1. task[t].at = "idle" /\ server = "on" /\ UNCHANGED <<server, cli>>
      BY <1>14 DEF activate, Arrives
    <2>2. TaskGoes(t, "start", None)
      BY <1>14, HandlerGoes
    <2>3. IF handle = None THEN UNCHANGED <<live, port, orphans>> ELSE Drop(handle)
      BY <1>14 DEF activate
    <2> QED
      BY <2>1, <2>2, <2>3, HandleDropped, HandsKept
  <1>15. ASSUME NEW t \in Tasks, ActivateStarts(t) PROVE NoOrphanSidecar' /\ ChildrenInHand'
    <2>1. task[t].at = "start" /\ server = "on" /\ UNCHANGED <<server, cli, handle>>
      BY <1>15 DEF ActivateStarts
    <2>2. CASE UNCHANGED <<live, port, orphans>> /\ TaskGoes(t, "patch", task[t].child)
      BY <2>1, <2>2, HandsKept
    <2>3. CASE Spawn(task[t].model) /\ TaskGoes(t, "store", NewChild)
      <3>1. DOMAIN live' = DOMAIN live \cup {NewChild} /\ orphans' = orphans
        BY <2>3, LiveAfter
      <3>2. ChildrenInHand'
        BY <2>1, <2>3 DEF ChildrenInHand, TaskGoes
      <3>3. ASSUME NEW k \in DOMAIN live' PROVE Held(k)'
        <4>1. CASE k = NewChild
          BY <2>3, <4>1 DEF Held, TaskGoes
        <4>2. CASE k \in DOMAIN live
          <5>1. Held(k) /\ k /= None /\ task[t].child = None
            BY <2>1, <4>2, HeldEach DEF ChildrenInHand, TypeOK
          <5> QED
            BY <2>1, <2>3, <3>1, <5>1 DEF Held, TaskGoes
        <4> QED
          BY <3>1, <3>3, <4>1, <4>2
      <3> QED
        BY <3>2, <3>3, HeldEach
    <2> QED
      BY <1>15, <2>2, <2>3, HandlerGoes
  <1>16. ASSUME NEW t \in Tasks, ActivateStores(t) PROVE NoOrphanSidecar' /\ ChildrenInHand'
    <2>1. /\ task[t].at = "store" /\ server = "on" /\ UNCHANGED <<server, cli>> /\ handle' = task[t].child
          /\ IF handle = None THEN UNCHANGED <<live, port, orphans>> ELSE Drop(handle)
      BY <1>16 DEF ActivateStores
    <2>2. TaskGoes(t, "patch", None)
      BY <1>16, HandlerGoes
    <2> QED
      BY <2>1, <2>2, HandleDropped, HandsKept
  <1>17. ASSUME NEW t \in Tasks, DeleteModel(t) PROVE NoOrphanSidecar' /\ ChildrenInHand'
    <2>1. task[t].at = "idle" /\ server = "on" /\ UNCHANGED <<server, cli, live, orphans, handle>>
      BY <1>17 DEF DeleteModel, Arrives
    <2>2. TaskGoes(t, "remove", task[t].child)
      BY <1>17, HandlerGoes
    <2> QED
      BY <2>1, <2>2, HandsKept
  <1>18. ASSUME NEW t \in Tasks, RemoveFile(t) PROVE NoOrphanSidecar' /\ ChildrenInHand'
    <2>1. task[t].at = "remove" /\ server = "on" /\ UNCHANGED <<server, cli, live, orphans, handle>>
      BY <1>18 DEF RemoveFile
    <2>2. TaskGoes(t, "idle", None)
      BY <1>18, HandlerGoes
    <2> QED
      BY <2>1, <2>2, HandsKept
  <1>19. ASSUME NEW d \in Downloads, DownloadSucceeds(d) PROVE NoOrphanSidecar' /\ ChildrenInHand'
    BY <1>19, HeldEach DEF DownloadSucceeds
  <1>20. ASSUME NEW d \in Downloads, DownloadFails(d) PROVE NoOrphanSidecar' /\ ChildrenInHand'
    BY <1>20, HeldEach DEF DownloadFails
  <1>21. ASSUME NEW d \in Downloads, DownloadCleansUp(d) PROVE NoOrphanSidecar' /\ ChildrenInHand'
    BY <1>21, HeldEach DEF DownloadCleansUp
  <1>22. ASSUME CliStarting PROVE NoOrphanSidecar' /\ ChildrenInHand'
    BY <1>22, CliBegins, HeldEach DEF CliRecords
  <1>23. ASSUME CliFetches PROVE NoOrphanSidecar' /\ ChildrenInHand'
    BY <1>23, HeldEach DEF CliFetches, CliRecords, IdleCli
  <1>24. ASSUME CliWrites PROVE NoOrphanSidecar' /\ ChildrenInHand'
    BY <1>24, HeldEach DEF CliWrites, CliRecords, IdleCli
  <1>25. ASSUME maybe_launch_llama_server PROVE NoOrphanSidecar' /\ ChildrenInHand'
    <2>1. cli.child = None /\ UNCHANGED <<server, task, handle>>
      BY <1>25 DEF maybe_launch_llama_server
    <2>2. CASE cli' = IdleCli /\ UNCHANGED <<live, orphans>>
      BY <2>1, <2>2, HeldEach DEF IdleCli
    <2>3. CASE Spawn(cli.fetch) /\ cli' = [cli EXCEPT !.at = "serve", !.child = NewChild]
      <3>1. DOMAIN live' = DOMAIN live \cup {NewChild} /\ orphans' = orphans
        BY <2>3, LiveAfter
      <3>2. cli'.at = "serve" /\ cli'.child = NewChild
        BY <2>3 DEF CliRecords
      <3>3. ASSUME NEW k \in DOMAIN live' PROVE Held(k)'
        <4>1. k = NewChild \/ (k \in DOMAIN live /\ Held(k) /\ k /= None)
          BY <3>1, <3>3, HeldEach
        <4> QED
          BY <2>1, <3>1, <3>2, <4>1
      <3> QED
        BY <2>1, <3>2, <3>3, HeldEach
    <2> QED
      BY <1>25, <2>2, <2>3 DEF maybe_launch_llama_server
  <1>26. ASSUME CliEnds PROVE NoOrphanSidecar' /\ ChildrenInHand'
    <2>1. /\ DOMAIN live' = DOMAIN live \ {cli.child} /\ orphans' = orphans \ {cli.child} /\ cli' = IdleCli
          /\ UNCHANGED <<server, task, handle>>
      BY <1>26, LiveAfter DEF CliEnds
    <2>2. ASSUME NEW k \in DOMAIN live' PROVE Held(k)'
      <3>1. k \in DOMAIN live /\ k /= cli.child /\ Held(k)
        BY <2>1, <2>2, HeldEach
      <3> QED
        BY <2>1, <3>1
    <2> QED
      BY <2>1, <2>2, HeldEach DEF IdleCli
  <1>27. ASSUME ChildBinds PROVE NoOrphanSidecar' /\ ChildrenInHand'
    <2>1. PICK c : /\ UNCHANGED <<live, orphans>> \/ (DOMAIN live' = DOMAIN live \ {c} /\ orphans' = orphans \ {c})
                   /\ UNCHANGED <<server, task, handle, cli>>
      BY <1>27, LiveAfter DEF ChildBinds
    <2>2. ASSUME NEW k \in DOMAIN live' PROVE Held(k)'
      <3>1. k \in DOMAIN live /\ Held(k) /\ (k \in orphans => k \in orphans')
        BY <2>1, <2>2, HeldEach
      <3> QED
        BY <2>1, <3>1
    <2> QED
      BY <2>1, <2>2, HeldEach
  <1>28. ASSUME ChildEnds PROVE NoOrphanSidecar' /\ ChildrenInHand'
    <2>1. PICK c : /\ UNCHANGED <<live, orphans>> \/ (DOMAIN live' = DOMAIN live \ {c} /\ orphans' = orphans \ {c})
                   /\ UNCHANGED <<server, task, handle, cli>>
      BY <1>28, LiveAfter DEF ChildEnds
    <2>2. ASSUME NEW k \in DOMAIN live' PROVE Held(k)'
      <3>1. k \in DOMAIN live /\ Held(k) /\ (k \in orphans => k \in orphans')
        BY <2>1, <2>2, HeldEach
      <3> QED
        BY <2>1, <3>1
    <2> QED
      BY <2>1, <2>2, HeldEach
  <1>29. ASSUME UserCopies \/ UserWrites PROVE NoOrphanSidecar' /\ ChildrenInHand'
    BY <1>29, HeldEach DEF UserCopies, UserWrites
  <1>30. CASE UNCHANGED vars
    BY <1>30, HeldEach DEF vars
  <1> QED
        BY <1>1, <1>2, <1>3, <1>4, <1>5, <1>6, <1>7, <1>8, <1>9, <1>10, <1>11, <1>12, <1>13, <1>14, <1>15,
       <1>16, <1>17, <1>18, <1>19, <1>20, <1>21, <1>22, <1>23, <1>24, <1>25, <1>26, <1>27, <1>28, <1>29,
       <1>30
    DEF Next, Handler, Download, Cli, CliStarting

\* Every step keeps: a handler that is about to save has patched.
LEMMA SavesStep == ControlInv /\ [Next]_vars => SavesPatched'
  <1> SUFFICES ASSUME ControlInv, [Next]_vars PROVE SavesPatched'
    OBVIOUS
  <1>0. TypeOK /\ SavesPatched /\ ChildrenInHand
    BY DEF ControlInv
  <1> USE <1>0 DEF serverVars, fileVars, dlVars, sideVars, counters, SavesPatched
  <1>1. ASSUME cmd_start \/ ensure_slm_model \/ AdoptModel \/ StartSidecar PROVE SavesPatched'
    BY <1>1 DEF cmd_start, ensure_slm_model, AdoptModel, StartSidecar, ChildrenInHand
  <1>2. ASSUME ServerExits \/ ServerKilled PROVE SavesPatched'
    BY <1>2 DEF ServerExits, ServerKilled, IdleTask
  <1>3. ASSUME NEW t \in Tasks, patch(t) PROVE SavesPatched'
    <2>1. CASE Accepts(mem, task[t].patch)
      BY <1>3, <2>1 DEF patch
    <2>2. CASE ~Accepts(mem, task[t].patch)
      <3>1. UNCHANGED patched /\ task' = [task EXCEPT ![t] = IdleTask]
        BY <1>3, <2>2 DEF patch, Ends
      <3> QED
        BY <3>1 DEF IdleTask, TypeOK
    <2> QED
      BY <2>1, <2>2
  <1>4. ASSUME NEW t \in Tasks, PatchConfig(t) \/ PostDownload(t) \/ start_background_download(t) \/ cancel(t)
               \/ deactivate(t) \/ activate(t) \/ ActivateStarts(t) \/ ActivateStores(t) \/ DeleteModel(t)
               \/ RemoveFile(t) \/ save_to_disk(t)
        PROVE SavesPatched'
    <2>1. UNCHANGED patched
      BY <1>4 DEF PatchConfig, PostDownload, start_background_download, cancel, deactivate, activate,
             ActivateStarts, ActivateStores, DeleteModel, RemoveFile, save_to_disk
    <2>2. task' = task \/ \E a \in {"patch", "start", "begin", "remove", "idle", "store"} : \E c : TaskGoes(t, a, c)
      BY <1>4, HandlerGoes DEF cancel
    <2> QED
      BY <2>1, <2>2 DEF TaskGoes
  <1>5. ASSUME NEW d \in Downloads, DownloadSucceeds(d) \/ DownloadFails(d) \/ DownloadCleansUp(d)
        PROVE SavesPatched'
    BY <1>5 DEF DownloadSucceeds, DownloadFails, DownloadCleansUp
  <1>6. ASSUME CliStarting PROVE SavesPatched'
    BY <1>6, CliBegins
  <1>7. ASSUME CliFetches \/ CliWrites \/ maybe_launch_llama_server \/ CliEnds \/ ChildBinds \/ ChildEnds
               \/ UserCopies \/ UserWrites
        PROVE SavesPatched'
    <2>1. UNCHANGED <<task, patched>>
      BY <1>7 DEF CliFetches, CliWrites, maybe_launch_llama_server, CliEnds, ChildBinds, ChildEnds, UserCopies, UserWrites
    <2> QED
      BY <2>1
  <1>8. CASE UNCHANGED vars
    BY <1>8 DEF vars
  <1> QED
    BY <1>1, <1>2, <1>3, <1>4, <1>5, <1>6, <1>7, <1>8 DEF Next, Handler, Download, Cli, CliStarting

\* The command's patch has the level that the command was given.
LEMMA CliCarries ==
  ASSUME TypeOK, CliStarting, LevelCarried
  PROVE  cli'.at \in {"fetch", "write"} /\ cli'.cmd \in Levels =>
           {"mode", "regex", "ner", "slm"} \subseteq DOMAIN cli'.patch /\ HasLevel(cli'.patch, LevelTable[cli'.cmd])
  <1> DEFINE Carries(p, l) == {"mode", "regex", "ner", "slm"} \subseteq DOMAIN p /\ HasLevel(p, LevelTable[l])
  <1>1. ASSUME NEW l \in Levels PROVE Carries(protection_level_to_patch(l), l)
    BY LevelKeys DEF protection_level_to_patch, HasLevel
  <1>2. ASSUME NEW l \in Levels, NEW m PROVE Carries(WithModel(protection_level_to_patch(l), m), l)
    BY <1>1 DEF WithModel, HasLevel
  <1>3. ASSUME NEW at, NEW p, NEW m, NEW w, Runs(at, p, m, w) PROVE cli'.cmd = w /\ cli'.patch = p
    BY <1>3 DEF Runs
  <1>4. "set" \notin Levels /\ "wizard" \notin Levels
    BY LevelKeys
  <1>5. ASSUME apply_protection_level PROVE cli'.cmd \in Levels => Carries(cli'.patch, cli'.cmd)
    BY <1>1, <1>2, <1>3, <1>5 DEF apply_protection_level
  <1>6. ASSUME handle_pii_level PROVE UNCHANGED cli \/ (cli'.cmd \in Levels => Carries(cli'.patch, cli'.cmd))
    BY <1>1, <1>2, <1>3, <1>6 DEF handle_pii_level
  <1>7. ASSUME set_config \/ run_wizard PROVE cli'.cmd \notin Levels
    BY <1>3, <1>4, <1>7 DEF set_config, run_wizard
  <1> QED
    BY <1>5, <1>6, <1>7 DEF CliStarting, LevelCarried

\* Every step carries the level on: a command's patch into the file, the file into a server's memory.
LEMMA LevelStep == ControlInv /\ [Next]_vars => LevelCarried'
  <1> SUFFICES ASSUME ControlInv, [Next]_vars PROVE LevelCarried'
    OBVIOUS
  <1>0. TypeOK /\ LevelCarried /\ "program" \notin Levels /\ "user" \notin Levels
    BY LevelKeys DEF ControlInv
  <1> USE <1>0 DEF serverVars, fileVars, dlVars, sideVars, counters
  <1>1. ASSUME cmd_start PROVE LevelCarried'
    <2>1. UNCHANGED <<cli, disk, author>> /\ origin'.by = author /\ origin'.ner = (Ner \in named)
          /\ mem' = load(disk, Ner \in named)
      BY <1>1 DEF cmd_start
    <2>2. ASSUME author \in Levels
          PROVE HasLevel(mem', disable_ner_if_model_missing(LevelTable[author], Ner \in named))
      <3>1. disk \in Configs /\ disk /= None /\ HasLevel(disk, LevelTable[author])
        BY <2>2 DEF TypeOK, LevelCarried
      <3>2. LevelTable[author] \in [mode : Modes, regex : BOOLEAN, ner : BOOLEAN, slm : BOOLEAN]
        BY <2>2, LevelKeys
      <3> QED
        BY <2>1, <3>1, <3>2 DEF load, disable_ner_if_model_missing, HasLevel, Configs
    <2> QED
      BY <2>1, <2>2 DEF LevelCarried
  <1>2. ASSUME ensure_slm_model \/ StartSidecar PROVE LevelCarried'
    BY <1>2 DEF ensure_slm_model, StartSidecar, LevelCarried
  <1>3. ASSUME AdoptModel PROVE LevelCarried'
    BY <1>3 DEF AdoptModel, LevelCarried
  <1>4. ASSUME ServerExits \/ ServerKilled PROVE LevelCarried'
    BY <1>4 DEF ServerExits, ServerKilled, LevelCarried
  <1>5. ASSUME NEW t \in Tasks, patch(t) \/ save_to_disk(t) PROVE LevelCarried'
    BY <1>5 DEF patch, save_to_disk, LevelCarried
  <1>6. ASSUME NEW t \in Tasks, PatchConfig(t) \/ PostDownload(t) \/ start_background_download(t) \/ cancel(t)
               \/ deactivate(t) \/ activate(t) \/ ActivateStarts(t) \/ ActivateStores(t) \/ DeleteModel(t)
               \/ RemoveFile(t)
        PROVE LevelCarried'
    BY <1>6 DEF PatchConfig, PostDownload, start_background_download, cancel, deactivate, activate,
           ActivateStarts, ActivateStores, DeleteModel, RemoveFile, LevelCarried
  <1>7. ASSUME NEW d \in Downloads, DownloadSucceeds(d) \/ DownloadFails(d) \/ DownloadCleansUp(d)
        PROVE LevelCarried'
    BY <1>7 DEF DownloadSucceeds, DownloadFails, DownloadCleansUp, LevelCarried
  <1>8. ASSUME CliStarting PROVE LevelCarried'
    BY <1>8, CliBegins, CliCarries DEF LevelCarried
  <1>9. ASSUME CliWrites PROVE LevelCarried'
    <2>1. cli'.at \notin {"fetch", "write"} /\ UNCHANGED serverVars
      BY <1>9 DEF CliWrites, IdleCli, TypeOK, CliRecords
    <2>2. ASSUME author' \in Levels PROVE disk' /= None /\ HasLevel(disk', LevelTable[author'])
      <3>1. CASE UNCHANGED fileVars
        BY <2>2, <3>1 DEF LevelCarried
      <3>2. CASE Accepts(cli.cfg, cli.patch) /\ disk' = json_deep_merge(cli.cfg, cli.patch) /\ author' = cli.cmd
                 /\ cli.cmd \in Levels
        <4>1. cli.cfg \in Configs /\ disk' \in Configs
          BY <3>2 DEF Accepts, TypeOK, CliRecords
        <4>2. {"mode", "regex", "ner", "slm"} \subseteq DOMAIN cli.patch /\ HasLevel(cli.patch, LevelTable[cli.cmd])
          BY <1>9, <3>2 DEF CliWrites, LevelCarried
        <4>3. HasLevel(disk', cli.patch)
          BY <3>2, <4>1, <4>2 DEF json_deep_merge, HasLevel, Configs
        <4> QED
          BY <3>2, <4>1, <4>2, <4>3, SettingsAssumption DEF HasLevel
      <3> QED
        BY <1>9, <2>2, <3>1, <3>2 DEF CliWrites
    <2> QED
      BY <2>1, <2>2 DEF LevelCarried
  <1>10. ASSUME CliFetches \/ maybe_launch_llama_server \/ CliEnds PROVE LevelCarried'
    <2>1. UNCHANGED <<serverVars, fileVars>>
      BY <1>10 DEF CliFetches, maybe_launch_llama_server, CliEnds
    <2>2. \/ cli'.at \notin {"fetch", "write"}
          \/ cli.at = "fetch" /\ cli'.cmd = cli.cmd /\ cli'.patch = cli.patch
      <3>1. CASE CliFetches
        BY <3>1 DEF CliFetches, IdleCli, TypeOK, CliRecords
      <3>2. CASE maybe_launch_llama_server
        <4>1. cli.at = "launch" /\ (cli' = IdleCli \/ cli' = [cli EXCEPT !.at = "serve", !.child = NewChild])
          BY <3>2 DEF maybe_launch_llama_server
        <4>2. CASE cli' = IdleCli
          BY <4>2 DEF IdleCli
        <4>3. CASE cli' = [cli EXCEPT !.at = "serve", !.child = NewChild]
          <5>1. cli'.at = "serve"
            BY <4>3 DEF TypeOK, CliRecords
          <5> QED
            BY <5>1
        <4> QED
          BY <4>1, <4>2, <4>3
      <3>3. CASE CliEnds
        BY <3>3 DEF CliEnds, IdleCli
      <3> QED
        BY <1>10, <3>1, <3>2, <3>3
    <2> QED
      BY <2>1, <2>2 DEF LevelCarried
  <1>11. ASSUME ChildBinds \/ ChildEnds \/ UserCopies \/ UserWrites PROVE LevelCarried'
    BY <1>11 DEF ChildBinds, ChildEnds, UserCopies, UserWrites, LevelCarried
  <1>12. CASE UNCHANGED vars
    BY <1>12 DEF vars, LevelCarried
  <1> QED
    BY <1>1, <1>2, <1>3, <1>4, <1>5, <1>6, <1>7, <1>8, <1>9, <1>10, <1>11, <1>12
    DEF Next, Handler, Download, Cli, CliStarting

\* The inductive invariant holds in every reachable state.
THEOREM ControlInvariant == Spec => []ControlInv
  <1>1. Init => ControlInv
    <2> SUFFICES ASSUME Init PROVE ControlInv
      OBVIOUS
    <2> USE SettingsAssumption, ControlAssumption DEF Init
    <2>1. disk \in Configs \cup {None} /\ author \in Authors /\ author \notin Levels
          /\ (author /= "user" => disk = None)
      BY AuthorsTyped, LevelKeys
    <2>2. mem \in Configs /\ snap \in Configs /\ validate_pii_tiers(mem) /\ validate_pii_tiers(snap)
      BY DefaultValid
    <2>3. task \in [Tasks -> TaskRecords] /\ cli \in CliRecords
      BY IdleTyped
    <2>4. DOMAIN live = {}
      OBVIOUS
    <2>5. TypeOK
      BY <2>1, <2>2, <2>3, <2>4, AuthorsTyped DEF TypeOK
    <2>6. TiersValid
      BY <2>1, <2>2 DEF TiersValid
    <2>7. NoOrphanSidecar /\ ChildrenInHand
      BY <2>4 DEF NoOrphanSidecar, ChildrenInHand, IdleTask, IdleCli
    <2>8. SendersLive /\ BegunHasModel /\ FileFollows
      BY DEF SendersLive, BegunHasModel, FileFollows, IdleTask
    <2>9. LevelCarried /\ SavesPatched
      BY <2>1 DEF LevelCarried, SavesPatched, IdleTask, IdleCli
    <2> QED
      BY <2>5, <2>6, <2>7, <2>8, <2>9 DEF ControlInv
  <1>2. ControlInv /\ [Next]_vars => ControlInv'
    BY TypeStep, TiersStep, SendersStep, FileStep, ChildrenStep, LevelStep, SavesStep DEF ControlInv
  <1> QED
    BY <1>1, <1>2, PTL DEF Spec

\* Tier 2 without Tier 1 comes from a file that a user has written, and ends with an accepted patch.
THEOREM TiersValidHolds == Spec => []TiersValid
  <1>1. ControlInv => TiersValid
    BY DEF ControlInv
  <1> QED
    BY <1>1, ControlInvariant, PTL

\* Every live llama-server has somebody who will kill it, those of a killed server excepted.
THEOREM NoOrphanSidecarHolds == Spec => []NoOrphanSidecar
  <1>1. ControlInv => NoOrphanSidecar
    BY DEF ControlInv
  <1> QED
    BY <1>1, ControlInvariant, PTL

\* A model that is shown as being downloaded has a task that downloads it.
THEOREM TrackedIsRunningHolds == Spec => []TrackedIsRunning
  <1>1. ControlInv => TrackedIsRunning
    BY DEF ControlInv, SendersLive, TrackedIsRunning, get_api_entries
  <1> QED
    BY <1>1, ControlInvariant, PTL

\* Once every accepted patch is saved, config.toml is the configuration in memory.
THEOREM DiskIsMemoryHolds == Spec => []DiskIsMemory
  <1>1. ControlInv => DiskIsMemory
    BY DEF ControlInv, FileFollows, DiskIsMemory
  <1> QED
    BY <1>1, ControlInvariant, PTL

\* After the next start the tray marks the level that a config command has set, or what is left of it.
THEOREM LevelShownHolds == Spec => []LevelShown
  <1>1. ASSUME NEW l \in Levels, NEW ner \in BOOLEAN, NEW c \in Configs,
               HasLevel(c, disable_ner_if_model_missing(LevelTable[l], ner))
        PROVE  pii_menu_states(c).checked = Shown(l, ner)
    <2>1. l \in {"off", "detect", "one", "two", "three", "intelligent"}
      BY DEF Levels, LevelTable
    <2> DEFINE t == LevelTable[l]
               n == LevelTable[l].ner /\ (ner \/ LevelTable[l].mode /= "replace")
    <2>2. c.mode = t.mode /\ c.regex = t.regex /\ c.ner = n /\ c.slm = t.slm
      BY <1>1, LevelKeys DEF HasLevel, disable_ner_if_model_missing
    <2>3. derive_pii_level(c) = Shown(l, ner)
      <3>1. CASE l = "off"
        BY <2>2, <3>1 DEF derive_pii_level, Shown, LevelTable, Level
      <3>2. CASE l = "detect"
        BY <2>2, <3>2 DEF derive_pii_level, Shown, LevelTable, Level
      <3>3. CASE l = "one"
        BY <2>2, <3>3 DEF derive_pii_level, Shown, LevelTable, Level
      <3>4. CASE l = "two"
        BY <2>2, <3>4 DEF derive_pii_level, Shown, LevelTable, Level
      <3>5. CASE l = "three"
        BY <2>2, <3>5 DEF derive_pii_level, Shown, LevelTable, Level
      <3>6. CASE l = "intelligent"
        BY <2>2, <3>6 DEF derive_pii_level, Shown, LevelTable, Level
      <3> QED
        BY <2>1, <3>1, <3>2, <3>3, <3>4, <3>5, <3>6
    <2> QED
      BY <2>3 DEF pii_menu_states
  <1>2. ControlInv => LevelShown
    BY <1>1 DEF ControlInv, TypeOK, LevelShown, LevelCarried
  <1> QED
    BY <1>2, ControlInvariant, PTL

=============================================================================
