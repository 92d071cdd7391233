------------------------------ MODULE Control ------------------------------
(***************************************************************************)
(* Who changes what the proxy runs with: the handlers of the dashboard     *)
(* (src/src/dashboard/mod.rs), which run concurrently on one ConfigManager,*)
(* one DownloadTracker and one SidecarHandle; the start of the server      *)
(* (ensure_slm_model in src/src/main.rs); the background downloads         *)
(* (src/src/models/mod.rs); the llama-server children (SidecarProcess in   *)
(* src/src/pii/tier3.rs); and `privacyclaw config` (src/src/cmd_config.rs),*)
(* a process of its own that the user or the tray starts.                  *)
(*                                                                         *)
(* A handler's step ends where the code gives up a lock.                   *)
(***************************************************************************)
EXTENDS Settings

CONSTANTS
  Tasks,        \* handlers that run at once
  Downloads,    \* background download tasks
  Children,     \* llama-server processes
  Patches,      \* bodies of PATCH /api/config, and assignments of `config set`
  CliLevels,    \* levels given on the command line or clicked in the tray
  CliChoices,   \* modes and tiers chosen in the wizard
  UserFiles,    \* what a user writes into config.toml by hand
  Ner,          \* the file or directory of pii.ner.model_path
  MaxRequests,  \* bound on requests to the dashboard
  MaxCommands,  \* bound on commands, clicks, and files copied or written by hand
  MaxStops      \* bound on exits and deaths of the server

ASSUME ControlAssumption ==
  /\ MaxRequests \in Nat /\ MaxCommands \in Nat /\ MaxStops \in Nat
  /\ CliLevels \subseteq Levels \cup {"detect-only"} /\ \A p \in CliChoices : p.ner => p.regex
  /\ UserFiles \subseteq Configs /\ Ner \notin Models
  /\ None \notin Tasks \cup Downloads \cup Children

VARIABLES
  server,    \* the server process: "off", "ensure", "adopt", "spawn" or "on"
  mem,       \* ConfigManager::inner of the server
  snap,      \* the Config that the running proxy was built from
  disk,      \* config.toml, None if it is absent
  patched,   \* a patch has been accepted since the server loaded the file
  origin,    \* what it loaded: [by, ner], the file's author and whether Ner was there
  author,    \* who wrote the file last: "user", "program", or the level that a command has set
  foreign,   \* another process, or the user, has written the file since the server loaded it
  task,      \* handler -> [at, patch, model, child]
  tracker,   \* DownloadTracker: model -> the download whose sender is registered, or None
  dl,        \* download -> [at, model]: "none", "running" or "failed"
  named,     \* models with a file {id}.gguf or {id}.onnx, and Ner if it exists
  handle,    \* SidecarHandle: the child it owns, or None
  live,      \* live children -> the model each was started with
  port,      \* the child that listens on 16442, or None
  orphans,   \* children of a server that died without Drop
  cli,       \* the config command: [at, cfg, patch, fetch, cmd, child]
  requests, commands, stops

counters   == <<requests, commands, stops>>
serverVars == <<server, mem, snap, patched, origin>>
fileVars   == <<disk, author, foreign>>
dlVars     == <<tracker, dl, named>>
sideVars   == <<handle, live, port, orphans>>
vars == <<serverVars, fileVars, task, dlVars, sideVars, cli, counters>>

IdleTask == [at |-> "idle", patch |-> << >>, model |-> None, child |-> None]
IdleCli  == [at |-> "idle", cfg |-> DefaultConfig, patch |-> << >>, fetch |-> None,
             cmd |-> "set", child |-> None]

WithModel(p, m) == [k \in DOMAIN p \cup {"model"} |-> IF k = "model" THEN m ELSE p[k]]

\* The patches that handlers and config commands apply.
LevelPatches   == {protection_level_to_patch(l) : l \in Levels} \cup CliChoices
HandlerPatches == Patches \cup {<< >>, [model |-> None, slm |-> FALSE]} \cup {[model |-> m] : m \in Models}
CliPatches     == Patches \cup {<< >>} \cup LevelPatches
                  \cup {WithModel(p, m) : p \in LevelPatches, m \in Models}

TaskRecords == [at : {"idle", "patch", "save", "start", "begin", "store", "remove"},
                patch : HandlerPatches, model : Models \cup {None}, child : Children \cup {None}]
CliRecords  == [at : {"idle", "fetch", "write", "launch", "serve"}, cfg : Configs, patch : CliPatches,
                fetch : Models \cup {None}, cmd : Levels \cup {"set", "wizard"},
                child : Children \cup {None}]

Authors == Levels \cup {"user", "program"}

TypeOK ==
  /\ server \in {"off", "ensure", "adopt", "spawn", "on"}
  /\ mem \in Configs /\ snap \in Configs /\ disk \in Configs \cup {None}
  /\ patched \in BOOLEAN /\ foreign \in BOOLEAN
  /\ author \in Authors /\ origin \in [by : Authors, ner : BOOLEAN]
  /\ task \in [Tasks -> TaskRecords]
  /\ tracker \in [Models -> Downloads \cup {None}]
  /\ dl \in [Downloads -> [at : {"none", "running", "failed"}, model : Models \cup {None}]]
  /\ named \subseteq Models \cup {Ner}
  /\ handle \in Children \cup {None} /\ port \in Children \cup {None}
  /\ DOMAIN live \subseteq Children /\ orphans \subseteq DOMAIN live
  /\ cli \in CliRecords

\* Nothing has been loaded.
NotLoaded == [by |-> "program", ner |-> FALSE]

\* The file may be absent, of an earlier run or written by hand; a model may have been copied in.
Init ==
  /\ server = "off" /\ mem = DefaultConfig /\ snap = DefaultConfig
  /\ \/ disk = None /\ author = "program"
     \/ disk \in UserFiles /\ author = "user"
  /\ patched = FALSE /\ origin = NotLoaded /\ foreign = FALSE /\ task = [t \in Tasks |-> IdleTask]
  /\ tracker = [m \in Models |-> None] /\ dl = [d \in Downloads |-> [at |-> "none", model |-> None]]
  /\ named \in {{}, Models \cup {Ner}}
  /\ handle = None /\ live = << >> /\ port = None /\ orphans = {}
  /\ cli = IdleCli /\ requests = 0 /\ commands = 0 /\ stops = 0

Request == requests < MaxRequests /\ requests' = requests + 1
           /\ UNCHANGED <<commands, stops>>
Command == commands < MaxCommands /\ commands' = commands + 1 /\ UNCHANGED <<requests, stops>>

-----------------------------------------------------------------------------
(* llama-server (external) and SidecarProcess *)

\* A child that nobody refers to any more.
FreeChildren ==
  Children \ (DOMAIN live \cup {handle, cli.child} \cup {task[t].child : t \in Tasks})

Without(S) == [c \in DOMAIN live \ S |-> live[c]]

\* Drop for SidecarProcess: kill and wait, also of a child that has ended by itself.
Drop(c) == /\ live' = Without({c}) /\ orphans' = orphans \ {c}
           /\ port' = IF port = c THEN None ELSE port

\* The operating system names processes; which free name a new one gets does not matter.
NewChild == CHOOSE c \in FreeChildren : TRUE

\* SidecarProcess::start: the probe does not tell whose answer it gets, and start returns anyway.
Spawn(m) == /\ FreeChildren /= {}
            /\ live' = [x \in DOMAIN live \cup {NewChild} |-> IF x = NewChild THEN m ELSE live[x]]
            /\ UNCHANGED <<port, orphans>>

\* A child takes the port, or finds it taken and ends.
ChildBinds ==
  \E c \in DOMAIN live :
    /\ port /= c
    /\ \/ port = None /\ port' = c /\ UNCHANGED <<live, orphans>>
       \/ port /= None /\ live' = Without({c}) /\ orphans' = orphans \ {c} /\ UNCHANGED port
    /\ UNCHANGED <<serverVars, fileVars, task, dlVars, handle, cli, counters>>

\* llama-server ends by itself: no such model file, out of memory.
ChildEnds ==
  \E c \in DOMAIN live :
    /\ Drop(c)
    /\ UNCHANGED <<serverVars, fileVars, task, dlVars, handle, cli, counters>>

-----------------------------------------------------------------------------
(* The model files *)

\* Every download writes to a file named after the model's URL, where nobody looks: it changes
\* nothing that a handler tells apart, and only its outcome is modelled.
is_downloaded(m) == m \in named

\* What GET /api/models says of a model.
get_api_entries ==
  [m \in Models |-> [downloaded |-> is_downloaded(m), active |-> mem.model = m,
                     progress |-> ~is_downloaded(m) /\ tracker[m] /= None]]

\* A user copies a file into models_dir under the name that is looked for, or the Tier 2 model.
UserCopies ==
  \E m \in Models \cup {Ner} :
    /\ Command /\ m \notin named /\ named' = named \cup {m}
    /\ UNCHANGED <<serverVars, fileVars, task, tracker, dl, sideVars, cli>>

\* A user writes config.toml, as docs/PII-SETUP.md tells: no program looks at it before a load.
UserWrites ==
  \E f \in UserFiles :
    /\ Command /\ disk' = f /\ author' = "user" /\ foreign' = (server /= "off")
    /\ UNCHANGED <<serverVars, task, dlVars, sideVars, cli>>

-----------------------------------------------------------------------------
(* The server's start *)

cmd_start ==
  /\ server = "off" /\ mem' = load(disk, Ner \in named) /\ snap' = mem'
  /\ origin' = [by |-> author, ner |-> Ner \in named]
  /\ patched' = FALSE /\ foreign' = FALSE
  /\ server' = IF mem'.slm /\ ~(mem'.model /= None /\ is_downloaded(mem'.model))
               THEN "ensure" ELSE "on"
  /\ UNCHANGED <<disk, author, task, dlVars, sideVars, cli, counters>>

\* The download of ensure_slm_model; without it Tier 3 is off, in the proxy's copy only.
ensure_slm_model ==
  /\ server = "ensure"
  /\ \/ server' = "adopt" /\ snap' = [snap EXCEPT !.model = AutoModel]
     \/ server' = "on" /\ snap' = [snap EXCEPT !.slm = FALSE]
  /\ UNCHANGED <<mem, patched, origin, fileVars, task, dlVars, sideVars, cli, counters>>

\* The model is patched in and saved, unless the tiers of the file are refused; nobody else has the
\* ConfigManager yet.
AdoptModel ==
  /\ server = "adopt" /\ server' = "spawn"
  /\ LET p == [model |-> AutoModel]
     IN IF Accepts(mem, p)
        THEN /\ mem' = json_deep_merge(mem, p) /\ patched' = TRUE
             /\ disk' = mem' /\ author' = "program"
        ELSE UNCHANGED <<mem, patched, disk, author>>
  /\ UNCHANGED <<snap, origin, foreign, task, dlVars, sideVars, cli, counters>>

StartSidecar ==
  /\ server = "spawn" /\ server' = "on"
  /\ \/ Spawn(AutoModel) /\ handle' = NewChild /\ UNCHANGED snap
     \/ snap' = [snap EXCEPT !.slm = FALSE] /\ UNCHANGED sideVars
  /\ UNCHANGED <<mem, patched, origin, fileVars, task, dlVars, cli, counters>>

\* What the process knew ends with it.
ForgetConfig == /\ mem' = DefaultConfig /\ snap' = DefaultConfig /\ patched' = FALSE
                /\ origin' = NotLoaded /\ foreign' = FALSE

\* main returns: the runtime waits for the handler that is inside of start, drops every task and
\* with them the handle.
ServerExits ==
  /\ server = "on" /\ server' = "off" /\ stops < MaxStops /\ stops' = stops + 1
  /\ \A t \in Tasks : task[t].at \notin {"start", "store"}
  /\ handle' = None
  /\ IF handle = None THEN UNCHANGED <<live, port, orphans>> ELSE Drop(handle)
  /\ task' = [t \in Tasks |-> IdleTask] /\ tracker' = [m \in Models |-> None]
  /\ dl' = [d \in Downloads |-> [at |-> "none", model |-> None]]
  /\ ForgetConfig /\ UNCHANGED <<disk, author, named, cli, requests, commands>>

\* SIGTERM of `privacyclaw stop`, or a crash: no destructor runs.
ServerKilled ==
  /\ server /= "off" /\ server' = "off" /\ stops < MaxStops /\ stops' = stops + 1
  /\ handle' = None /\ orphans' = DOMAIN live \ {cli.child} /\ UNCHANGED <<live, port>>
  /\ task' = [t \in Tasks |-> IdleTask] /\ tracker' = [m \in Models |-> None]
  /\ dl' = [d \in Downloads |-> [at |-> "none", model |-> None]]
  /\ ForgetConfig /\ UNCHANGED <<disk, author, named, cli, requests, commands>>

-----------------------------------------------------------------------------
(* The dashboard's handlers *)

\* dispatch and handle_http: a request meets a free handler of a running server.
Arrives(t) == Request /\ server = "on" /\ task[t].at = "idle"
Goes(t, at) == task' = [task EXCEPT ![t].at = at]
Ends(t) == task' = [task EXCEPT ![t] = IdleTask]

PatchConfig(t) ==
  \E p \in Patches :
    /\ Arrives(t) /\ task' = [task EXCEPT ![t].at = "patch", ![t].patch = p]
    /\ UNCHANGED <<serverVars, fileVars, dlVars, sideVars, cli>>

\* ConfigManager::patch, under the write lock.
patch(t) ==
  /\ task[t].at = "patch"
  /\ \/ /\ Accepts(mem, task[t].patch) /\ mem' = json_deep_merge(mem, task[t].patch)
        /\ patched' = TRUE /\ Goes(t, "save")
     \/ ~Accepts(mem, task[t].patch) /\ Ends(t) /\ UNCHANGED <<mem, patched>>
  /\ UNCHANGED <<server, snap, origin, fileVars, dlVars, sideVars, cli, counters>>

\* Mutant: only the configuration that needs a restart is written.
save_for_restart(t) ==
  /\ task[t].at = "save" /\ Ends(t)
  /\ disk' = (IF requires_restart(snap, mem) THEN mem ELSE disk) /\ author' = "program"
  /\ UNCHANGED <<serverVars, foreign, dlVars, sideVars, cli, counters>>

\* ConfigManager::save_to_disk: the file is written under the read lock.
save_to_disk(t) ==
  /\ task[t].at = "save" /\ Ends(t) /\ disk' = mem /\ author' = "program"
  /\ UNCHANGED <<serverVars, foreign, dlVars, sideVars, cli, counters>>

PostDownload(t) ==
  \E m \in Models :
    /\ Arrives(t) /\ ~is_downloaded(m) /\ tracker[m] = None
    /\ task' = [task EXCEPT ![t].at = "begin", ![t].model = m]
    /\ UNCHANGED <<serverVars, fileVars, dlVars, sideVars, cli>>

\* start_background_download: register drops the sender that another handler has registered since
\* the check, which cancels that handler's download.
start_background_download(t) ==
  LET free == {d \in Downloads : dl[d].at = "none"} IN
  LET d == CHOOSE d \in free : TRUE IN
    /\ task[t].at = "begin" /\ free /= {} /\ Ends(t)
    /\ dl' = [dl EXCEPT ![d] = [at |-> "running", model |-> task[t].model]]
    /\ tracker' = [tracker EXCEPT ![task[t].model] = d]
    /\ UNCHANGED <<serverVars, fileVars, named, sideVars, cli, counters>>

\* DELETE /api/models/:id/download; the dropped sender is noticed by the task later.
cancel(t) ==
  \E m \in Models :
    /\ Arrives(t) /\ tracker' = [tracker EXCEPT ![m] = None]
    /\ UNCHANGED <<serverVars, fileVars, task, dl, named, sideVars, cli>>

deactivate(t) ==
  /\ Arrives(t) /\ handle' = None
  /\ IF handle = None THEN UNCHANGED <<live, port, orphans>> ELSE Drop(handle)
  /\ task' = [task EXCEPT ![t].at = "patch", ![t].patch = [model |-> None, slm |-> FALSE]]
  /\ UNCHANGED <<serverVars, fileVars, dlVars, cli>>

\* The old sidecar is killed before the new one is started.
activate(t) ==
  \E m \in Models :
    /\ Arrives(t) /\ is_downloaded(m) /\ handle' = None
    /\ IF handle = None THEN UNCHANGED <<live, port, orphans>> ELSE Drop(handle)
    /\ task' = [task EXCEPT ![t] = [at |-> "start", patch |-> [model |-> m], model |-> m,
                                    child |-> None]]
    /\ UNCHANGED <<serverVars, fileVars, dlVars, cli>>

\* SidecarProcess::start, outside of the handle's lock; without the binary the model is set anyway.
ActivateStarts(t) ==
  /\ task[t].at = "start" /\ UNCHANGED handle
  /\ \/ Spawn(task[t].model) /\ task' = [task EXCEPT ![t].at = "store", ![t].child = NewChild]
     \/ Goes(t, "patch") /\ UNCHANGED <<live, port, orphans>>
  /\ UNCHANGED <<serverVars, fileVars, dlVars, cli, counters>>

\* Mutant: the handle takes the new child and forgets the one it has.
store_without_drop(t) ==
  /\ task[t].at = "store" /\ handle' = task[t].child
  /\ task' = [task EXCEPT ![t].at = "patch", ![t].child = None]
  /\ UNCHANGED <<serverVars, fileVars, dlVars, live, port, orphans, cli, counters>>

\* The child of an activation that was faster is dropped here.
ActivateStores(t) ==
  /\ task[t].at = "store" /\ handle' = task[t].child
  /\ IF handle = None THEN UNCHANGED <<live, port, orphans>> ELSE Drop(handle)
  /\ task' = [task EXCEPT ![t].at = "patch", ![t].child = None]
  /\ UNCHANGED <<serverVars, fileVars, dlVars, cli, counters>>

\* DELETE /api/models/:id: refused for the model that is active at the check.
DeleteModel(t) ==
  \E m \in Models :
    /\ Arrives(t) /\ mem.model /= m /\ task' = [task EXCEPT ![t].at = "remove", ![t].model = m]
    /\ UNCHANGED <<serverVars, fileVars, dlVars, sideVars, cli>>

RemoveFile(t) ==
  /\ task[t].at = "remove" /\ named' = named \ {task[t].model} /\ Ends(t)
  /\ UNCHANGED <<serverVars, fileVars, tracker, dl, sideVars, cli, counters>>

-----------------------------------------------------------------------------
(* The background download task *)

\* DownloadTracker::complete: whichever sender is registered for the model goes.
complete(m) == tracker' = [tracker EXCEPT ![m] = None]

DownloadSucceeds(d) ==
  /\ dl[d].at = "running" /\ complete(dl[d].model)
  /\ dl' = [dl EXCEPT ![d] = [at |-> "none", model |-> None]]
  /\ UNCHANGED <<serverVars, fileVars, task, named, sideVars, cli, counters>>

\* Mutant: the registration is removed with a success only.
fails_registered(d) ==
  /\ dl[d].at = "running" /\ dl' = [dl EXCEPT ![d].at = "failed"]
  /\ UNCHANGED <<serverVars, fileVars, task, tracker, named, sideVars, cli, counters>>

\* The server or the network fails, the checksum differs, or the sender has been dropped.
DownloadFails(d) ==
  /\ dl[d].at = "running" /\ dl' = [dl EXCEPT ![d].at = "failed"] /\ complete(dl[d].model)
  /\ UNCHANGED <<serverVars, fileVars, task, named, sideVars, cli, counters>>

\* "Clean up any partial file": {id}.gguf and {id}.onnx, which the download has not written.
DownloadCleansUp(d) ==
  /\ dl[d].at = "failed" /\ named' = named \ {dl[d].model}
  /\ dl' = [dl EXCEPT ![d] = [at |-> "none", model |-> None]]
  /\ UNCHANGED <<serverVars, fileVars, task, tracker, sideVars, cli, counters>>

-----------------------------------------------------------------------------
(* privacyclaw config, a process with a ConfigManager of its own *)

Runs(at, p, m, cmd) ==
  cli' = [at |-> at, cfg |-> load(disk, Ner \in named), patch |-> p, fetch |-> m, cmd |-> cmd,
          child |-> None]

CliStarts == Command /\ cli.at = "idle"
             /\ UNCHANGED <<serverVars, fileVars, task, dlVars, sideVars>>

apply_protection_level ==
  \E l \in CliLevels \cap Levels, m \in Models :
    /\ CliStarts
    /\ LET p == protection_level_to_patch(l)
       IN IF needs_model(l) THEN Runs("fetch", WithModel(p, m), m, l)
                            ELSE Runs("write", p, None, l)

\* A click on an enabled item of the tray's submenu; an unknown level ends in an error.
handle_pii_level ==
  \E l \in CliLevels \cap pii_level_for_id :
    /\ CliStarts /\ server = "on" /\ l \in pii_menu_states(mem).enabled \cup {"detect-only"}
    /\ \/ l \notin Levels /\ UNCHANGED cli
       \/ /\ l \in Levels
          /\ LET p == protection_level_to_patch(l)
             IN IF needs_model(l) THEN Runs("fetch", WithModel(p, AutoModel), AutoModel, l)
                                  ELSE Runs("write", p, None, l)

\* `config set KEY=VALUE`: dot_path_to_json makes a patch of one key.
set_config ==
  \E p \in Patches : CliStarts /\ Cardinality(DOMAIN p) = 1 /\ Runs("write", p, None, "set")

\* The wizard offers Tier 2 only with Tier 1, and a model only with Tier 3.
run_wizard ==
  \E p \in CliChoices, m \in Models :
    /\ CliStarts
    /\ IF p.slm THEN Runs("fetch", WithModel(p, m), m, "wizard")
                ELSE Runs("write", p, None, "wizard")

\* A model that is not there is downloaded, which the wizard's user may decline; a failed download
\* ends the command.
CliFetches ==
  /\ cli.at = "fetch"
  /\ \/ cli' = [cli EXCEPT !.at = "write"]
     \/ ~is_downloaded(cli.fetch) /\ cli' = IdleCli
  /\ UNCHANGED <<serverVars, fileVars, task, dlVars, sideVars, counters>>

\* Patch and save of what the command loaded when it began.
CliWrites ==
  /\ cli.at = "write"
  /\ IF Accepts(cli.cfg, cli.patch)
     THEN /\ disk' = json_deep_merge(cli.cfg, cli.patch) /\ foreign' = (server /= "off")
          /\ author' = IF cli.cmd \in Levels THEN cli.cmd ELSE "program"
          /\ cli' = IF cli.cmd = "wizard" /\ cli.patch.slm THEN [cli EXCEPT !.at = "launch"] ELSE IdleCli
     ELSE UNCHANGED fileVars /\ cli' = IdleCli
  /\ UNCHANGED <<serverVars, task, dlVars, sideVars, counters>>

\* The wizard may start llama-server and keep it until Ctrl-C.
maybe_launch_llama_server ==
  /\ cli.at = "launch" /\ UNCHANGED handle
  /\ \/ /\ is_downloaded(cli.fetch) /\ Spawn(cli.fetch)
        /\ cli' = [cli EXCEPT !.at = "serve", !.child = NewChild]
     \/ cli' = IdleCli /\ UNCHANGED <<live, port, orphans>>
  /\ UNCHANGED <<serverVars, fileVars, task, dlVars, counters>>

CliEnds ==
  /\ cli.at = "serve" /\ Drop(cli.child) /\ cli' = IdleCli
  /\ UNCHANGED <<serverVars, fileVars, task, dlVars, handle, counters>>

-----------------------------------------------------------------------------
Handler(t) ==
  \/ PatchConfig(t) \/ patch(t) \/ save_to_disk(t)
  \/ PostDownload(t) \/ start_background_download(t) \/ cancel(t)
  \/ deactivate(t) \/ activate(t) \/ ActivateStarts(t) \/ ActivateStores(t)
  \/ DeleteModel(t) \/ RemoveFile(t)

Download(d) == DownloadSucceeds(d) \/ DownloadFails(d) \/ DownloadCleansUp(d)

Cli ==
  \/ apply_protection_level \/ handle_pii_level \/ set_config \/ run_wizard
  \/ CliFetches \/ CliWrites \/ maybe_launch_llama_server \/ CliEnds

Next ==
  \/ cmd_start \/ ensure_slm_model \/ AdoptModel \/ StartSidecar \/ ServerExits \/ ServerKilled
  \/ \E t \in Tasks : Handler(t)
  \/ \E d \in Downloads : Download(d)
  \/ Cli \/ ChildBinds \/ ChildEnds \/ UserCopies \/ UserWrites

Spec == Init /\ [][Next]_vars

-----------------------------------------------------------------------------
(* Properties *)

\* Once every accepted PATCH has been saved, config.toml is the configuration in memory, whatever
\* the order in which the handlers patched and saved, as long as no other process writes the file
\* (save_to_disk holds the read lock while it writes).
DiskIsMemory ==
  (server = "on" /\ patched /\ ~foreign /\ \A t \in Tasks : task[t].at /= "save") => disk = mem

\* Tier 2 without Tier 1 comes from a config.toml that a user has written, and from nowhere else: a
\* file that the program has written last is valid, and so are the memory and the running proxy of a
\* server that started from one; and the first patch that is accepted ends it in memory and, with its
\* save, in the file, whoever merged into which copy.  The proxy keeps what it started with
\* (validate_pii_tiers is called by patch and not by load).
TiersValid ==
  /\ (disk /= None /\ author /= "user") => validate_pii_tiers(disk)
  /\ (patched \/ origin.by /= "user") => validate_pii_tiers(mem)
  /\ origin.by /= "user" => validate_pii_tiers(snap)

\* A llama-server is alive only while something will kill it: the handle, the handler that is about
\* to store it, or the wizard; those of a killed server excepted (Drop for SidecarProcess).
NoOrphanSidecar ==
  DOMAIN live \subseteq {handle, cli.child} \cup {task[t].child : t \in Tasks} \cup orphans

\* A model that GET /api/models shows as being downloaded has a task that downloads it, so that the
\* next POST is not refused for ever (every end of the task calls complete).
TrackedIsRunning ==
  \A m \in Models :
    get_api_entries[m].progress => dl[tracker[m]] = [at |-> "running", model |-> m]

\* What the tray marks once a level has been set and Tier 2 may have been switched off by load.
Shown(l, ner) == IF ner \/ ~LevelTable[l].ner THEN l ELSE IF l = "two" THEN "one" ELSE "off"

\* A level that a config command has set, in whatever file it found and whatever the server patched
\* meanwhile, is the one the tray marks after the next start, unless somebody wrote the file or
\* patched the server since; without the Tier 2 model level two is marked as one and level three, of
\* which Tiers 1 and 3 go on, as off.
LevelShown ==
  (server = "on" /\ ~patched /\ origin.by \in Levels) =>
     pii_menu_states(mem).checked = Shown(origin.by, origin.ner)

\* What GET /api/proxy/status reports is what the proxy does: the mode of the running pipeline is
\* the one of the live configuration.  It is not: the pipeline is built once, by cmd_start.
HotReload == server = "on" => snap.mode = mem.mode

-----------------------------------------------------------------------------
(* The inductive invariant behind the properties *)

\* Only the handler about to store a child, and the wizard that serves one, have it in hand; a
\* server that is not up has no handle and no handlers.
ChildrenInHand ==
  /\ \A t \in Tasks : task[t].at /= "store" => task[t].child = None
  /\ cli.at /= "serve" => cli.child = None
  /\ server /= "on" => handle = None /\ \A t \in Tasks : task[t].at = "idle"

\* A registered sender belongs to a task that downloads the model, its file present or not.
SendersLive ==
  \A m \in Models : tracker[m] /= None => dl[tracker[m]] = [at |-> "running", model |-> m]

\* A download is begun for a model of the catalog.
BegunHasModel == \A t \in Tasks : task[t].at = "begin" => task[t].model \in Models

\* DiskIsMemory from the load of the file on.
FileFollows ==
  (server /= "off" /\ patched /\ ~foreign /\ \A t \in Tasks : task[t].at /= "save") => disk = mem

\* The mode and the tiers of a configuration are those of a patch.
HasLevel(c, p) == c.mode = p.mode /\ c.regex = p.regex /\ c.ner = p.ner /\ c.slm = p.slm

\* A level stays what it is from the command to the file and from the file to a server's memory.
LevelCarried ==
  /\ cli.at \in {"fetch", "write"} /\ cli.cmd \in Levels =>
       /\ {"mode", "regex", "ner", "slm"} \subseteq DOMAIN cli.patch
       /\ HasLevel(cli.patch, LevelTable[cli.cmd])
  /\ author \in Levels => disk /= None /\ HasLevel(disk, LevelTable[author])
  /\ server /= "off" /\ ~patched /\ origin.by \in Levels =>
       HasLevel(mem, disable_ner_if_model_missing(LevelTable[origin.by], origin.ner))

\* A handler that is about to save has patched.
SavesPatched == \A t \in Tasks : task[t].at = "save" => patched

ControlInv == /\ TypeOK /\ TiersValid /\ NoOrphanSidecar /\ LevelCarried /\ SavesPatched
              /\ ChildrenInHand /\ SendersLive /\ BegunHasModel /\ FileFollows
=============================================================================
