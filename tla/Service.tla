------------------------------ MODULE Service ------------------------------
(***************************************************************************)
(* The life of the program on a machine: the tray process (src/src/tray.rs,*)
(* run_tray_mode), a `privacyclaw start` process (cmd_start), the commands *)
(* that act on them (stop, init, reset-ca, network-enable and -disable,    *)
(* uninstall), the PID file, the CA files, and the routing jobs of the     *)
(* module Routing, which run in threads of the tray or in commands.        *)
(*                                                                         *)
(* The tray's own thread handles one menu event at a time; its listeners   *)
(* are tasks of a runtime: a spawned task binds its port later, an aborted *)
(* one keeps it until the runtime drops it.                                *)
(***************************************************************************)
EXTENDS Routing

CONSTANTS
  MaxCommands,   \* bound on the user's commands and clicks
  MaxCrashes     \* bound on processes that die half-way

ASSUME BoundAssumption == MaxCommands \in Nat /\ MaxCrashes \in Nat /\ None \notin Jobs

VARIABLES
  tray,       \* the tray process: "off", "on" or "quitting"
  running,    \* TrayState::proxy_running
  http_on,    \* TrayState::http_listener_on; http_task is Some exactly then
  shown,      \* current_network_on, the check mark of the network item
  owner,      \* port -> process that has it bound, or None
  pending,    \* the tray's listener tasks that have yet to bind
  dying,      \* ports held by aborted tasks
  cli,        \* the start process: "off", "starting" or "up"
  cli_ports,  \* ports its mode binds
  cfg_net,    \* config.network_proxy.enabled on disk
  pid,        \* process the PID file names, or None
  stopping,   \* a stop command has signalled its target, the PID file is yet to be removed
  ca_cert, ca_key, \* generation of ca.pem and ca.key.pem, 0 if absent, Empty if cut off
  ca_op,      \* next step of the CA command under way, or "idle"
  gens,       \* generations made
  un,         \* next step of uninstall, "none" before it, "done" or "failed" after it
  un_failed,  \* one of its steps has failed
  excuses,    \* what has happened that lets routing outlive the proxy
  theirs,     \* history: the lines other programs have put into /etc/hosts,
  safe,       \* and those of them that came while no disable() held a copy of the file to write;
  their_pf,   \* the lines other programs have put into pf.conf,
  safe_pf,    \* and those of them that came while no job held a copy of it to write
  commands, crashes

trayVars == <<tray, running, http_on, shown>>
portVars == <<owner, pending, dying>>
cliVars  == <<cli, cli_ports>>
pidVars  == <<pid, stopping>>
caVars   == <<ca_cert, ca_key, ca_op, gens>>
unVars   == <<un, un_failed>>
lineVars == <<theirs, safe, their_pf, safe_pf>>
vars == <<routingVars, trayVars, portVars, cliVars, cfg_net, pidVars, caVars, unVars, excuses,
          lineVars, commands, crashes>>

Empty     == -1    \* of a CA file: created, its contents not written
Ports     == {"http", "net", "dash"}
TrayPorts == {"http", "net"}

TypeOK ==
  /\ tray \in {"off", "on", "quitting"} /\ cli \in {"off", "starting", "up"}
  /\ running \in BOOLEAN /\ http_on \in BOOLEAN /\ shown \in BOOLEAN
  /\ owner \in [Ports -> {"tray", "cli", None}]
  /\ pending \subseteq TrayPorts /\ dying \subseteq TrayPorts /\ cli_ports \subseteq Ports
  /\ cfg_net \in BOOLEAN /\ pid \in {"tray", "cli", None} /\ stopping \in BOOLEAN
  /\ ca_cert \in Empty..gens /\ ca_key \in Empty..gens
  /\ ca_op \in {"idle", "del_cert", "del_key", "cert", "fill_cert", "key", "fill_key"}
  /\ un \in {"none", "stop", "agent", "disable", "wait", "purge", "done", "failed"}
  /\ un_failed \in BOOLEAN /\ excuses \subseteq {"raced", "denied", "killed", "shell"}
  /\ rules \in BOOLEAN /\ node_ca \in BOOLEAN /\ backup \in {"none", "clean", "tagged"}
  /\ hosts \in Seq(Line) /\ pf \in Seq(Line) /\ jobs \in [Jobs -> Job]
  /\ theirs \in Seq(Line) /\ safe \in Seq(Line) /\ their_pf \in Seq(Line) /\ safe_pf \in Seq(Line)
  /\ gens \in Nat /\ commands \in Nat /\ crashes \in Nat

\* With or without a CA of an earlier init.
Init ==
  /\ RoutingInit
  /\ tray = "off" /\ running = FALSE /\ http_on = FALSE /\ shown = FALSE
  /\ owner = [p \in Ports |-> None] /\ pending = {} /\ dying = {}
  /\ cli = "off" /\ cli_ports = {} /\ cfg_net = FALSE /\ pid = None /\ stopping = FALSE
  /\ gens \in {0, 1} /\ ca_cert = gens /\ ca_key = gens /\ ca_op = "idle"
  /\ un = "none" /\ un_failed = FALSE /\ excuses = {}
  /\ theirs = Foreign(HostsFile) /\ safe = theirs /\ their_pf = Foreign(PfConf) /\ safe_pf = their_pf
  /\ commands = 0 /\ crashes = 0

\* One more click or command; nobody uses the program while it is being uninstalled.
Command == commands < MaxCommands /\ un = "none" /\ commands' = commands + 1 /\ UNCHANGED crashes

Enabling == \E j \in Jobs : jobs[j].kind = "enable"
Excuse(S) == excuses' = excuses \cup S
FreePorts(p) == [q \in Ports |-> IF owner[q] = p THEN None ELSE owner[q]]

-----------------------------------------------------------------------------
(* The certificate authority's files (src/src/ca/mod.rs) *)

\* Both files are there and the certificate parses; nobody looks at what the key's file holds.
\* Two checks and two reads in the code, one step here.
load_ca == ca_cert > 0 /\ ca_key /= 0
CaMissing == ca_cert = 0 \/ ca_key = 0

\* Generates a CA if a file is missing; `init --network` with one goes on to enable(). A
\* certificate that does not parse is an error, which ends the command.
cmd_init ==
  /\ Command /\ ca_op = "idle"
  /\ \/ /\ CaMissing /\ ca_op' = "cert" /\ UNCHANGED <<jobs, excuses>>
     \/ /\ load_ca /\ Busy /= Jobs /\ ca_op' = "idle"
        /\ Begin("enable", "init") /\ Excuse({"shell"})
  /\ UNCHANGED <<hosts, pf, rules, backup, node_ca, trayVars, portVars, cliVars, cfg_net, pidVars,
                 ca_cert, ca_key, gens, unVars, lineVars>>

cmd_reset_ca ==
  /\ Command /\ ca_op = "idle" /\ ca_op' = "del_cert"
  /\ UNCHANGED <<routingVars, trayVars, portVars, cliVars, cfg_net, pidVars, ca_cert, ca_key, gens,
                 unVars, excuses, lineVars>>

\* Mutant: delete_ca leaves the key for generate_ca to overwrite.
delete_ca_keeps_key ==
  /\ \/ ca_op = "del_cert" /\ ca_op' = "del_key" /\ ca_cert' = 0 /\ ca_key' = ca_key
     \/ ca_op = "del_key" /\ ca_op' = "cert" /\ UNCHANGED <<ca_cert, ca_key>>
  /\ UNCHANGED <<routingVars, trayVars, portVars, cliVars, cfg_net, pidVars, gens, unVars, excuses,
                 lineVars, commands, crashes>>

delete_ca ==
  /\ \/ ca_op = "del_cert" /\ ca_op' = "del_key" /\ ca_cert' = 0 /\ ca_key' = ca_key
     \/ ca_op = "del_key" /\ ca_op' = "cert" /\ ca_key' = 0 /\ ca_cert' = ca_cert
  /\ UNCHANGED <<routingVars, trayVars, portVars, cliVars, cfg_net, pidVars, gens, unVars, excuses,
                 lineVars, commands, crashes>>

\* The certificate is written first, the key after it; each file is created and then filled.
generate_ca ==
  /\ \/ /\ ca_op = "cert" /\ ca_op' = "fill_cert"
        /\ ca_cert' = Empty /\ UNCHANGED <<ca_key, gens>>
     \/ /\ ca_op = "fill_cert" /\ ca_op' = "key"
        /\ gens' = gens + 1 /\ ca_cert' = gens + 1 /\ ca_key' = ca_key
     \/ /\ ca_op = "key" /\ ca_op' = "fill_key"
        /\ ca_key' = Empty /\ UNCHANGED <<ca_cert, gens>>
     \/ /\ ca_op = "fill_key" /\ ca_op' = "idle"
        /\ ca_key' = gens /\ UNCHANGED <<ca_cert, gens>>
  /\ UNCHANGED <<routingVars, trayVars, portVars, cliVars, cfg_net, pidVars, unVars, excuses,
                 lineVars, commands, crashes>>

CaCommandDies ==
  /\ ca_op /= "idle" /\ crashes < MaxCrashes
  /\ ca_op' = "idle" /\ crashes' = crashes + 1
  /\ UNCHANGED <<routingVars, trayVars, portVars, cliVars, cfg_net, pidVars, ca_cert, ca_key, gens,
                 unVars, excuses, lineVars, commands>>

-----------------------------------------------------------------------------
(* The start process: main.rs cmd_start *)

\* Some mode m, or None: HTTP alone, plus the network listener if the config says so.
PortsOf(m) == {"dash"} \cup (IF m = "network" THEN {} ELSE {"http"})
                       \cup (IF m \in {"network", "all"} \/ (m = None /\ cfg_net) THEN {"net"} ELSE {})

cmd_start(m) ==
  /\ Command /\ cli = "off" /\ load_ca
  /\ cli' = "starting" /\ cli_ports' = PortsOf(m) /\ pid' = "cli"
  /\ UNCHANGED <<routingVars, trayVars, portVars, cfg_net, stopping, caVars, unVars, excuses, lineVars>>

\* Any task that ends, a failed bind included, ends the process; so does Ctrl-C.
\* Each way out removes the PID file, whomever it names.
StartBinds ==
  /\ cli = "starting"
  /\ \/ /\ \A p \in cli_ports : owner[p] = None
        /\ cli' = "up" /\ pid' = pid
        /\ owner' = [p \in Ports |-> IF p \in cli_ports THEN "cli" ELSE owner[p]]
     \/ /\ \E p \in cli_ports : owner[p] /= None
        /\ cli' = "off" /\ pid' = None /\ owner' = owner
  /\ UNCHANGED <<routingVars, trayVars, pending, dying, cli_ports, cfg_net, stopping, caVars, unVars,
                 excuses, lineVars, commands, crashes>>

StartExits ==
  /\ Command /\ cli = "up"
  /\ cli' = "off" /\ pid' = None /\ owner' = FreePorts("cli")
  /\ UNCHANGED <<routingVars, trayVars, pending, dying, cli_ports, cfg_net, stopping, caVars, unVars,
                 excuses, lineVars>>

\* POST /api/proxy/stop removes the PID file and notifies cmd_start; nobody in a tray process
\* waits for that notice.
dashboard_stop ==
  /\ Command /\ owner["dash"] /= None
  /\ pid' = None
  /\ \/ owner["dash"] = "cli" /\ cli' = "off" /\ owner' = FreePorts("cli")
     \/ owner["dash"] = "tray" /\ UNCHANGED <<cli, owner>>
  /\ UNCHANGED <<routingVars, trayVars, pending, dying, cli_ports, cfg_net, stopping, caVars, unVars,
                 excuses, lineVars>>

-----------------------------------------------------------------------------
(* The tray: run_tray_mode and tray.rs *)

\* The items of the menu that can be clicked.
build_menu == {"start_stop", "quit"} \cup (IF running THEN {"http_proxy", "network_proxy"} ELSE {})

Clicked(item) == Command /\ tray = "on" /\ item \in build_menu

start_proxy == running' = TRUE /\ http_on' = TRUE /\ pending' = TrayPorts

run_tray_mode ==
  /\ Command /\ tray = "off" /\ load_ca
  /\ tray' = "on" /\ pid' = "tray" /\ shown' = is_enabled
  /\ owner' = [owner EXCEPT !["dash"] = IF @ = None THEN "tray" ELSE @]
  /\ start_proxy
  /\ UNCHANGED <<routingVars, dying, cliVars, cfg_net, stopping, caVars, unVars, excuses, lineVars>>

\* A task that cannot bind logs it and ends.
TaskBinds(p) ==
  /\ p \in pending
  /\ pending' = pending \ {p}
  /\ owner' = [owner EXCEPT ![p] = IF @ = None THEN "tray" ELSE @]
  /\ UNCHANGED <<routingVars, trayVars, dying, cliVars, cfg_net, pidVars, caVars, unVars, excuses,
                 lineVars, commands, crashes>>

TaskDropped(p) ==
  /\ p \in dying
  /\ dying' = dying \ {p} /\ owner' = [owner EXCEPT ![p] = None]
  /\ UNCHANGED <<routingVars, trayVars, pending, cliVars, cfg_net, pidVars, caVars, unVars, excuses,
                 lineVars, commands, crashes>>

Abort(S) ==
  /\ pending' = pending \ S
  /\ dying' = dying \cup {p \in S : owner[p] = "tray"}

\* Mutant: stop_proxy goes by the check mark.
stop_proxy_by_mark ==
  /\ Abort(TrayPorts)
  /\ running' = FALSE /\ http_on' = FALSE
  /\ \/ shown /\ Busy /= Jobs /\ Begin("disable", "stop")
     \/ ~shown /\ jobs' = jobs
  /\ Excuse(IF Enabling THEN {"raced"} ELSE {})

\* It looks at /etc/hosts and not at the check mark; the disable runs in a thread.
stop_proxy ==
  /\ Abort(TrayPorts)
  /\ running' = FALSE /\ http_on' = FALSE
  /\ \/ is_enabled /\ Busy /= Jobs /\ Begin("disable", "stop")
     \/ ~is_enabled /\ jobs' = jobs
  /\ Excuse(IF Enabling THEN {"raced"} ELSE {})

handle_start_stop ==
  /\ Clicked("start_stop")
  /\ \/ running /\ stop_proxy
     \/ ~running /\ start_proxy /\ UNCHANGED <<dying, jobs, excuses>>
  /\ UNCHANGED <<hosts, pf, rules, backup, node_ca, tray, shown, owner, cliVars, cfg_net, pidVars,
                 caVars, unVars, lineVars>>

handle_http_toggle ==
  /\ Clicked("http_proxy")
  /\ http_on' = ~http_on
  /\ \/ http_on /\ Abort({"http"})
     \/ ~http_on /\ pending' = pending \cup {"http"} /\ dying' = dying
  /\ UNCHANGED <<routingVars, tray, running, shown, owner, cliVars, cfg_net, pidVars, caVars, unVars,
                 excuses, lineVars>>

\* The direction is that of the check mark, which flips at once.
handle_network_toggle ==
  /\ Clicked("network_proxy") /\ Busy /= Jobs
  /\ Begin(IF shown THEN "disable" ELSE "enable", "toggle")
  /\ shown' = ~shown
  /\ UNCHANGED <<hosts, pf, rules, backup, node_ca, tray, running, http_on, portVars, cliVars, cfg_net,
                 pidVars, caVars, unVars, excuses, lineVars>>

\* The answer has no member proxy.network_enabled: the poll clears the mark in any case.
fetch_config_state ==
  /\ tray = "on" /\ owner["dash"] /= None /\ shown
  /\ shown' = FALSE
  /\ UNCHANGED <<routingVars, tray, running, http_on, portVars, cliVars, cfg_net, pidVars, caVars,
                 unVars, excuses, lineVars, commands, crashes>>

handle_quit ==
  /\ Clicked("quit")
  /\ stop_proxy
  /\ tray' = "quitting"
  /\ UNCHANGED <<hosts, pf, rules, backup, node_ca, shown, owner, cliVars, cfg_net, pidVars, caVars,
                 unVars, lineVars>>

\* What the end of the tray's process leaves behind, the PID file aside.
TrayGone ==
  /\ tray' = "off" /\ running' = FALSE /\ http_on' = FALSE /\ shown' = FALSE
  /\ owner' = FreePorts("tray") /\ pending' = {} /\ dying' = {}
  /\ jobs' = Orphaned

\* After handle_quit the process ends; a disable that has not launched its script ends with it.
TrayExits ==
  /\ tray = "quitting"
  /\ TrayGone /\ pid' = None
  /\ Excuse(IF \E j \in Jobs : InTray(j) /\ jobs[j].at = "begin" THEN {"killed"} ELSE {})
  /\ UNCHANGED <<hosts, pf, rules, backup, node_ca, cliVars, cfg_net, stopping, caVars, unVars, lineVars,
                 commands, crashes>>

TrayCrashes ==
  /\ tray /= "off" /\ crashes < MaxCrashes
  /\ TrayGone /\ Excuse({"killed"}) /\ crashes' = crashes + 1
  /\ UNCHANGED <<hosts, pf, rules, backup, node_ca, cliVars, cfg_net, pidVars, caVars, unVars, lineVars,
                 commands>>

-----------------------------------------------------------------------------
(* Routing jobs, as Routing defines them *)

\* patch_network_enabled follows a toggle's success.
JobSteps(j) ==
  /\ \/ enable(j) /\ UNCHANGED cfg_net
     \/ disable(j) /\ UNCHANGED cfg_net
     \/ RunEnable(j) /\ UNCHANGED cfg_net
     \/ RunDisable(j) /\ UNCHANGED cfg_net
     \/ FollowUp(j) /\ cfg_net' = IF jobs[j].by = "toggle" THEN jobs[j].kind = "enable" ELSE cfg_net
  /\ UNCHANGED <<trayVars, portVars, cliVars, pidVars, caVars, unVars, excuses, lineVars, commands,
                 crashes>>

JobDenied(j) ==
  /\ Deny(j)
  /\ Excuse(IF jobs[j].kind = "disable" THEN {"denied"} ELSE {})
  /\ un_failed' = (un_failed \/ jobs[j].by = "uninstall")
  /\ UNCHANGED <<trayVars, portVars, cliVars, cfg_net, pidVars, caVars, un, lineVars, commands, crashes>>

cmd_network_enable ==
  /\ Command /\ Busy /= Jobs
  /\ Begin("enable", "shell") /\ Excuse({"shell"})
  /\ UNCHANGED <<hosts, pf, rules, backup, node_ca, trayVars, portVars, cliVars, cfg_net, pidVars,
                 caVars, unVars, lineVars>>

cmd_network_disable ==
  /\ Command /\ is_enabled /\ Busy /= Jobs
  /\ Begin("disable", "shell")
  /\ UNCHANGED <<hosts, pf, rules, backup, node_ca, trayVars, portVars, cliVars, cfg_net, pidVars,
                 caVars, unVars, excuses, lineVars>>

\* Another program adds a line to one of the files, while a job waits in its dialog or not.
EditLine == [tagged |-> FALSE, text |-> "edit", filter |-> FALSE]
Holding(kinds) == \E j \in Jobs : jobs[j].at = "dialog" /\ jobs[j].kind \in kinds

EditHosts ==
  /\ Command
  /\ hosts' = Append(hosts, EditLine) /\ theirs' = Append(theirs, EditLine)
  /\ safe' = IF Holding({"disable"}) THEN safe ELSE Append(safe, EditLine)
  /\ UNCHANGED <<pf, rules, backup, node_ca, jobs, trayVars, portVars, cliVars, cfg_net, pidVars,
                 caVars, unVars, excuses, their_pf, safe_pf>>

EditPfConf ==
  /\ Command
  /\ pf' = Append(pf, EditLine) /\ their_pf' = Append(their_pf, EditLine)
  /\ safe_pf' = IF Holding({"enable", "disable"}) THEN safe_pf ELSE Append(safe_pf, EditLine)
  /\ UNCHANGED <<hosts, rules, backup, node_ca, jobs, trayVars, portVars, cliVars, cfg_net, pidVars,
                 caVars, unVars, excuses, theirs, safe>>

-----------------------------------------------------------------------------
(* stop and uninstall *)

\* SIGTERM is not handled: the process the PID file names dies at once.
stop_process ==
  \/ /\ pid = "tray" /\ tray /= "off"
     /\ TrayGone /\ Excuse({"killed"}) /\ cli' = cli
  \/ /\ pid = "cli" /\ cli /= "off"
     /\ cli' = "off" /\ owner' = FreePorts("cli")
     /\ UNCHANGED <<trayVars, pending, dying, jobs, excuses>>
  \/ /\ \/ pid = "tray" /\ tray = "off"
        \/ pid = "cli" /\ cli = "off"
     /\ UNCHANGED <<trayVars, portVars, jobs, excuses, cli>>

cmd_stop ==
  /\ Command /\ pid /= None /\ ~stopping
  /\ stop_process /\ stopping' = TRUE
  /\ UNCHANGED <<hosts, pf, rules, backup, node_ca, cli_ports, cfg_net, pid, caVars, unVars, lineVars>>

\* Up to 250 ms after the exit.
remove_pid ==
  /\ stopping
  /\ stopping' = FALSE /\ pid' = None
  /\ UNCHANGED <<routingVars, trayVars, portVars, cliVars, cfg_net, caVars, unVars, excuses, lineVars,
                 commands, crashes>>

cmd_uninstall ==
  /\ Command /\ ~stopping
  /\ un' = "stop"
  /\ UNCHANGED <<routingVars, trayVars, portVars, cliVars, cfg_net, pidVars, caVars, un_failed, excuses,
                 lineVars>>

step_stop_proxy ==
  /\ un = "stop" /\ un' = "agent"
  /\ \/ pid = None /\ UNCHANGED <<trayVars, portVars, jobs, excuses, cli, pid>>
     \/ pid /= None /\ stop_process /\ pid' = None
  /\ UNCHANGED <<hosts, pf, rules, backup, node_ca, cli_ports, cfg_net, stopping, caVars, un_failed,
                 lineVars, commands, crashes>>

\* The launch agent's file is removed, if it is there, which may fail.
step_unload_launch_agent ==
  /\ un = "agent" /\ un' = "disable"
  /\ un_failed' \in {un_failed, TRUE}
  /\ UNCHANGED <<routingVars, trayVars, portVars, cliVars, cfg_net, pidVars, caVars, excuses, lineVars,
                 commands, crashes>>

\* Mutant: goes by the config, which only the tray's toggle keeps.
step_disable_by_config ==
  /\ un = "disable" /\ un' = "wait"
  /\ \/ cfg_net /\ Busy /= Jobs /\ Begin("disable", "uninstall")
     \/ ~cfg_net /\ jobs' = jobs
  /\ Excuse(IF Enabling \/ tray /= "off" THEN {"raced"} ELSE {})
  /\ UNCHANGED <<hosts, pf, rules, backup, node_ca, trayVars, portVars, cliVars, cfg_net, pidVars,
                 caVars, un_failed, lineVars, commands, crashes>>

step_disable_network_proxy ==
  /\ un = "disable" /\ un' = "wait"
  /\ \/ is_enabled /\ Busy /= Jobs /\ Begin("disable", "uninstall")
     \/ ~is_enabled /\ jobs' = jobs
  /\ Excuse(IF Enabling \/ tray /= "off" THEN {"raced"} ELSE {})
  /\ UNCHANGED <<hosts, pf, rules, backup, node_ca, trayVars, portVars, cliVars, cfg_net, pidVars,
                 caVars, un_failed, lineVars, commands, crashes>>

\* Once the disable is over, with or without success; no step that fails keeps the next one from
\* running. The summary counts the failures.
Summary(failed) == IF failed THEN "failed" ELSE "done"

step_remove_privileged ==
  /\ un = "wait" /\ \A j \in Jobs : jobs[j].by /= "uninstall"
  /\ un_failed' \in {un_failed, TRUE}
  /\ un' \in {"purge", Summary(un_failed')}
  /\ UNCHANGED <<routingVars, trayVars, portVars, cliVars, cfg_net, pidVars, caVars, excuses, lineVars,
                 commands, crashes>>

\* A removal that fails has taken away some of the files.
step_purge_data ==
  /\ un = "purge"
  /\ \/ /\ un_failed' = un_failed
        /\ ca_cert' = 0 /\ ca_key' = 0 /\ pid' = None /\ backup' = "none" /\ cfg_net' = FALSE
     \/ /\ un_failed' = TRUE
        /\ ca_cert' \in {0, ca_cert} /\ ca_key' \in {0, ca_key} /\ pid' \in {None, pid}
        /\ backup' \in {"none", backup} /\ cfg_net' \in {FALSE, cfg_net}
  /\ un' = Summary(un_failed')
  /\ UNCHANGED <<hosts, pf, rules, node_ca, jobs, trayVars, portVars, cliVars, stopping, ca_op, gens,
                 excuses, lineVars, commands, crashes>>

Next ==
  \/ cmd_init \/ cmd_reset_ca \/ delete_ca \/ generate_ca \/ CaCommandDies
  \/ \E m \in {"http", "network", "all", None} : cmd_start(m)
  \/ StartBinds \/ StartExits \/ dashboard_stop
  \/ run_tray_mode \/ handle_start_stop \/ handle_http_toggle \/ handle_network_toggle
  \/ fetch_config_state \/ handle_quit \/ TrayExits \/ TrayCrashes
  \/ \E p \in TrayPorts : TaskBinds(p) \/ TaskDropped(p)
  \/ \E j \in Jobs : JobSteps(j) \/ JobDenied(j)
  \/ cmd_network_enable \/ cmd_network_disable \/ EditHosts \/ EditPfConf
  \/ cmd_stop \/ remove_pid
  \/ cmd_uninstall \/ step_stop_proxy \/ step_unload_launch_agent \/ step_disable_network_proxy
  \/ step_remove_privileged \/ step_purge_data

Spec == Init /\ [][Next]_vars

-----------------------------------------------------------------------------
(* Properties *)

\* The file's foreign lines are among those of all and have those of some, conversions aside.
LinesKept(some, file, all) ==
  /\ Within(printf(some), printf(Foreign(file)))
  /\ Within(printf(Foreign(file)), printf(all))

\* However enable and disable jobs overlap, whatever is denied and whoever dies, /etc/hosts and
\* pf.conf keep the lines that other programs wrote, in order and once: only a line that came while
\* a job held an older copy of the file in the administrator's dialog can be lost (the script writes
\* that copy back), and only a line with a printf conversion can come out changed.
ForeignLinesKept == LinesKept(safe, hosts, theirs) /\ LinesKept(safe_pf, pf, their_pf)

\* Once the proxy is stopped from the tray, or quit, and every job is over, no line routes the
\* domains to a port nobody serves, unless the administrator refused, an enable was under way at
\* the stop, the process died early, or routing was switched on by hand: stop_proxy's look at
\* /etc/hosts is enough in every other order of clicks, polls, dialogs and follow-ups.
StopUnroutes == ~running /\ Busy = {} /\ excuses = {} => ~is_enabled

\* An uninstall that reports no failure leaves no routing behind, unless an enable was under way
\* or a tray it could not find in the PID file was still alive.
UninstallUnroutes == un = "done" /\ Busy = {} /\ "raced" \notin excuses => ~is_enabled

\* A CA that load_ca accepts has a certificate and a key that belong together, even while init or
\* reset-ca rewrites them, and also after one command that died half-way, once no other runs; the
\* one exception is a key file without contents, which is there only while a command is about to
\* fill it or after one has died there.
CaPairMatches ==
  /\ load_ca /\ (crashes = 0 \/ (crashes = 1 /\ ca_op = "idle")) => ca_cert = ca_key \/ ca_key = Empty
  /\ ca_key = Empty => ca_op = "fill_key" \/ crashes > 0
=============================================================================
