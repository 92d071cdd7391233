------------------------------ MODULE Routing ------------------------------
(***************************************************************************)
(* Network routing (src/src/network_helper.rs): tagged lines in /etc/hosts *)
(* and /etc/pf.conf send the configured domains to the transparent         *)
(* listener. enable() and disable() read the files, compute what to write, *)
(* and run one privileged script, which may wait for an administrator for  *)
(* as long as it likes: a job is between its read and its script meanwhile,*)
(* and nothing keeps two jobs apart.                                       *)
(*                                                                         *)
(* A line is a record: tagged or not, its text, and for pf.conf whether it *)
(* is a filter anchor. One tagged line stands for the IPv4 and the IPv6    *)
(* line of a domain, which are always written together.                    *)
(***************************************************************************)
EXTENDS Integers, Sequences, FiniteSets, SequencesExt, Subsequences

CONSTANTS
  Domains,    \* config.intercept.domains, a sequence
  HostsFile,  \* what /etc/hosts holds at first
  PfConf,     \* what /etc/pf.conf holds at first
  Jobs,       \* slots for calls of enable() or disable() under way
  None

\* A line of one of the two files, and what it may say.
Text == {"edit", "percent", "mangled", "rdr-anchor", "load anchor"} \cup {Domains[i] : i \in DOMAIN Domains}
          \cup {HostsFile[i].text : i \in DOMAIN HostsFile} \cup {PfConf[i].text : i \in DOMAIN PfConf}
Line == [tagged : BOOLEAN, text : Text, filter : BOOLEAN]

ASSUME FileAssumption == HostsFile \in Seq(Line) /\ PfConf \in Seq(Line) /\ Domains \in Seq(Text)

VARIABLES
  hosts,    \* lines of /etc/hosts
  pf,       \* lines of /etc/pf.conf
  rules,    \* the redirect is loaded in pf
  backup,   \* hosts.bak and pf.conf.bak: "none", or the /etc/hosts they keep is "clean" or "tagged"
  node_ca,  \* NODE_EXTRA_CA_CERTS is set in launchd and its plist is there
  jobs      \* job -> its call, or Idle

routingVars == <<hosts, pf, rules, backup, node_ca, jobs>>

Foreign(file)  == Picked(file, {i \in DOMAIN file : ~file[i].tagged})
HostLine(d)    == [tagged |-> TRUE, text |-> d, filter |-> FALSE]

build_hosts_entries(domains, existing) ==
  Picked([i \in DOMAIN domains |-> HostLine(domains[i])],
         {i \in DOMAIN domains : ~Contains(existing, HostLine(domains[i]))})

\* Mutant: cuts the file at its first tagged line.
cut_at_tag(content) ==
  LET at == SelectInSeq(content, LAMBDA l : l.tagged)
  IN  IF at = 0 THEN content ELSE SubSeq(content, 1, at - 1)

remove_privacyclaw_lines(content) == Foreign(content)

has_privacyclaw_entries(content) == \E i \in DOMAIN content : content[i].tagged

build_pf_conf_include == <<[tagged |-> TRUE, text |-> "rdr-anchor", filter |-> FALSE],
                           [tagged |-> TRUE, text |-> "load anchor", filter |-> FALSE]>>

\* Before the first filter anchor, at the end if there is none; once only.
insert_pf_conf_include(content) ==
  LET at == SelectInSeq(content, LAMBDA l : l.filter)
      k  == IF at = 0 THEN Len(content) ELSE at - 1
  IN  IF has_privacyclaw_entries(content) THEN content
      ELSE SubSeq(content, 1, k) \o build_pf_conf_include \o SubSeq(content, k + 1, Len(content))

\* The script writes a file with printf '<content>': a line with a conversion comes out changed.
Printed(line)   == IF line.text = "percent" THEN [line EXCEPT !.text = "mangled"] ELSE line
printf(content) == [i \in DOMAIN content |-> Printed(content[i])]

is_enabled == has_privacyclaw_entries(hosts)

-----------------------------------------------------------------------------
(* Jobs. by says who called: "toggle" and "stop" run in threads of the tray, "shell", "init"
   and "uninstall" are commands with a process of their own. *)

Idle  == [kind |-> "none", by |-> "none", at |-> "none", hosts |-> <<>>, pf |-> <<>>]
Job   == [kind : {"none", "enable", "disable"},
          by : {"none", "toggle", "stop", "shell", "init", "uninstall", "orphan"},
          at : {"none", "begin", "dialog", "after"}, hosts : Seq(Line), pf : Seq(Line)]
Busy  == {j \in Jobs : jobs[j].kind /= "none"}
Slot  == CHOOSE j \in Jobs : jobs[j].kind = "none"
InTray(j) == jobs[j].by \in {"toggle", "stop"}

RoutingInit ==
  /\ hosts = HostsFile /\ pf = PfConf /\ rules = FALSE /\ backup = "none"
  /\ node_ca = FALSE /\ jobs = [j \in Jobs |-> Idle]

\* The call begins; its thread has read nothing yet.
NewJob(kind, by) == [kind |-> kind, by |-> by, at |-> "begin", hosts |-> <<>>, pf |-> <<>>]
Begin(kind, by)  == jobs' = [jobs EXCEPT ![Slot] = NewJob(kind, by)]

\* enable(): snapshot unless there is one, read, compute; the job waits for the administrator.
enable(j) ==
  /\ jobs[j].kind = "enable" /\ jobs[j].at = "begin"
  /\ backup' = IF backup = "none" THEN (IF is_enabled THEN "tagged" ELSE "clean") ELSE backup
  /\ jobs' = [jobs EXCEPT ![j].at = "dialog", ![j].hosts = build_hosts_entries(Domains, hosts),
                          ![j].pf = insert_pf_conf_include(pf)]
  /\ UNCHANGED <<hosts, pf, rules, node_ca>>

disable(j) ==
  /\ jobs[j].kind = "disable" /\ jobs[j].at = "begin"
  /\ jobs' = [jobs EXCEPT ![j].at = "dialog", ![j].hosts = remove_privacyclaw_lines(hosts),
                          ![j].pf = remove_privacyclaw_lines(pf)]
  /\ UNCHANGED <<hosts, pf, rules, backup, node_ca>>

\* The script of enable(): pf.conf is written unless the anchor's file cannot be, the redirect is
\* loaded or not whatever became of pf.conf, and the entries are appended in any case; the
\* script's status is that of this last command.
RunEnable(j) ==
  /\ jobs[j].kind = "enable" /\ jobs[j].at = "dialog"
  /\ pf' \in {pf, printf(jobs[j].pf)}
  /\ rules' \in {rules, TRUE}
  /\ hosts' = hosts \o printf(jobs[j].hosts)
  /\ jobs' = [jobs EXCEPT ![j].at = "after"]
  /\ UNCHANGED <<backup, node_ca>>

\* The script of disable(): flushing the redirect and writing pf.conf may fail, each by itself;
\* /etc/hosts is written in any case.
RunDisable(j) ==
  /\ jobs[j].kind = "disable" /\ jobs[j].at = "dialog"
  /\ rules' \in {rules, FALSE}
  /\ pf' \in {pf, printf(jobs[j].pf)}
  /\ hosts' = printf(jobs[j].hosts)
  /\ jobs' = [jobs EXCEPT ![j].at = "after"]
  /\ UNCHANGED <<backup, node_ca>>

\* The rest of the call and its caller's follow-ups: disable() drops the backups; toggle, stop
\* and shell set or unset NODE_EXTRA_CA_CERTS. An orphaned script has nobody to do this.
FollowUp(j) ==
  /\ jobs[j].at = "after"
  /\ LET on == jobs[j].kind = "enable"
     IN  /\ backup' = IF on \/ jobs[j].by = "orphan" THEN backup ELSE "none"
         /\ node_ca' = IF jobs[j].by \in {"toggle", "stop", "shell"} THEN on ELSE node_ca
  /\ jobs' = [jobs EXCEPT ![j] = Idle]
  /\ UNCHANGED <<hosts, pf, rules>>

Deny(j) ==
  /\ jobs[j].at = "dialog"
  /\ jobs' = [jobs EXCEPT ![j] = Idle]
  /\ UNCHANGED <<hosts, pf, rules, backup, node_ca>>

\* The tray's process is gone: a thread yet to start its script is lost, a started script goes on.
Orphaned == [j \in Jobs |-> IF ~InTray(j) THEN jobs[j]
                            ELSE IF jobs[j].at = "dialog" THEN [jobs[j] EXCEPT !.by = "orphan"]
                            ELSE Idle]
=============================================================================
