--------------------------- MODULE ServiceProofs ---------------------------
(***************************************************************************)
(* Proofs about Service, for any files, domains, number of jobs, commands  *)
(* and crashes: what the routing jobs leave in /etc/hosts and pf.conf in   *)
(* every interleaving, and that a CA that loads is one pair.               *)
(***************************************************************************)
EXTENDS Service, SubsequenceProofs

\* A slot without a job is Idle.
JobShape == \A j \in Jobs : jobs[j].kind = "none" => jobs[j] = Idle

\* What a disable writes has no line of privacyclaw.
DisablesClean ==
  \A j \in Jobs : jobs[j].kind = "disable" /\ jobs[j].at = "dialog" => ~has_privacyclaw_entries(jobs[j].hosts)

\* A disable that has yet to write.
Pending(j) == jobs[j].kind = "disable" /\ jobs[j].at \in {"begin", "dialog"}

\* Why StopUnroutes is stable: once stopped without an excuse, nobody enables, and as long as
\* routing is on somebody is about to disable it.
StopInv ==
  /\ running => tray = "on"
  /\ ~running /\ excuses = {} => ~Enabling /\ (is_enabled => \E j \in Jobs : Pending(j))

\* Why UninstallUnroutes is stable.
UninstallInv ==
  /\ \A j \in Jobs : jobs[j].by = "uninstall" => un = "wait" /\ jobs[j].kind = "disable"
  /\ un = "done" => ~un_failed
  /\ un \in {"wait", "purge", "done"} /\ "raced" \notin excuses =>
       /\ tray = "off" /\ ~Enabling
       /\ \/ ~is_enabled \/ un_failed
          \/ un = "wait" /\ \E j \in Jobs : Pending(j) /\ jobs[j].by = "uninstall"

\* The CA's files while no process has died, and after one has.
CaWhole ==
  /\ ca_key = Empty => ca_op = "fill_key"
  /\ ca_op = "idle" /\ un = "none" => ca_cert > 0 \/ ca_key = 0
  /\ ca_op \in {"key", "fill_key"} /\ un = "none" => ca_cert > 0
  /\ ca_op \in {"idle", "del_cert"} => ca_cert = ca_key \/ ca_cert <= 0 \/ ca_key = 0
  /\ ca_op \in {"cert", "fill_cert", "key"} => ca_key = 0
  /\ ca_op = "del_key" => ca_cert = 0

CaInv ==
  /\ ca_op \in {"key", "fill_key"} => ca_cert \in {0, gens}
  /\ ca_op = "fill_key" => ca_key \in {Empty, 0}
  /\ crashes = 0 => CaWhole
  /\ crashes <= 1 /\ ca_op = "idle" /\ load_ca => ca_cert = ca_key \/ ca_key = Empty

AllTagged(file) == \A i \in DOMAIN file : file[i].tagged

\* The lines of others, in the files and in what the waiting jobs are about to write.
ForeignInv ==
  /\ LinesKept(safe, hosts, theirs) /\ LinesKept(safe_pf, pf, their_pf)
  /\ \A j \in Jobs : jobs[j].at = "dialog" =>
       /\ LinesKept(safe_pf, jobs[j].pf, their_pf)
       /\ jobs[j].kind = "enable" => AllTagged(jobs[j].hosts)
       /\ jobs[j].kind = "disable" => LinesKept(safe, jobs[j].hosts, theirs)

-----------------------------------------------------------------------------
(* The operators on files *)

\* The lines kept by Foreign are untagged lines of the file.
LEMMA ForeignType ==
  ASSUME NEW file \in Seq(Line)
  PROVE  Foreign(file) \in Seq(Line) /\ Foreign(file) \in Seq({l \in Line : ~l.tagged})
<1> DEFINE I == {i \in DOMAIN file : ~file[i].tagged}
<1>1. Picked(file, I) \in Seq({file[i] : i \in DOMAIN file \cap I})
  BY PickedType, Zenon
<1>2. {file[i] : i \in DOMAIN file \cap I} \subseteq {l \in Line : ~l.tagged}
  OBVIOUS
<1>3. Picked(file, I) \in Seq({l \in Line : ~l.tagged})
  BY <1>1, <1>2, SeqMonotonic, Zenon
<1>4. Picked(file, I) \in Seq(Line)
  BY PickedSeq, Zenon
<1>5. QED
  BY <1>3, <1>4, Zenon DEF Foreign

\* What disable() writes has no line of privacyclaw.
LEMMA ForeignClean ==
  ASSUME NEW file \in Seq(Line)
  PROVE  ~has_privacyclaw_entries(Foreign(file))
<1> DEFINE f == Foreign(file)
<1>1. f \in Seq({l \in Line : ~l.tagged})
  BY ForeignType
<1> HIDE DEF f
<1>2. \A i \in DOMAIN f : ~f[i].tagged
  BY <1>1
<1>3. QED
  BY <1>2 DEF f, has_privacyclaw_entries

\* Foreign keeps a file that has no line of privacyclaw, and nothing of one that has no other.
LEMMA ForeignExtremes ==
  ASSUME NEW file \in Seq(Line)
  PROVE  /\ ~has_privacyclaw_entries(file) => Foreign(file) = file
         /\ AllTagged(file) => Foreign(file) = <<>>
<1> DEFINE I == {i \in DOMAIN file : ~file[i].tagged}
<1>1. ASSUME ~has_privacyclaw_entries(file) PROVE Foreign(file) = file
  <2>1. DOMAIN file \subseteq I
    BY <1>1 DEF has_privacyclaw_entries
  <2>2. Picked(file, I) = file
    BY <2>1, PickedAll, Zenon
  <2>3. QED
    BY <2>2, Zenon DEF Foreign
<1>2. ASSUME AllTagged(file) PROVE Foreign(file) = <<>>
  <2>1. DOMAIN file \cap I = {}
    BY <1>2 DEF AllTagged
  <2>2. Picked(file, I) = <<>>
    BY <2>1, PickedNone, Zenon
  <2>3. QED
    BY <2>2, Zenon DEF Foreign
<1>3. QED
  BY <1>1, <1>2, Zenon

\* Foreign of a concatenation.
ForeignApart(s, t) == Foreign(s \o t) = Foreign(s) \o Foreign(t)

\* The lines of others in a file of two parts are those of the first, then those of the second.
LEMMA ForeignConcat ==
  ASSUME NEW s \in Seq(Line), NEW t \in Seq(Line)
  PROVE  ForeignApart(s, t)
<1> DEFINE u == s \o t
           I == {i \in DOMAIN u : ~u[i].tagged}
           K == {i \in DOMAIN s : ~s[i].tagged}
           J == {i \in DOMAIN t : ~t[i].tagged}
           J2 == {i \in DOMAIN t : Len(s) + i \in I}
<1>0. /\ u \in Seq(Line) /\ DOMAIN u = 1..(Len(s) + Len(t)) /\ DOMAIN s = 1..Len(s) /\ DOMAIN t = 1..Len(t)
      /\ \A i \in 1..Len(s) : u[i] = s[i]
      /\ \A i \in 1..Len(t) : u[Len(s) + i] = t[i]
      /\ Len(s) \in Nat /\ Len(t) \in Nat
  BY ConcatProperties
<1> HIDE DEF u
<1>1. J = J2
  BY <1>0
<1>2. \A i \in DOMAIN s : i \in I <=> i \in K
  BY <1>0
<1> HIDE DEF I, J, K
<1>3. Picked(s, I) = Picked(s, K)
  BY <1>2, PickedSame, Zenon
<1>4. Picked(u, I) = Picked(s, I) \o Picked(t, J2)
  <2>1. PicksApart(s, t, I)
    BY PickedConcat, Zenon
  <2>2. QED
    BY <2>1, Zenon DEF PicksApart, u
<1> HIDE DEF J2
<1>5. Picked(u, I) = Picked(s, K) \o Picked(t, J)
  BY <1>1, <1>3, <1>4, Zenon
<1>6. QED
  BY <1>5, Zenon DEF ForeignApart, Foreign, u, I, J, K

\* Appending lines of privacyclaw leaves the others as they are.
LEMMA ForeignTagged ==
  ASSUME NEW s \in Seq(Line), NEW t \in Seq(Line), AllTagged(t)
  PROVE  Foreign(s \o t) = Foreign(s)
<1>1. ForeignApart(s, t)
  BY ForeignConcat, Zenon
<1>2. Foreign(t) = <<>> /\ Foreign(s) \in Seq(Line)
  BY ForeignExtremes, ForeignType, Zenon
<1>3. Foreign(s) \o <<>> = Foreign(s)
  BY <1>2, ConcatEmptySeq, Zenon
<1>4. QED
  BY <1>1, <1>2, <1>3, Zenon DEF ForeignApart

\* The texts that the code itself writes.
LEMMA FixedTexts ==
  "edit" \in Text /\ "mangled" \in Text /\ "rdr-anchor" \in Text /\ "load anchor" \in Text
  BY Zenon DEF Text

\* The include is spliced into pf.conf at one place, or pf.conf is left alone.
LEMMA InsertSplit ==
  ASSUME NEW content \in Seq(Line)
  PROVE  \/ insert_pf_conf_include(content) = content
         \/ \E k \in 0..Len(content) : insert_pf_conf_include(content) =
              SubSeq(content, 1, k) \o build_pf_conf_include \o SubSeq(content, k + 1, Len(content))
<1> DEFINE I  == {i \in 1..Len(content) : content[i].filter}
           at == SelectInSeq(content, LAMBDA l : l.filter)
           k  == IF at = 0 THEN Len(content) ELSE at - 1
<1>1. at = IF I # {} THEN Min(I) ELSE 0
  BY Zenon DEF SelectInSeq
<1>2. I # {} => Min(I) \in I
  <2> SUFFICES ASSUME I # {} PROVE Min(I) \in I
    OBVIOUS
  <2>1. I \subseteq Nat
    OBVIOUS
  <2>2. \E x \in I : \A y \in I : x <= y
    BY <2>1, LeastNatural, Zenon
  <2>3. QED
    BY <2>2, Zenon DEF Min
<1> HIDE DEF at
<1>3. k \in 0..Len(content)
  BY <1>1, <1>2
<1>4. insert_pf_conf_include(content) = IF has_privacyclaw_entries(content) THEN content
        ELSE SubSeq(content, 1, k) \o build_pf_conf_include \o SubSeq(content, k + 1, Len(content))
  BY Zenon DEF insert_pf_conf_include, at
<1> HIDE DEF k
<1>5. QED
  BY <1>3, <1>4, Zenon

\* insert_pf_conf_include keeps the lines of others.
LEMMA InsertFacts ==
  ASSUME NEW content \in Seq(Line)
  PROVE  /\ insert_pf_conf_include(content) \in Seq(Line)
         /\ Foreign(insert_pf_conf_include(content)) = Foreign(content)
<1>1. CASE insert_pf_conf_include(content) = content
  BY <1>1, Zenon
<1>2. ASSUME NEW k \in 0..Len(content),
             insert_pf_conf_include(content) =
               SubSeq(content, 1, k) \o build_pf_conf_include \o SubSeq(content, k + 1, Len(content))
      PROVE  /\ insert_pf_conf_include(content) \in Seq(Line)
             /\ Foreign(insert_pf_conf_include(content)) = Foreign(content)
  <2> DEFINE a == SubSeq(content, 1, k)
             b == build_pf_conf_include
             c == SubSeq(content, k + 1, Len(content))
  <2>1. a \in Seq(Line) /\ c \in Seq(Line)
    OBVIOUS
  <2>2. b \in Seq(Line) /\ AllTagged(b)
    <3> DEFINE l1 == [tagged |-> TRUE, text |-> "rdr-anchor", filter |-> FALSE]
               l2 == [tagged |-> TRUE, text |-> "load anchor", filter |-> FALSE]
    <3>1. l1 \in Line /\ l2 \in Line /\ l1.tagged /\ l2.tagged
      <4>1. l1 \in Line /\ l2 \in Line
        <5>1. \A t \in Text : [tagged |-> TRUE, text |-> t, filter |-> FALSE] \in Line
          BY DEF Line
        <5>2. QED
          BY <5>1, FixedTexts, Zenon
      <4>2. l1.tagged /\ l2.tagged
        BY Zenon
      <4>3. QED
        BY <4>1, <4>2, Zenon
    <3> HIDE DEF l1, l2
    <3>2. b = <<l1, l2>>
      BY Zenon DEF build_pf_conf_include, l1, l2
    <3>3. <<l1, l2>> \in Seq(Line) /\ AllTagged(<<l1, l2>>)
      BY <3>1 DEF AllTagged
    <3>4. QED
      BY <3>2, <3>3, Zenon
  <2>3. a \o c = content
    BY SplitAt, Zenon
  <2> HIDE DEF a, b, c
  <2>5. a \o b \in Seq(Line) /\ (a \o b) \o c \in Seq(Line)
    BY <2>1, <2>2
  <2>6. Foreign(a \o b) = Foreign(a)
    BY <2>1, <2>2, ForeignTagged, Zenon
  <2>7. ForeignApart(a \o b, c) /\ ForeignApart(a, c)
    BY <2>1, <2>5, ForeignConcat, Zenon
  <2>8. Foreign((a \o b) \o c) = Foreign(a \o c)
    BY <2>6, <2>7, Zenon DEF ForeignApart
  <2>9. insert_pf_conf_include(content) = (a \o b) \o c
    BY <1>2, Zenon DEF a, b, c
  <2>10. QED
    BY <2>3, <2>5, <2>8, <2>9, Zenon
<1>3. QED
  BY <1>1, <1>2, InsertSplit, Zenon

\* Printing a line keeps its tag, and changes it once only.
LEMMA PrintedFacts ==
  ASSUME NEW l \in Line
  PROVE  Printed(l) \in Line /\ Printed(l).tagged = l.tagged /\ Printed(Printed(l)) = Printed(l)
<1>1. [l EXCEPT !.text = "mangled"] \in Line
  BY FixedTexts DEF Line
<1>2. [l EXCEPT !.text = "mangled"].tagged = l.tagged /\ [l EXCEPT !.text = "mangled"].text = "mangled"
  BY DEF Line
<1>3. "mangled" # "percent"
  OBVIOUS
<1>4. QED
  BY <1>1, <1>2, <1>3, Zenon DEF Printed

\* printf keeps the tags, and printing twice changes no more than printing once.
LEMMA PrintfFacts ==
  ASSUME NEW content \in Seq(Line)
  PROVE  /\ printf(content) \in Seq(Line)
         /\ has_privacyclaw_entries(printf(content)) <=> has_privacyclaw_entries(content)
         /\ AllTagged(content) => AllTagged(printf(content))
         /\ printf(printf(content)) = printf(content)
<1>1. DOMAIN printf(content) = DOMAIN content /\ DOMAIN content = 1..Len(content) /\ Len(content) \in Nat
  BY DEF printf
<1>2. \A i \in DOMAIN content : printf(content)[i] = Printed(content[i])
  BY Zenon DEF printf
<1>3. \A i \in DOMAIN content : content[i] \in Line
  OBVIOUS
<1>4. \A i \in DOMAIN content : printf(content)[i] \in Line /\ printf(content)[i].tagged = content[i].tagged
  BY <1>2, <1>3, PrintedFacts, Zenon
<1>5. printf(content) \in Seq(Line)
  <2>1. printf(content) = [i \in 1..Len(content) |-> printf(content)[i]]
    BY <1>1 DEF printf
  <2>2. printf(content) \in [1..Len(content) -> Line]
    BY <1>1, <1>4, <2>1
  <2>3. QED
    BY <1>1, <2>2, SeqDef
<1>6. has_privacyclaw_entries(printf(content)) <=> has_privacyclaw_entries(content)
  BY <1>1, <1>4 DEF has_privacyclaw_entries
<1>7. AllTagged(content) => AllTagged(printf(content))
  BY <1>1, <1>4, Zenon DEF AllTagged
<1>8. printf(printf(content)) = printf(content)
  <2>1. printf(printf(content)) = [i \in DOMAIN printf(content) |-> Printed(printf(content)[i])]
    BY Zenon DEF printf
  <2>2. \A i \in DOMAIN content : Printed(printf(content)[i]) = printf(content)[i]
    BY <1>2, <1>3, PrintedFacts, Zenon
  <2>3. QED
    BY <1>1, <1>5, <2>1, <2>2
<1>9. QED
  BY <1>5, <1>6, <1>7, <1>8, Zenon

\* What enable() appends to /etc/hosts is privacyclaw's.
LEMMA EntriesFacts ==
  ASSUME NEW existing
  PROVE  /\ build_hosts_entries(Domains, existing) \in Seq(Line)
         /\ AllTagged(build_hosts_entries(Domains, existing))
<1> DEFINE lines == [i \in DOMAIN Domains |-> HostLine(Domains[i])]
           I     == {i \in DOMAIN Domains : ~Contains(existing, HostLine(Domains[i]))}
           L     == {HostLine(Domains[i]) : i \in DOMAIN Domains}
           e     == build_hosts_entries(Domains, existing)
<1>1. Len(Domains) \in Nat /\ DOMAIN Domains = 1..Len(Domains) /\ \A i \in DOMAIN Domains : Domains[i] \in Text
  BY FileAssumption
<1>2. lines \in Seq(L)
  <2>1. lines \in [1..Len(Domains) -> L]
    BY <1>1, Zenon
  <2>2. QED
    BY <1>1, <2>1, SeqDef
<1>3. e \in Seq(L)
  <2> HIDE DEF lines, I, L
  <2>1. Picked(lines, I) \in Seq(L)
    BY <1>2, PickedSeq, Zenon
  <2>2. QED
    BY <2>1, Zenon DEF build_hosts_entries, lines, I
<1>4. \A l \in L : l \in Line /\ l.tagged
  <2> SUFFICES ASSUME NEW i \in DOMAIN Domains
               PROVE  HostLine(Domains[i]) \in Line /\ HostLine(Domains[i]).tagged
    BY Zenon
  <2>1. Domains[i] \in Text
    BY <1>1, Zenon
  <2>2. QED
    BY <2>1 DEF HostLine, Line
<1> HIDE DEF L, e
<1>5. e \in Seq(Line)
  <2>1. L \subseteq Line
    BY <1>4
  <2>2. QED
    BY <1>3, <2>1, SeqMonotonic, Zenon
<1>6. \A i \in DOMAIN e : e[i] \in L
  BY <1>3
<1>7. AllTagged(e)
  BY <1>4, <1>6, Zenon DEF AllTagged
<1>8. QED
  BY <1>5, <1>7, Zenon DEF e

-----------------------------------------------------------------------------
(* What the actions do to the files and the jobs: the cases that the invariants about routing
   tell apart. *)

\* A job begins in a free slot.
Starts(kind, by) ==
  \E s \in Jobs : jobs[s].kind = "none" /\ jobs' = [jobs EXCEPT ![s] = NewJob(kind, by)]

files    == <<hosts, pf, theirs, safe, their_pf, safe_pf>>
progress == <<un, un_failed>>

HostsEdited == /\ hosts' = Append(hosts, EditLine) /\ theirs' = Append(theirs, EditLine)
               /\ safe' = IF Holding({"disable"}) THEN safe ELSE Append(safe, EditLine)
               /\ UNCHANGED <<pf, their_pf, safe_pf>>
PfEdited    == /\ pf' = Append(pf, EditLine) /\ their_pf' = Append(their_pf, EditLine)
               /\ safe_pf' = IF Holding({"enable", "disable"}) THEN safe_pf ELSE Append(safe_pf, EditLine)
               /\ UNCHANGED <<hosts, theirs, safe>>

Quiet        == UNCHANGED <<files, jobs, running, tray, excuses, progress>>
EnableByHand == /\ un = "none" /\ (\E by \in {"init", "shell"} : Starts("enable", by))
                /\ excuses' = excuses \cup {"shell"} /\ UNCHANGED <<files, running, tray, progress>>
ProxyStarts  == /\ un = "none" /\ running' = TRUE /\ tray' = "on"
                /\ UNCHANGED <<files, jobs, excuses, progress>>
ProxyStops   == /\ un = "none" /\ running' = FALSE
                /\ \/ is_enabled /\ Starts("disable", "stop")
                   \/ ~is_enabled /\ jobs' = jobs
                /\ excuses' = excuses \cup (IF Enabling THEN {"raced"} ELSE {})
                /\ UNCHANGED <<files, progress>>
Toggled      == /\ un = "none" /\ running /\ (\E kind \in {"enable", "disable"} : Starts(kind, "toggle"))
                /\ UNCHANGED <<files, running, tray, excuses, progress>>
Killed       == IF \E j \in Jobs : InTray(j) /\ jobs[j].at = "begin" THEN {"killed"} ELSE {}
TrayEnds     == /\ jobs' = Orphaned /\ running' = FALSE /\ tray' = "off"
                /\ \/ tray = "quitting" /\ excuses' = excuses \cup Killed
                   \/ excuses' = excuses \cup {"killed"}
                /\ un' = un \/ (un = "stop" /\ un' = "agent")
                /\ UNCHANGED <<files, un_failed>>
JobMoves(j)  == /\ enable(j) \/ disable(j) \/ RunEnable(j) \/ RunDisable(j) \/ FollowUp(j)
                /\ UNCHANGED <<lineVars, running, tray, excuses, progress>>
JobRefused(j) == /\ Deny(j) /\ excuses' = excuses \cup (IF jobs[j].kind = "disable" THEN {"denied"} ELSE {})
                 /\ un_failed' = (un_failed \/ jobs[j].by = "uninstall")
                 /\ UNCHANGED <<lineVars, running, tray, un>>
DisableByHand == un = "none" /\ Starts("disable", "shell") /\ UNCHANGED <<files, running, tray, excuses, progress>>
Edited       == /\ un = "none" /\ UNCHANGED <<jobs, running, tray, excuses, progress>>
                /\ HostsEdited \/ PfEdited
UninstallBegins == /\ \/ un = "none" /\ un' = "stop"
                      \/ un = "stop" /\ un' = "agent"
                   /\ UNCHANGED <<files, jobs, running, tray, excuses, un_failed>>
AgentRemoved    == /\ un = "agent" /\ un' = "disable" /\ un_failed' \in {un_failed, TRUE}
                   /\ UNCHANGED <<files, jobs, running, tray, excuses>>
UninstallDisables ==
  /\ un = "disable" /\ un' = "wait"
  /\ \/ is_enabled /\ Starts("disable", "uninstall")
     \/ ~is_enabled /\ jobs' = jobs
  /\ excuses' = excuses \cup (IF Enabling \/ tray /= "off" THEN {"raced"} ELSE {})
  /\ UNCHANGED <<files, running, tray, un_failed>>
UninstallEnds ==
  /\ \/ un = "wait" /\ \A j \in Jobs : jobs[j].by /= "uninstall"
     \/ un = "purge"
  /\ un_failed' \in {un_failed, TRUE} /\ un' \in {"purge", Summary(un_failed')}
  /\ UNCHANGED <<files, jobs, running, tray, excuses>>

Effect ==
  \/ Quiet \/ EnableByHand \/ ProxyStarts \/ ProxyStops \/ Toggled \/ TrayEnds
  \/ \E j \in Jobs : JobMoves(j) \/ JobRefused(j)
  \/ DisableByHand \/ Edited \/ UninstallBegins \/ AgentRemoved \/ UninstallDisables \/ UninstallEnds

\* Begin puts its job into a free slot, if there is one.
LEMMA BeginSlot ==
  ASSUME Busy # Jobs, NEW kind, NEW by, Begin(kind, by)
  PROVE  Starts(kind, by)
<1>1. \E j \in Jobs : jobs[j].kind = "none"
  BY DEF Busy
<1>2. Slot \in Jobs /\ jobs[Slot].kind = "none"
  BY <1>1, Zenon DEF Slot
<1>3. QED
  BY <1>2, Zenon DEF Begin, Starts

\* What a job may look like after a step, the other jobs being as they were.
Changed(j, kind, by, at, h, p) ==
  /\ jobs' \in [Jobs -> Job]
  /\ \A i \in Jobs \ {j} : jobs'[i] = jobs[i]
  /\ jobs'[j].kind = kind /\ jobs'[j].by = by /\ jobs'[j].at = at
  /\ jobs'[j].hosts = h /\ jobs'[j].pf = p

\* A job has read the files and waits for the administrator.
LEMMA JobReads ==
  ASSUME jobs \in [Jobs -> Job], NEW j \in Jobs, NEW h \in Seq(Line), NEW p \in Seq(Line)
  PROVE  jobs' = [jobs EXCEPT ![j].at = "dialog", ![j].hosts = h, ![j].pf = p]
           => Changed(j, jobs[j].kind, jobs[j].by, "dialog", h, p)
<1>0. SUFFICES ASSUME jobs' = [jobs EXCEPT ![j].at = "dialog", ![j].hosts = h, ![j].pf = p]
               PROVE  Changed(j, jobs[j].kind, jobs[j].by, "dialog", h, p)
  BY Zenon
<1> DEFINE r == [[[jobs[j] EXCEPT !.at = "dialog"] EXCEPT !.hosts = h] EXCEPT !.pf = p]
<1>1. jobs[j] \in Job
  OBVIOUS
<1>2. /\ r \in Job /\ r.kind = jobs[j].kind /\ r.by = jobs[j].by /\ r.at = "dialog"
      /\ r.hosts = h /\ r.pf = p
  BY <1>1 DEF Job
<1>3. jobs' = [jobs EXCEPT ![j] = r]
  BY <1>0
<1> HIDE DEF r
<1>4. jobs'[j] = r /\ jobs' \in [Jobs -> Job] /\ \A i \in Jobs \ {j} : jobs'[i] = jobs[i]
  BY <1>2, <1>3
<1>5. QED
  BY <1>2, <1>4, Zenon DEF Changed

\* A job's script has run.
LEMMA JobWrites ==
  ASSUME jobs \in [Jobs -> Job], NEW j \in Jobs, jobs' = [jobs EXCEPT ![j].at = "after"]
  PROVE  Changed(j, jobs[j].kind, jobs[j].by, "after", jobs[j].hosts, jobs[j].pf)
<1> DEFINE r == [jobs[j] EXCEPT !.at = "after"]
<1>1. jobs[j] \in Job
  OBVIOUS
<1>2. /\ r \in Job /\ r.kind = jobs[j].kind /\ r.by = jobs[j].by /\ r.at = "after"
      /\ r.hosts = jobs[j].hosts /\ r.pf = jobs[j].pf
  BY <1>1 DEF Job
<1>3. jobs' = [jobs EXCEPT ![j] = r]
  OBVIOUS
<1> HIDE DEF r
<1>4. jobs'[j] = r /\ jobs' \in [Jobs -> Job] /\ \A i \in Jobs \ {j} : jobs'[i] = jobs[i]
  BY <1>2, <1>3
<1>5. QED
  BY <1>2, <1>4, Zenon DEF Changed

\* A job is over, or was refused.
LEMMA JobEnds ==
  ASSUME jobs \in [Jobs -> Job], NEW j \in Jobs, jobs' = [jobs EXCEPT ![j] = Idle]
  PROVE  Changed(j, "none", "none", "none", <<>>, <<>>) /\ jobs'[j] = Idle
<1>1. <<>> \in Seq(Line)
  BY EmptySeq
<1>2. Idle \in Job /\ Idle.kind = "none" /\ Idle.by = "none" /\ Idle.at = "none" /\ Idle.hosts = <<>> /\ Idle.pf = <<>>
  BY <1>1 DEF Idle, Job
<1>3. jobs'[j] = Idle /\ jobs' \in [Jobs -> Job] /\ \A i \in Jobs \ {j} : jobs'[i] = jobs[i]
  BY <1>2
<1>4. QED
  BY <1>2, <1>3, Zenon DEF Changed

\* A job begins.
LEMMA JobBegins ==
  ASSUME jobs \in [Jobs -> Job], NEW kind \in {"enable", "disable"},
         NEW by \in {"toggle", "stop", "shell", "init", "uninstall"}, Starts(kind, by)
  PROVE  \E s \in Jobs : jobs[s].kind = "none" /\ Changed(s, kind, by, "begin", <<>>, <<>>)
<1>1. PICK s \in Jobs : jobs[s].kind = "none" /\ jobs' = [jobs EXCEPT ![s] = NewJob(kind, by)]
  BY Zenon DEF Starts
<1>2. <<>> \in Seq(Line)
  BY EmptySeq
<1> DEFINE r == NewJob(kind, by)
<1>3. r \in Job /\ r.kind = kind /\ r.by = by /\ r.at = "begin" /\ r.hosts = <<>> /\ r.pf = <<>>
  BY <1>2 DEF NewJob, Job
<1> HIDE DEF r
<1>4. jobs' = [jobs EXCEPT ![s] = r]
  BY <1>1 DEF r
<1>5. jobs'[s] = r /\ jobs' \in [Jobs -> Job] /\ \A i \in Jobs \ {s} : jobs'[i] = jobs[i]
  BY <1>3, <1>4
<1>6. Changed(s, kind, by, "begin", <<>>, <<>>)
  BY <1>3, <1>5, Zenon DEF Changed
<1>7. QED
  BY <1>1, <1>6, Zenon

\* The end of the tray's process: a job of another process goes on, one of the tray that waits
\* for the administrator goes on as an orphan, any other is gone.
LEMMA JobsOrphaned ==
  ASSUME jobs \in [Jobs -> Job], jobs' = Orphaned
  PROVE  /\ jobs' \in [Jobs -> Job]
         /\ \A j \in Jobs :
              \/ ~InTray(j) /\ jobs'[j] = jobs[j]
              \/ /\ InTray(j) /\ jobs[j].at = "dialog" /\ jobs'[j].at = "dialog" /\ jobs'[j].by = "orphan"
                 /\ jobs'[j].kind = jobs[j].kind /\ jobs'[j].hosts = jobs[j].hosts /\ jobs'[j].pf = jobs[j].pf
              \/ InTray(j) /\ jobs[j].at # "dialog" /\ jobs'[j] = Idle
<1>0. <<>> \in Seq(Line)
  BY EmptySeq
<1>1. Idle \in Job
  BY <1>0 DEF Idle, Job
<1>2. \A r \in Job : /\ [r EXCEPT !.by = "orphan"] \in Job
                     /\ [r EXCEPT !.by = "orphan"].by = "orphan"
                     /\ [r EXCEPT !.by = "orphan"].kind = r.kind /\ [r EXCEPT !.by = "orphan"].at = r.at
                     /\ [r EXCEPT !.by = "orphan"].hosts = r.hosts /\ [r EXCEPT !.by = "orphan"].pf = r.pf
  <2> SUFFICES ASSUME NEW r \in Job
               PROVE /\ [r EXCEPT !.by = "orphan"] \in Job
                     /\ [r EXCEPT !.by = "orphan"].by = "orphan"
                     /\ [r EXCEPT !.by = "orphan"].kind = r.kind /\ [r EXCEPT !.by = "orphan"].at = r.at
                     /\ [r EXCEPT !.by = "orphan"].hosts = r.hosts /\ [r EXCEPT !.by = "orphan"].pf = r.pf
    BY Zenon
  <2>1. QED
    BY DEF Job
<1>3. \A j \in Jobs : jobs'[j] = IF ~InTray(j) THEN jobs[j]
                                 ELSE IF jobs[j].at = "dialog" THEN [jobs[j] EXCEPT !.by = "orphan"] ELSE Idle
  BY Zenon DEF Orphaned
<1>4. \A j \in Jobs : jobs[j] \in Job
  OBVIOUS
<1>5. \A j \in Jobs : jobs'[j] \in Job
  BY <1>1, <1>2, <1>3, <1>4, Zenon
<1>6. jobs' = [j \in Jobs |-> jobs'[j]]
  BY DEF Orphaned
<1>7. jobs' \in [Jobs -> Job]
  BY <1>5, <1>6
<1>8. ASSUME NEW j \in Jobs
      PROVE  \/ ~InTray(j) /\ jobs'[j] = jobs[j]
             \/ /\ InTray(j) /\ jobs[j].at = "dialog" /\ jobs'[j].at = "dialog" /\ jobs'[j].by = "orphan"
                /\ jobs'[j].kind = jobs[j].kind /\ jobs'[j].hosts = jobs[j].hosts /\ jobs'[j].pf = jobs[j].pf
             \/ InTray(j) /\ jobs[j].at # "dialog" /\ jobs'[j] = Idle
  <2>1. CASE ~InTray(j)
    BY <1>3, <2>1, Zenon
  <2>2. CASE InTray(j) /\ jobs[j].at = "dialog"
    <3>1. jobs'[j] = [jobs[j] EXCEPT !.by = "orphan"] /\ jobs[j] \in Job
      BY <1>3, <1>4, <2>2, Zenon
    <3>2. QED
      BY <1>2, <2>2, <3>1, Zenon
  <2>3. CASE InTray(j) /\ jobs[j].at # "dialog"
    BY <1>3, <2>3, Zenon
  <2>4. QED
    BY <2>1, <2>2, <2>3, Zenon
<1>9. QED
  BY <1>7, <1>8, Zenon

\* stop_proxy, with what its two callers leave alone.
LEMMA StopStops ==
  ASSUME un = "none", stop_proxy, UNCHANGED <<hosts, pf, lineVars, unVars>>
  PROVE  ProxyStops
<1>1. \/ is_enabled /\ Starts("disable", "stop")
      \/ ~is_enabled /\ jobs' = jobs
  BY BeginSlot, Zenon DEF stop_proxy
<1>2. running' = FALSE /\ excuses' = excuses \cup (IF Enabling THEN {"raced"} ELSE {})
  BY DEF stop_proxy, Excuse
<1>3. UNCHANGED <<files, progress>>
  BY DEF files, progress, unVars, lineVars
<1>4. QED
  BY <1>1, <1>2, <1>3, Zenon DEF ProxyStops

\* Every step has one of these effects.
LEMMA NextEffects ==
  ASSUME TypeOK, Next PROVE Effect
<1> USE DEF routingVars, trayVars, portVars, cliVars, pidVars, caVars, unVars, lineVars, files, progress
<1>1. CASE cmd_init
  <2>1. CASE Busy /= Jobs /\ Begin("enable", "init") /\ Excuse({"shell"})
    <3>1. Starts("enable", "init")
      BY <2>1, BeginSlot, Zenon
    <3>2. un = "none" /\ excuses' = excuses \cup {"shell"} /\ UNCHANGED <<files, running, tray, progress>>
      BY <1>1, <2>1 DEF cmd_init, Command, Excuse
    <3>3. EnableByHand
      BY <3>1, <3>2, Zenon DEF EnableByHand
    <3>4. QED
      BY <3>3, Zenon DEF Effect
  <2>2. CASE UNCHANGED <<jobs, excuses>>
    <3>1. Quiet
      BY <1>1, <2>2 DEF cmd_init, Quiet
    <3>2. QED
      BY <3>1, Zenon DEF Effect
  <2>3. QED
    BY <1>1, <2>1, <2>2, Zenon DEF cmd_init
<1>2. CASE \/ cmd_reset_ca \/ delete_ca \/ generate_ca \/ CaCommandDies \/ StartBinds \/ StartExits
           \/ dashboard_stop \/ handle_http_toggle \/ fetch_config_state \/ remove_pid
  <2>1. Quiet
    BY <1>2 DEF cmd_reset_ca, delete_ca, generate_ca, CaCommandDies, StartBinds, StartExits, dashboard_stop,
                handle_http_toggle, fetch_config_state, remove_pid, Command, Clicked, Quiet
  <2>2. QED
    BY <2>1, Zenon DEF Effect
<1>3. CASE \E m \in {"http", "network", "all", None} : cmd_start(m)
  <2>1. Quiet
    BY <1>3 DEF cmd_start, Command, Quiet
  <2>2. QED
    BY <2>1, Zenon DEF Effect
<1>4. CASE \E p \in TrayPorts : TaskBinds(p) \/ TaskDropped(p)
  <2>1. Quiet
    BY <1>4 DEF TaskBinds, TaskDropped, Quiet
  <2>2. QED
    BY <2>1, Zenon DEF Effect
<1>5. CASE run_tray_mode
  <2>1. ProxyStarts
    BY <1>5 DEF run_tray_mode, start_proxy, Command, ProxyStarts
  <2>2. QED
    BY <2>1, Zenon DEF Effect
<1>6. CASE handle_start_stop
  <2>1. CASE running /\ stop_proxy
    <3>1. ProxyStops
      BY <1>6, <2>1, StopStops DEF handle_start_stop, Clicked, Command
    <3>2. QED
      BY <3>1, Zenon DEF Effect
  <2>2. CASE ~running /\ start_proxy /\ UNCHANGED <<dying, jobs, excuses>>
    <3>1. ProxyStarts
      BY <1>6, <2>2 DEF handle_start_stop, start_proxy, Clicked, Command, ProxyStarts
    <3>2. QED
      BY <3>1, Zenon DEF Effect
  <2>3. QED
    BY <1>6, <2>1, <2>2, Zenon DEF handle_start_stop
<1>7. CASE handle_quit
  <2>1. ProxyStops
    BY <1>7, StopStops DEF handle_quit, Clicked, Command
  <2>2. QED
    BY <2>1, Zenon DEF Effect
<1>8. CASE handle_network_toggle
  <2>1. un = "none" /\ running /\ UNCHANGED <<files, running, tray, excuses, progress>>
    BY <1>8 DEF handle_network_toggle, Clicked, build_menu, Command
  <2>2. Starts(IF shown THEN "disable" ELSE "enable", "toggle")
    BY <1>8, BeginSlot, Zenon DEF handle_network_toggle
  <2>3. \E kind \in {"enable", "disable"} : Starts(kind, "toggle")
    BY <2>2, Zenon
  <2>4. QED
    BY <2>1, <2>3, Zenon DEF Toggled, Effect
<1>9. CASE TrayExits
  <2>1. TrayEnds
    BY <1>9 DEF TrayExits, TrayGone, Excuse, TrayEnds, Killed
  <2>2. QED
    BY <2>1, Zenon DEF Effect
<1>10. CASE TrayCrashes
  <2>1. TrayEnds
    BY <1>10 DEF TrayCrashes, TrayGone, Excuse, TrayEnds
  <2>2. QED
    BY <2>1, Zenon DEF Effect
<1>11. CASE \E j \in Jobs : JobSteps(j) \/ JobDenied(j)
  <2>1. PICK j \in Jobs : JobSteps(j) \/ JobDenied(j)
    BY <1>11, Zenon
  <2>2. ASSUME JobSteps(j) PROVE JobMoves(j)
    <3>1. enable(j) \/ disable(j) \/ RunEnable(j) \/ RunDisable(j) \/ FollowUp(j)
      BY <2>2, Zenon DEF JobSteps
    <3>2. UNCHANGED <<lineVars, running, tray, excuses, progress>>
      BY <2>2 DEF JobSteps
    <3>3. QED
      BY <3>1, <3>2, Zenon DEF JobMoves
  <2>3. ASSUME JobDenied(j) PROVE JobRefused(j)
    BY <2>3, Zenon DEF JobDenied, JobRefused, Excuse
  <2>4. QED
    BY <2>1, <2>2, <2>3, Zenon DEF Effect
<1>12. CASE cmd_network_enable
  <2>1. Starts("enable", "shell")
    BY <1>12, BeginSlot, Zenon DEF cmd_network_enable
  <2>2. un = "none" /\ excuses' = excuses \cup {"shell"} /\ UNCHANGED <<files, running, tray, progress>>
    BY <1>12 DEF cmd_network_enable, Command, Excuse
  <2>3. QED
    BY <2>1, <2>2, Zenon DEF EnableByHand, Effect
<1>13. CASE cmd_network_disable
  <2>1. Starts("disable", "shell")
    BY <1>13, BeginSlot, Zenon DEF cmd_network_disable
  <2>2. un = "none" /\ UNCHANGED <<files, running, tray, excuses, progress>>
    BY <1>13 DEF cmd_network_disable, Command
  <2>3. QED
    BY <2>1, <2>2, Zenon DEF DisableByHand, Effect
<1>14. CASE EditHosts \/ EditPfConf
  <2>1. un = "none" /\ UNCHANGED <<jobs, running, tray, excuses, progress>>
    BY <1>14 DEF EditHosts, EditPfConf, Command
  <2>2. HostsEdited \/ PfEdited
    BY <1>14, Zenon DEF EditHosts, EditPfConf, HostsEdited, PfEdited
  <2>3. QED
    BY <2>1, <2>2, Zenon DEF Edited, Effect
<1>15. CASE cmd_stop
  <2>1. Quiet \/ TrayEnds
    BY <1>15 DEF cmd_stop, stop_process, TrayGone, Excuse, Command, TrayEnds, Quiet
  <2>2. QED
    BY <2>1, Zenon DEF Effect
<1>16. CASE cmd_uninstall
  <2>1. UninstallBegins
    BY <1>16 DEF cmd_uninstall, Command, UninstallBegins
  <2>2. QED
    BY <2>1, Zenon DEF Effect
<1>17. CASE step_stop_proxy
  <2>1. UninstallBegins \/ TrayEnds
    BY <1>17 DEF step_stop_proxy, stop_process, TrayGone, Excuse, TrayEnds, UninstallBegins
  <2>2. QED
    BY <2>1, Zenon DEF Effect
<1>18. CASE step_disable_network_proxy
  <2>1. \/ is_enabled /\ Starts("disable", "uninstall")
        \/ ~is_enabled /\ jobs' = jobs
    BY <1>18, BeginSlot, Zenon DEF step_disable_network_proxy
  <2>2. /\ un = "disable" /\ un' = "wait" /\ excuses' = excuses \cup (IF Enabling \/ tray /= "off" THEN {"raced"} ELSE {})
        /\ UNCHANGED <<files, running, tray, un_failed>>
    BY <1>18 DEF step_disable_network_proxy, Excuse
  <2>3. QED
    BY <2>1, <2>2, Zenon DEF UninstallDisables, Effect
<1>19. CASE step_unload_launch_agent
  <2>1. AgentRemoved
    BY <1>19 DEF step_unload_launch_agent, AgentRemoved
  <2>2. QED
    BY <2>1, Zenon DEF Effect
<1>20. CASE step_remove_privileged \/ step_purge_data
  <2>1. UNCHANGED <<files, jobs, running, tray, excuses>>
    BY <1>20 DEF step_remove_privileged, step_purge_data
  <2>2. CASE step_remove_privileged
    BY <2>1, <2>2, Zenon DEF step_remove_privileged, UninstallEnds, Effect
  <2>3. CASE step_purge_data
    <3>1. un = "purge" /\ un_failed' \in {un_failed, TRUE} /\ un' \in {"purge", Summary(un_failed')}
      BY <2>3, Zenon DEF step_purge_data
    <3>2. QED
      BY <2>1, <3>1, Zenon DEF UninstallEnds, Effect
  <2>4. QED
    BY <1>20, <2>2, <2>3, Zenon
<1>21. QED
  BY <1>1, <1>2, <1>3, <1>4, <1>5, <1>6, <1>7, <1>8, <1>9, <1>10, <1>11, <1>12, <1>13, <1>14, <1>15,
     <1>16, <1>17, <1>18, <1>19, <1>20, Zenon DEF Next

-----------------------------------------------------------------------------
(* Type correctness *)

ProcessTypes ==
  /\ tray \in {"off", "on", "quitting"} /\ cli \in {"off", "starting", "up"}
  /\ running \in BOOLEAN /\ http_on \in BOOLEAN /\ shown \in BOOLEAN
  /\ owner \in [Ports -> {"tray", "cli", None}]
  /\ pending \subseteq TrayPorts /\ dying \subseteq TrayPorts /\ cli_ports \subseteq Ports
  /\ cfg_net \in BOOLEAN /\ pid \in {"tray", "cli", None} /\ stopping \in BOOLEAN
  /\ commands \in Nat /\ crashes \in Nat

CaTypes ==
  /\ gens \in Nat /\ ca_cert \in Empty..gens /\ ca_key \in Empty..gens
  /\ ca_op \in {"idle", "del_cert", "del_key", "cert", "fill_cert", "key", "fill_key"}

RoutingTypes ==
  /\ un \in {"none", "stop", "agent", "disable", "wait", "purge", "done", "failed"}
  /\ un_failed \in BOOLEAN /\ excuses \subseteq {"raced", "denied", "killed", "shell"}
  /\ hosts \in Seq(Line) /\ pf \in Seq(Line) /\ jobs \in [Jobs -> Job]
  /\ theirs \in Seq(Line) /\ safe \in Seq(Line) /\ their_pf \in Seq(Line) /\ safe_pf \in Seq(Line)

KernelTypes == rules \in BOOLEAN /\ node_ca \in BOOLEAN /\ backup \in {"none", "clean", "tagged"}

\* The type invariant in four parts.
LEMMA TypeParts == TypeOK <=> ProcessTypes /\ CaTypes /\ RoutingTypes /\ KernelTypes
  BY Zenon DEF TypeOK, ProcessTypes, CaTypes, RoutingTypes, KernelTypes

\* Aborted tasks, and the ports of a process that ends.
LEMMA PortTypes ==
  ASSUME owner \in [Ports -> {"tray", "cli", None}], pending \subseteq TrayPorts, dying \subseteq TrayPorts
  PROVE  /\ \A S \in SUBSET TrayPorts : Abort(S) => pending' \subseteq TrayPorts /\ dying' \subseteq TrayPorts
         /\ \A q : FreePorts(q) \in [Ports -> {"tray", "cli", None}]
<1>1. ASSUME NEW S \in SUBSET TrayPorts, Abort(S) PROVE pending' \subseteq TrayPorts /\ dying' \subseteq TrayPorts
  BY <1>1 DEF Abort
<1>2. \A q : FreePorts(q) \in [Ports -> {"tray", "cli", None}]
  BY DEF FreePorts
<1>3. QED
  BY <1>1, <1>2, Zenon

\* stop_proxy and the end of the tray leave their variables well typed.
LEMMA TrayTypes ==
  ASSUME ProcessTypes
  PROVE  /\ stop_proxy => /\ running' \in BOOLEAN /\ http_on' \in BOOLEAN
                          /\ pending' \subseteq TrayPorts /\ dying' \subseteq TrayPorts
         /\ TrayGone => /\ tray' \in {"off", "on", "quitting"}
                        /\ running' \in BOOLEAN /\ http_on' \in BOOLEAN /\ shown' \in BOOLEAN
                        /\ owner' \in [Ports -> {"tray", "cli", None}]
                        /\ pending' \subseteq TrayPorts /\ dying' \subseteq TrayPorts
<1>0. owner \in [Ports -> {"tray", "cli", None}] /\ pending \subseteq TrayPorts /\ dying \subseteq TrayPorts
  BY Zenon DEF ProcessTypes
<1>1. ASSUME stop_proxy
      PROVE  /\ running' \in BOOLEAN /\ http_on' \in BOOLEAN
             /\ pending' \subseteq TrayPorts /\ dying' \subseteq TrayPorts
  <2>1. running' \in BOOLEAN /\ http_on' \in BOOLEAN /\ Abort(TrayPorts)
    BY <1>1, Zenon DEF stop_proxy
  <2>2. TrayPorts \in SUBSET TrayPorts
    BY Zenon
  <2>3. QED
    BY <1>0, <2>1, <2>2, PortTypes, Zenon
<1>2. ASSUME TrayGone
      PROVE  /\ tray' \in {"off", "on", "quitting"}
             /\ running' \in BOOLEAN /\ http_on' \in BOOLEAN /\ shown' \in BOOLEAN
             /\ owner' \in [Ports -> {"tray", "cli", None}]
             /\ pending' \subseteq TrayPorts /\ dying' \subseteq TrayPorts
  <2>1. tray' = "off" /\ running' = FALSE /\ http_on' = FALSE /\ shown' = FALSE
    BY <1>2, Zenon DEF TrayGone
  <2>2. owner' = FreePorts("tray") /\ pending' = {} /\ dying' = {}
    BY <1>2, Zenon DEF TrayGone
  <2>3. owner' \in [Ports -> {"tray", "cli", None}]
    BY <1>0, <2>2, PortTypes, Zenon
  <2>4. pending' \subseteq TrayPorts /\ dying' \subseteq TrayPorts
    BY <2>2
  <2>5. QED
    BY <2>1, <2>3, <2>4, Zenon
<1>3. QED
  BY <1>1, <1>2, Zenon

\* The processes, ports and the PID file keep their types.
LEMMA ProcessTypesStep ==
  ASSUME ProcessTypes, TypeOK, Next PROVE ProcessTypes'
<1> USE DEF ProcessTypes, Ports, TrayPorts, routingVars, trayVars, portVars, cliVars, pidVars, caVars, unVars, lineVars
<1>1. CASE cmd_init
  BY <1>1 DEF cmd_init, Command
<1>2. CASE cmd_reset_ca
  BY <1>2 DEF cmd_reset_ca, Command
<1>3. CASE delete_ca
  BY <1>3 DEF delete_ca
<1>4. CASE generate_ca
  BY <1>4 DEF generate_ca
<1>5. CASE CaCommandDies
  BY <1>5 DEF CaCommandDies
<1>6. ASSUME NEW m \in {"http", "network", "all", None}, cmd_start(m) PROVE ProcessTypes'
  BY <1>6 DEF cmd_start, PortsOf, Command
<1>7. CASE StartBinds
  BY <1>7 DEF StartBinds
<1>8. CASE StartExits
  BY <1>8 DEF StartExits, FreePorts, Command
<1>9. CASE dashboard_stop
  BY <1>9 DEF dashboard_stop, FreePorts, Command
<1>10. CASE run_tray_mode
  <2>1. is_enabled \in BOOLEAN
    BY DEF is_enabled, has_privacyclaw_entries
  <2>2. tray' = "on" /\ pid' = "tray" /\ shown' = is_enabled /\ commands' = commands + 1
    BY <1>10 DEF run_tray_mode, Command
  <2>3. owner' = [owner EXCEPT !["dash"] = IF @ = None THEN "tray" ELSE @]
    BY <1>10 DEF run_tray_mode
  <2>4. running' = TRUE /\ http_on' = TRUE /\ pending' = TrayPorts
    BY <1>10 DEF run_tray_mode, start_proxy
  <2>5. UNCHANGED <<dying, cli, cli_ports, cfg_net, stopping, crashes>>
    BY <1>10 DEF run_tray_mode, Command
  <2>6. owner' \in [Ports -> {"tray", "cli", None}]
    BY <2>3
  <2>7. QED
    BY <2>1, <2>2, <2>4, <2>5, <2>6
<1>11. CASE handle_start_stop
  <2>1. UNCHANGED <<tray, shown, owner, cli, cli_ports, cfg_net, pid, stopping, crashes>> /\ commands' = commands + 1
    BY <1>11 DEF handle_start_stop, Clicked, Command
  <2>2. CASE stop_proxy
    <3>1. /\ running' \in BOOLEAN /\ http_on' \in BOOLEAN
          /\ pending' \subseteq TrayPorts /\ dying' \subseteq TrayPorts
      BY <2>2, TrayTypes, Zenon
    <3>2. commands' \in Nat
      BY <2>1
    <3>3. QED
      BY <2>1, <3>1, <3>2, Zenon
  <2>3. CASE start_proxy /\ UNCHANGED dying
    BY <2>1, <2>3 DEF start_proxy
  <2>4. QED
    BY <1>11, <2>2, <2>3 DEF handle_start_stop
<1>12. CASE handle_http_toggle
  <2>1. UNCHANGED <<tray, running, shown, owner, cli, cli_ports, cfg_net, pid, stopping, crashes>> /\ commands' = commands + 1
    BY <1>12 DEF handle_http_toggle, Clicked, Command
  <2>2. http_on' \in BOOLEAN
    BY <1>12, Zenon DEF handle_http_toggle
  <2>3. pending' \subseteq TrayPorts /\ dying' \subseteq TrayPorts
    <3>1. CASE Abort({"http"})
      BY <3>1 DEF Abort
    <3>2. CASE pending' = pending \cup {"http"} /\ dying' = dying
      BY <3>2
    <3>3. QED
      BY <1>12, <3>1, <3>2, Zenon DEF handle_http_toggle
  <2>4. commands' \in Nat
    BY <2>1
  <2>5. QED
    BY <2>1, <2>2, <2>3, <2>4, Zenon
<1>13. CASE handle_network_toggle
  BY <1>13 DEF handle_network_toggle, Clicked, Command
<1>14. CASE fetch_config_state
  BY <1>14 DEF fetch_config_state
<1>15. CASE handle_quit
  <2>1. /\ UNCHANGED <<shown, owner, cli, cli_ports, cfg_net, pid, stopping, crashes>>
        /\ commands' = commands + 1 /\ tray' = "quitting"
    BY <1>15 DEF handle_quit, Clicked, Command
  <2>2. stop_proxy
    BY <1>15, Zenon DEF handle_quit
  <2>3. /\ running' \in BOOLEAN /\ http_on' \in BOOLEAN
        /\ pending' \subseteq TrayPorts /\ dying' \subseteq TrayPorts
    BY <2>2, TrayTypes, Zenon
  <2>4. commands' \in Nat /\ tray' \in {"off", "on", "quitting"}
    BY <2>1
  <2>5. QED
    BY <2>1, <2>3, <2>4, Zenon
<1>16. CASE TrayExits
  BY <1>16 DEF TrayExits, TrayGone, FreePorts
<1>17. CASE TrayCrashes
  <2>1. /\ UNCHANGED <<cli, cli_ports, cfg_net, pid, stopping, commands>>
        /\ crashes' = crashes + 1
    BY <1>17 DEF TrayCrashes
  <2>2. TrayGone
    BY <1>17, Zenon DEF TrayCrashes
  <2>3. crashes' \in Nat
    BY <2>1
  <2>4. QED
    BY <2>1, <2>2, <2>3, TrayTypes, Zenon
<1>18. ASSUME NEW p \in TrayPorts, TaskBinds(p) PROVE ProcessTypes'
  BY <1>18 DEF TaskBinds
<1>19. ASSUME NEW p \in TrayPorts, TaskDropped(p) PROVE ProcessTypes'
  BY <1>19 DEF TaskDropped
<1>20. ASSUME NEW j \in Jobs, JobSteps(j) PROVE ProcessTypes'
  BY <1>20 DEF JobSteps
<1>21. ASSUME NEW j \in Jobs, JobDenied(j) PROVE ProcessTypes'
  BY <1>21 DEF JobDenied
<1>22. CASE cmd_network_enable
  BY <1>22 DEF cmd_network_enable, Command
<1>23. CASE cmd_network_disable
  BY <1>23 DEF cmd_network_disable, Command
<1>24. CASE EditHosts
  BY <1>24 DEF EditHosts, Command
<1>25. CASE cmd_stop
  <2>1. UNCHANGED <<cli_ports, cfg_net, pid, crashes>> /\ commands' = commands + 1 /\ stopping' = TRUE
    BY <1>25 DEF cmd_stop, Command
  <2>2. CASE TrayGone /\ cli' = cli
    <3>1. commands' \in Nat /\ stopping' \in BOOLEAN
      BY <2>1
    <3>2. QED
      BY <2>1, <2>2, <3>1, TrayTypes, Zenon
  <2>3. CASE cli' = "off" /\ owner' = FreePorts("cli") /\ UNCHANGED <<trayVars, pending, dying>>
    BY <2>1, <2>3 DEF FreePorts
  <2>4. CASE UNCHANGED <<trayVars, portVars, cli>>
    BY <2>1, <2>4
  <2>5. QED
    BY <1>25, <2>2, <2>3, <2>4 DEF cmd_stop, stop_process
<1>26. CASE remove_pid
  BY <1>26 DEF remove_pid
<1>27. CASE cmd_uninstall
  BY <1>27 DEF cmd_uninstall, Command
<1>28. CASE step_stop_proxy
  BY <1>28 DEF step_stop_proxy, stop_process, TrayGone, FreePorts
<1>29. CASE step_disable_network_proxy
  BY <1>29 DEF step_disable_network_proxy
<1>30. CASE EditPfConf
  BY <1>30 DEF EditPfConf, Command
<1>31. CASE step_unload_launch_agent
  BY <1>31 DEF step_unload_launch_agent
<1>32. CASE step_remove_privileged
  BY <1>32 DEF step_remove_privileged
<1>33. CASE step_purge_data
  <2>1. cfg_net' \in {FALSE, cfg_net} /\ pid' \in {None, pid}
    BY <1>33, Zenon DEF step_purge_data
  <2>2. UNCHANGED <<trayVars, portVars, cliVars, stopping, commands, crashes>>
    BY <1>33, Zenon DEF step_purge_data
  <2>3. QED
    BY <2>1, <2>2
<1>34. QED
  BY <1>1, <1>2, <1>3, <1>4, <1>5, <1>6, <1>7, <1>8, <1>9, <1>10, <1>11, <1>12, <1>13, <1>14, <1>15,
     <1>16, <1>17, <1>18, <1>19, <1>20, <1>21, <1>22, <1>23, <1>24, <1>25, <1>26, <1>27, <1>28,
     <1>29, <1>30, <1>31, <1>32, <1>33, Zenon DEF Next

\* The CA's files keep their types.
LEMMA CaTypesStep ==
  ASSUME CaTypes, Next PROVE CaTypes'
<1> USE DEF CaTypes, Empty, routingVars, trayVars, portVars, cliVars, pidVars, caVars, unVars, lineVars
<1>1. CASE cmd_init
  BY <1>1 DEF cmd_init, Command
<1>2. CASE cmd_reset_ca
  BY <1>2 DEF cmd_reset_ca, Command
<1>3. CASE delete_ca
  BY <1>3 DEF delete_ca
<1>4. CASE generate_ca
  BY <1>4 DEF generate_ca
<1>5. CASE CaCommandDies
  BY <1>5 DEF CaCommandDies
<1>6. ASSUME NEW m \in {"http", "network", "all", None}, cmd_start(m) PROVE CaTypes'
  BY <1>6 DEF cmd_start, PortsOf, Command
<1>7. CASE StartBinds
  BY <1>7 DEF StartBinds
<1>8. CASE StartExits
  BY <1>8 DEF StartExits, FreePorts, Command
<1>9. CASE dashboard_stop
  BY <1>9 DEF dashboard_stop, FreePorts, Command
<1>10. CASE run_tray_mode
  BY <1>10 DEF run_tray_mode, start_proxy, Command
<1>11. CASE handle_start_stop
  BY <1>11 DEF handle_start_stop, Clicked, stop_proxy, start_proxy, Abort, Excuse, Command
<1>12. CASE handle_http_toggle
  BY <1>12 DEF handle_http_toggle, Clicked, Abort, Command
<1>13. CASE handle_network_toggle
  BY <1>13 DEF handle_network_toggle, Clicked, Command
<1>14. CASE fetch_config_state
  BY <1>14 DEF fetch_config_state
<1>15. CASE handle_quit
  BY <1>15 DEF handle_quit, Clicked, stop_proxy, Abort, Excuse, Command
<1>16. CASE TrayExits
  BY <1>16 DEF TrayExits, TrayGone, FreePorts
<1>17. CASE TrayCrashes
  BY <1>17 DEF TrayCrashes, TrayGone, FreePorts
<1>18. ASSUME NEW p \in TrayPorts, TaskBinds(p) PROVE CaTypes'
  BY <1>18 DEF TaskBinds
<1>19. ASSUME NEW p \in TrayPorts, TaskDropped(p) PROVE CaTypes'
  BY <1>19 DEF TaskDropped
<1>20. ASSUME NEW j \in Jobs, JobSteps(j) PROVE CaTypes'
  BY <1>20 DEF JobSteps
<1>21. ASSUME NEW j \in Jobs, JobDenied(j) PROVE CaTypes'
  BY <1>21 DEF JobDenied
<1>22. CASE cmd_network_enable
  BY <1>22 DEF cmd_network_enable, Command
<1>23. CASE cmd_network_disable
  BY <1>23 DEF cmd_network_disable, Command
<1>24. CASE EditHosts
  BY <1>24 DEF EditHosts, Command
<1>25. CASE cmd_stop
  BY <1>25 DEF cmd_stop, stop_process, TrayGone, FreePorts, Command
<1>26. CASE remove_pid
  BY <1>26 DEF remove_pid
<1>27. CASE cmd_uninstall
  BY <1>27 DEF cmd_uninstall, Command
<1>28. CASE step_stop_proxy
  BY <1>28 DEF step_stop_proxy, stop_process, TrayGone, FreePorts
<1>29. CASE step_disable_network_proxy
  BY <1>29 DEF step_disable_network_proxy
<1>30. CASE EditPfConf
  BY <1>30 DEF EditPfConf, Command
<1>31. CASE step_unload_launch_agent
  BY <1>31 DEF step_unload_launch_agent
<1>32. CASE step_remove_privileged
  BY <1>32 DEF step_remove_privileged
<1>33. CASE step_purge_data
  <2>1. ca_cert' \in {0, ca_cert} /\ ca_key' \in {0, ca_key}
    BY <1>33, Zenon DEF step_purge_data
  <2>2. UNCHANGED <<ca_op, gens>>
    BY <1>33, Zenon DEF step_purge_data
  <2>3. QED
    BY <2>1, <2>2
<1>34. QED
  BY <1>1, <1>2, <1>3, <1>4, <1>5, <1>6, <1>7, <1>8, <1>9, <1>10, <1>11, <1>12, <1>13, <1>14, <1>15,
     <1>16, <1>17, <1>18, <1>19, <1>20, <1>21, <1>22, <1>23, <1>24, <1>25, <1>26, <1>27, <1>28,
     <1>29, <1>30, <1>31, <1>32, <1>33, Zenon DEF Next

\* What the kernel, launchd and the backups hold keeps its type.
LEMMA KernelTypesStep ==
  ASSUME KernelTypes, Next PROVE KernelTypes'
<1> USE DEF KernelTypes, routingVars, trayVars, portVars, cliVars, pidVars, caVars, unVars, lineVars
<1>1. CASE cmd_init
  BY <1>1 DEF cmd_init, Command
<1>2. CASE cmd_reset_ca
  BY <1>2 DEF cmd_reset_ca, Command
<1>3. CASE delete_ca
  BY <1>3 DEF delete_ca
<1>4. CASE generate_ca
  BY <1>4 DEF generate_ca
<1>5. CASE CaCommandDies
  BY <1>5 DEF CaCommandDies
<1>6. ASSUME NEW m \in {"http", "network", "all", None}, cmd_start(m) PROVE KernelTypes'
  BY <1>6 DEF cmd_start, PortsOf, Command
<1>7. CASE StartBinds
  BY <1>7 DEF StartBinds
<1>8. CASE StartExits
  BY <1>8 DEF StartExits, FreePorts, Command
<1>9. CASE dashboard_stop
  BY <1>9 DEF dashboard_stop, FreePorts, Command
<1>10. CASE run_tray_mode
  BY <1>10 DEF run_tray_mode, start_proxy, Command
<1>11. CASE handle_start_stop
  BY <1>11 DEF handle_start_stop, Clicked, stop_proxy, start_proxy, Abort, Excuse, Command
<1>12. CASE handle_http_toggle
  BY <1>12 DEF handle_http_toggle, Clicked, Abort, Command
<1>13. CASE handle_network_toggle
  BY <1>13 DEF handle_network_toggle, Clicked, Command
<1>14. CASE fetch_config_state
  BY <1>14 DEF fetch_config_state
<1>15. CASE handle_quit
  BY <1>15 DEF handle_quit, Clicked, stop_proxy, Abort, Excuse, Command
<1>16. CASE TrayExits
  BY <1>16 DEF TrayExits, TrayGone, FreePorts
<1>17. CASE TrayCrashes
  BY <1>17 DEF TrayCrashes, TrayGone, FreePorts
<1>18. ASSUME NEW p \in TrayPorts, TaskBinds(p) PROVE KernelTypes'
  BY <1>18 DEF TaskBinds
<1>19. ASSUME NEW p \in TrayPorts, TaskDropped(p) PROVE KernelTypes'
  BY <1>19 DEF TaskDropped
<1>20. ASSUME NEW j \in Jobs, JobSteps(j) PROVE KernelTypes'
  BY <1>20 DEF JobSteps, enable, disable, RunEnable, RunDisable, FollowUp
<1>21. ASSUME NEW j \in Jobs, JobDenied(j) PROVE KernelTypes'
  BY <1>21 DEF JobDenied, Deny
<1>22. CASE cmd_network_enable
  BY <1>22 DEF cmd_network_enable, Command
<1>23. CASE cmd_network_disable
  BY <1>23 DEF cmd_network_disable, Command
<1>24. CASE EditHosts
  BY <1>24 DEF EditHosts, Command
<1>25. CASE cmd_stop
  BY <1>25 DEF cmd_stop, stop_process, TrayGone, FreePorts, Command
<1>26. CASE remove_pid
  BY <1>26 DEF remove_pid
<1>27. CASE cmd_uninstall
  BY <1>27 DEF cmd_uninstall, Command
<1>28. CASE step_stop_proxy
  BY <1>28 DEF step_stop_proxy, stop_process, TrayGone, FreePorts
<1>29. CASE step_disable_network_proxy
  BY <1>29 DEF step_disable_network_proxy
<1>30. CASE EditPfConf
  BY <1>30 DEF EditPfConf, Command
<1>31. CASE step_unload_launch_agent
  BY <1>31 DEF step_unload_launch_agent
<1>32. CASE step_remove_privileged
  BY <1>32 DEF step_remove_privileged
<1>33. CASE step_purge_data
  <2>1. backup' \in {"none", backup} /\ UNCHANGED <<rules, node_ca>>
    BY <1>33, Zenon DEF step_purge_data
  <2>2. QED
    BY <2>1
<1>34. QED
  BY <1>1, <1>2, <1>3, <1>4, <1>5, <1>6, <1>7, <1>8, <1>9, <1>10, <1>11, <1>12, <1>13, <1>14, <1>15,
     <1>16, <1>17, <1>18, <1>19, <1>20, <1>21, <1>22, <1>23, <1>24, <1>25, <1>26, <1>27, <1>28,
     <1>29, <1>30, <1>31, <1>32, <1>33, Zenon DEF Next

\* The line that other programs add is not privacyclaw's.
LEMMA EditLineType == EditLine \in Line /\ ~EditLine.tagged
<1>1. \A t \in Text : [tagged |-> FALSE, text |-> t, filter |-> FALSE] \in Line
  BY DEF Line
<1>2. EditLine \in Line
  BY <1>1, FixedTexts, Zenon DEF EditLine
<1>3. ~EditLine.tagged
  BY Zenon DEF EditLine
<1>4. QED
  BY <1>2, <1>3, Zenon

\* The files, the jobs, what they excuse and the uninstaller keep their types.
LEMMA RoutingTypesStep ==
  ASSUME RoutingTypes, Effect PROVE RoutingTypes'
<1> USE DEF files, progress, lineVars
<1>0. /\ jobs \in [Jobs -> Job] /\ hosts \in Seq(Line) /\ pf \in Seq(Line) 
      /\ theirs \in Seq(Line) /\ safe \in Seq(Line) /\ their_pf \in Seq(Line) /\ safe_pf \in Seq(Line)
      /\ excuses \subseteq {"raced", "denied", "killed", "shell"} /\ un_failed \in BOOLEAN
      /\ un \in {"none", "stop", "agent", "disable", "wait", "purge", "done", "failed"}
  BY Zenon DEF RoutingTypes
<1>1. ASSUME UNCHANGED <<files, un_failed>>, jobs' \in [Jobs -> Job],
             excuses' \subseteq {"raced", "denied", "killed", "shell"},
             un' \in {"none", "stop", "agent", "disable", "wait", "purge", "done", "failed"}
      PROVE  RoutingTypes'
  BY <1>0, <1>1 DEF RoutingTypes
<1>2. ASSUME NEW kind \in {"enable", "disable"}, NEW by \in {"toggle", "stop", "shell", "init", "uninstall"},
             Starts(kind, by)
      PROVE  jobs' \in [Jobs -> Job]
  BY <1>0, <1>2, JobBegins, Zenon DEF Changed
<1>3. CASE Quiet
  BY <1>0, <1>3 DEF Quiet, RoutingTypes
<1>4. CASE EnableByHand
  <2>1. jobs' \in [Jobs -> Job]
    BY <1>2, <1>4, Zenon DEF EnableByHand
  <2>2. QED
    BY <1>0, <1>1, <1>4, <2>1 DEF EnableByHand
<1>5. CASE ProxyStarts
  BY <1>0, <1>5 DEF ProxyStarts, RoutingTypes
<1>6. CASE ProxyStops
  <2>1. jobs' \in [Jobs -> Job]
    BY <1>0, <1>2, <1>6, Zenon DEF ProxyStops
  <2>2. excuses' \subseteq {"raced", "denied", "killed", "shell"} /\ UNCHANGED <<files, progress>>
    BY <1>0, <1>6 DEF ProxyStops
  <2>3. QED
    BY <1>0, <1>1, <2>1, <2>2
<1>7. CASE Toggled
  <2>1. jobs' \in [Jobs -> Job]
    BY <1>2, <1>7, Zenon DEF Toggled
  <2>2. QED
    BY <1>0, <1>1, <1>7, <2>1 DEF Toggled
<1>8. CASE TrayEnds
  <2>1. jobs' \in [Jobs -> Job]
    BY <1>0, <1>8, JobsOrphaned, Zenon DEF TrayEnds
  <2>2. /\ UNCHANGED <<files, un_failed>> /\ excuses' \subseteq {"raced", "denied", "killed", "shell"}
        /\ un' = un \/ un' = "agent"
    BY <1>0, <1>8 DEF TrayEnds, Killed
  <2>3. QED
    BY <1>0, <1>1, <2>1, <2>2
<1>9. ASSUME NEW j \in Jobs, JobMoves(j) PROVE RoutingTypes'
  <2>1. UNCHANGED <<lineVars, excuses, un, un_failed>>
    BY <1>9 DEF JobMoves
  <2>0. jobs[j] \in Job /\ jobs[j].hosts \in Seq(Line) /\ jobs[j].pf \in Seq(Line)
    BY <1>0 DEF Job
  <2>2. ASSUME enable(j) PROVE jobs' \in [Jobs -> Job] /\ UNCHANGED <<hosts, pf>>
    <3>1. build_hosts_entries(Domains, hosts) \in Seq(Line) /\ insert_pf_conf_include(pf) \in Seq(Line)
      BY <1>0, EntriesFacts, InsertFacts, Zenon
    <3>2. QED
      BY <1>0, <2>2, <3>1, JobReads, Zenon DEF enable, Changed
  <2>3. ASSUME disable(j) PROVE jobs' \in [Jobs -> Job] /\ UNCHANGED <<hosts, pf>>
    <3>1. remove_privacyclaw_lines(hosts) \in Seq(Line) /\ remove_privacyclaw_lines(pf) \in Seq(Line)
      BY <1>0, ForeignType, Zenon DEF remove_privacyclaw_lines
    <3>2. QED
      BY <1>0, <2>3, <3>1, JobReads, Zenon DEF disable, Changed
  <2>4. ASSUME RunEnable(j) PROVE jobs' \in [Jobs -> Job] /\ hosts' \in Seq(Line) /\ pf' \in Seq(Line)
    <3>1. printf(jobs[j].pf) \in Seq(Line)
      BY <2>0, PrintfFacts, Zenon
    <3>2. hosts' = hosts \o printf(jobs[j].hosts) /\ (pf' = printf(jobs[j].pf) \/ pf' = pf)
      BY <2>4, Zenon DEF RunEnable
    <3>3. hosts \o printf(jobs[j].hosts) \in Seq(Line)
      BY <1>0, <2>0, PrintfFacts, ConcatProperties, Zenon
    <3>4. jobs' \in [Jobs -> Job]
      BY <1>0, <2>4, JobWrites, Zenon DEF RunEnable, Changed
    <3>5. QED
      BY <1>0, <3>1, <3>2, <3>3, <3>4, Zenon
  <2>5. ASSUME RunDisable(j) PROVE jobs' \in [Jobs -> Job] /\ hosts' \in Seq(Line) /\ pf' \in Seq(Line)
    <3>1. printf(jobs[j].pf) \in Seq(Line) /\ printf(jobs[j].hosts) \in Seq(Line)
      BY <2>0, PrintfFacts, Zenon
    <3>2. jobs' \in [Jobs -> Job]
      BY <1>0, <2>5, JobWrites, Zenon DEF RunDisable, Changed
    <3>3. QED
      BY <1>0, <2>5, <3>1, <3>2, Zenon DEF RunDisable
  <2>6. ASSUME FollowUp(j) PROVE jobs' \in [Jobs -> Job] /\ UNCHANGED <<hosts, pf>>
    BY <1>0, <2>6, JobEnds, Zenon DEF FollowUp, Changed
  <2>7. jobs' \in [Jobs -> Job] /\ hosts' \in Seq(Line) /\ pf' \in Seq(Line)
    BY <1>0, <1>9, <2>2, <2>3, <2>4, <2>5, <2>6, Zenon DEF JobMoves
  <2>8. QED
    BY <1>0, <2>1, <2>7, Zenon DEF RoutingTypes
<1>10. ASSUME NEW j \in Jobs, JobRefused(j) PROVE RoutingTypes'
  <2>1. jobs' \in [Jobs -> Job]
    BY <1>0, <1>10, JobEnds, Zenon DEF JobRefused, Deny, Changed
  <2>2. UNCHANGED <<files, un>> /\ excuses' \subseteq {"raced", "denied", "killed", "shell"}
    BY <1>0, <1>10 DEF JobRefused, Deny
  <2>3. un_failed' \in BOOLEAN
    BY <1>10, Zenon DEF JobRefused
  <2>4. QED
    BY <1>0, <2>1, <2>2, <2>3, Zenon DEF RoutingTypes
<1>11. CASE DisableByHand
  <2>1. jobs' \in [Jobs -> Job]
    BY <1>2, <1>11, Zenon DEF DisableByHand
  <2>2. QED
    BY <1>0, <1>1, <1>11, <2>1 DEF DisableByHand
<1>12. CASE Edited
  <2>1. UNCHANGED <<jobs, excuses, un, un_failed>> /\ (HostsEdited \/ PfEdited)
    BY <1>12 DEF Edited
  <2>2. \A file \in Seq(Line) : Append(file, EditLine) \in Seq(Line)
    BY EditLineType
  <2>3. files' \in Seq(Line) \X Seq(Line) \X Seq(Line) \X Seq(Line) \X Seq(Line) \X Seq(Line)
    BY <1>0, <2>1, <2>2 DEF HostsEdited, PfEdited
  <2>4. QED
    BY <1>0, <2>1, <2>3 DEF RoutingTypes
<1>13. CASE UninstallBegins
  <2>1. UNCHANGED <<files, jobs, excuses, un_failed>> /\ un' \in {"stop", "agent"}
    BY <1>13 DEF UninstallBegins
  <2>2. QED
    BY <1>0, <1>1, <2>1
<1>14. CASE UninstallDisables
  <2>1. jobs' \in [Jobs -> Job]
    BY <1>0, <1>2, <1>14, Zenon DEF UninstallDisables
  <2>2. /\ excuses' \subseteq {"raced", "denied", "killed", "shell"} /\ un' = "wait"
        /\ UNCHANGED <<files, un_failed>>
    BY <1>0, <1>14 DEF UninstallDisables
  <2>3. QED
    BY <1>0, <1>1, <2>1, <2>2
<1>15. CASE UninstallEnds
  <2>1. un_failed' \in BOOLEAN /\ un' \in {"purge", "failed", "done"}
    BY <1>0, <1>15, Zenon DEF UninstallEnds, Summary
  <2>2. UNCHANGED <<files, jobs, excuses>>
    BY <1>15 DEF UninstallEnds
  <2>3. QED
    BY <1>0, <2>1, <2>2 DEF RoutingTypes
<1>16. CASE AgentRemoved
  <2>1. un_failed' \in BOOLEAN /\ un' = "disable"
    BY <1>0, <1>16, Zenon DEF AgentRemoved
  <2>2. UNCHANGED <<files, jobs, excuses>>
    BY <1>16 DEF AgentRemoved
  <2>3. QED
    BY <1>0, <2>1, <2>2 DEF RoutingTypes
<1>17. QED
  BY <1>3, <1>4, <1>5, <1>6, <1>7, <1>8, <1>9, <1>10, <1>11, <1>12, <1>13, <1>14, <1>15, <1>16, Zenon DEF Effect

\* The type invariant of the service is inductive: every value of the state has its type, the
\* files and what the jobs are about to write are sequences of lines.
THEOREM TypeCorrect == Spec => []TypeOK
<1>1. Init => TypeOK
  <2> SUFFICES ASSUME Init PROVE TypeOK
    OBVIOUS
  <2>1. ProcessTypes
    BY DEF Init, ProcessTypes, Ports, TrayPorts
  <2>2. CaTypes
    BY DEF Init, CaTypes, Empty
  <2>3. KernelTypes
    BY DEF Init, RoutingInit, KernelTypes
  <2>4. RoutingTypes
    <3>1. Foreign(HostsFile) \in Seq(Line) /\ Foreign(PfConf) \in Seq(Line)
      BY FileAssumption, ForeignType, Zenon
    <3>2. <<>> \in Seq(Line)
      BY EmptySeq
    <3>3. Idle \in Job
      BY <3>2 DEF Idle, Job
    <3>4. jobs \in [Jobs -> Job]
      BY <3>3 DEF Init, RoutingInit
    <3>5. QED
      BY <3>1, <3>4, FileAssumption DEF Init, RoutingInit, RoutingTypes
  <2>5. QED
    BY <2>1, <2>2, <2>3, <2>4, TypeParts, Zenon
<1>2. TypeOK /\ [Next]_vars => TypeOK'
  <2> SUFFICES ASSUME TypeOK, [Next]_vars PROVE TypeOK'
    OBVIOUS
  <2>0. ProcessTypes /\ CaTypes /\ RoutingTypes /\ KernelTypes
    BY TypeParts, Zenon
  <2>1. CASE Next
    <3>1. Effect
      BY <2>1, NextEffects, Zenon
    <3>2. ProcessTypes' /\ CaTypes' /\ KernelTypes' /\ RoutingTypes'
      BY <2>0, <2>1, <3>1, ProcessTypesStep, CaTypesStep, KernelTypesStep, RoutingTypesStep, Zenon
    <3>3. QED
      BY <3>2, Zenon DEF TypeOK, ProcessTypes, CaTypes, RoutingTypes, KernelTypes
  <2>2. CASE UNCHANGED vars
    BY <2>2 DEF TypeOK, vars, routingVars, trayVars, portVars, cliVars, pidVars, caVars, unVars, lineVars
  <2>3. QED
    BY <2>1, <2>2
<1>3. QED
  BY <1>1, <1>2, PTL DEF Spec
-----------------------------------------------------------------------------
(* Jobs, one step at a time *)

\* A job that begins, and jobs that stay as they are.
Began(kind, by) == \E s \in Jobs : jobs[s].kind = "none" /\ Changed(s, kind, by, "begin", <<>>, <<>>)

\* What a step of a job does to the jobs and the files.
Reads(j)  == /\ jobs[j].at = "begin" /\ hosts' = hosts /\ pf' = pf
             /\ \/ /\ jobs[j].kind = "enable"
                   /\ Changed(j, "enable", jobs[j].by, "dialog", build_hosts_entries(Domains, hosts),
                              insert_pf_conf_include(pf))
                \/ /\ jobs[j].kind = "disable"
                   /\ Changed(j, "disable", jobs[j].by, "dialog", Foreign(hosts), Foreign(pf))
Writes(j) == /\ jobs[j].at = "dialog"
             /\ Changed(j, jobs[j].kind, jobs[j].by, "after", jobs[j].hosts, jobs[j].pf)
             /\ \/ /\ jobs[j].kind = "enable" /\ hosts' = hosts \o printf(jobs[j].hosts)
                \/ jobs[j].kind = "disable" /\ hosts' = printf(jobs[j].hosts)
             /\ pf' = printf(jobs[j].pf) \/ pf' = pf
Ends(j)   == /\ Changed(j, "none", "none", "none", <<>>, <<>>) /\ jobs'[j] = Idle
             /\ hosts' = hosts /\ pf' = pf

\* A job's step reads, writes or ends it.
LEMMA MovesView ==
  ASSUME RoutingTypes, NEW j \in Jobs
  PROVE  /\ JobMoves(j) => Reads(j) \/ Writes(j) \/ (Ends(j) /\ jobs[j].at = "after")
         /\ JobRefused(j) => Ends(j) /\ jobs[j].at = "dialog"
<1>0. jobs \in [Jobs -> Job] /\ hosts \in Seq(Line) /\ pf \in Seq(Line)
  BY Zenon DEF RoutingTypes
<1>1. ASSUME enable(j) PROVE Reads(j)
  <2>1. build_hosts_entries(Domains, hosts) \in Seq(Line) /\ insert_pf_conf_include(pf) \in Seq(Line)
    BY <1>0, EntriesFacts, InsertFacts, Zenon
  <2>2. Changed(j, jobs[j].kind, jobs[j].by, "dialog", build_hosts_entries(Domains, hosts), insert_pf_conf_include(pf))
    BY <1>0, <1>1, <2>1, JobReads, Zenon DEF enable
  <2>3. QED
    BY <1>1, <2>2, Zenon DEF enable, Reads
<1>2. ASSUME disable(j) PROVE Reads(j)
  <2>1. Foreign(hosts) \in Seq(Line) /\ Foreign(pf) \in Seq(Line)
    BY <1>0, ForeignType, Zenon
  <2>2. Changed(j, jobs[j].kind, jobs[j].by, "dialog", Foreign(hosts), Foreign(pf))
    BY <1>0, <1>2, <2>1, JobReads, Zenon DEF disable, remove_privacyclaw_lines
  <2>3. QED
    BY <1>2, <2>2, Zenon DEF disable, Reads
<1>3. ASSUME RunEnable(j) PROVE Writes(j)
  <2>1. Changed(j, jobs[j].kind, jobs[j].by, "after", jobs[j].hosts, jobs[j].pf)
    BY <1>0, <1>3, JobWrites, Zenon DEF RunEnable
  <2>2. QED
    BY <1>3, <2>1, Zenon DEF RunEnable, Writes
<1>4. ASSUME RunDisable(j) PROVE Writes(j)
  <2>1. Changed(j, jobs[j].kind, jobs[j].by, "after", jobs[j].hosts, jobs[j].pf)
    BY <1>0, <1>4, JobWrites, Zenon DEF RunDisable
  <2>2. QED
    BY <1>4, <2>1, Zenon DEF RunDisable, Writes
<1>5. ASSUME FollowUp(j) PROVE Ends(j) /\ jobs[j].at = "after"
  BY <1>0, <1>5, JobEnds, Zenon DEF FollowUp, Ends
<1>6. ASSUME JobRefused(j) PROVE Ends(j) /\ jobs[j].at = "dialog"
  BY <1>0, <1>6, JobEnds, Zenon DEF JobRefused, Deny, Ends
<1>7. QED
  BY <1>1, <1>2, <1>3, <1>4, <1>5, <1>6, Zenon DEF JobMoves

\* In every step the jobs stay, one begins, one moves, or the tray's are orphaned.
JobsView ==
  \/ jobs' = jobs
  \/ \E kind \in {"enable", "disable"}, by \in {"toggle", "stop", "shell", "init", "uninstall"} : Began(kind, by)
  \/ \E j \in Jobs : Reads(j) \/ Writes(j) \/ Ends(j)
  \/ jobs' = Orphaned

\* The four ways a step treats the jobs cover every step.
LEMMA EffectJobs ==
  ASSUME RoutingTypes, Effect PROVE JobsView
<1>0. jobs \in [Jobs -> Job]
  BY Zenon DEF RoutingTypes
<1>1. ASSUME NEW kind \in {"enable", "disable"}, NEW by \in {"toggle", "stop", "shell", "init", "uninstall"},
             Starts(kind, by)
      PROVE  JobsView
  BY <1>0, <1>1, JobBegins, Zenon DEF Began, JobsView
<1>2. CASE Quiet \/ ProxyStarts \/ Edited \/ UninstallBegins \/ AgentRemoved \/ UninstallEnds
  <2>1. jobs' = jobs
    BY <1>2 DEF Quiet, ProxyStarts, Edited, UninstallBegins, AgentRemoved, UninstallEnds
  <2>2. QED
    BY <2>1, Zenon DEF JobsView
<1>3. CASE EnableByHand \/ Toggled \/ DisableByHand
  BY <1>1, <1>3, Zenon DEF EnableByHand, Toggled, DisableByHand
<1>4. CASE ProxyStops \/ UninstallDisables
  <2>1. jobs' = jobs => JobsView
    BY Zenon DEF JobsView
  <2>2. QED
    BY <1>1, <1>4, <2>1, Zenon DEF ProxyStops, UninstallDisables
<1>5. CASE TrayEnds
  BY <1>5, Zenon DEF TrayEnds, JobsView
<1>6. CASE \E j \in Jobs : JobMoves(j) \/ JobRefused(j)
  BY <1>6, MovesView, Zenon DEF JobsView
<1>7. QED
  BY <1>2, <1>3, <1>4, <1>5, <1>6, Zenon DEF Effect

\* A free slot is Idle, and what a disable is about to write has no line of privacyclaw,
\* whichever jobs begin, move, end or are orphaned meanwhile.
LEMMA ShapeStep ==
  ASSUME RoutingTypes, JobShape, DisablesClean, Effect PROVE JobShape' /\ DisablesClean'
<1>0. jobs \in [Jobs -> Job] /\ hosts \in Seq(Line)
  BY Zenon DEF RoutingTypes
<1>1. JobsView
  BY EffectJobs, Zenon
<1>2. CASE jobs' = jobs
  BY <1>2, Zenon DEF JobShape, DisablesClean
<1>3. ASSUME NEW j \in Jobs, \A i \in Jobs \ {j} : jobs'[i] = jobs[i],
             jobs'[j].kind = "none" => jobs'[j] = Idle,
             jobs'[j].kind = "disable" /\ jobs'[j].at = "dialog" => ~has_privacyclaw_entries(jobs'[j].hosts)
      PROVE  JobShape' /\ DisablesClean'
  <2>1. \A i \in Jobs : i = j \/ jobs'[i] = jobs[i]
    BY <1>3, Zenon
  <2>2. JobShape'
    BY <1>3, <2>1, Zenon DEF JobShape
  <2>3. DisablesClean'
    BY <1>3, <2>1, Zenon DEF DisablesClean
  <2>4. QED
    BY <2>2, <2>3, Zenon
<1>4. ASSUME NEW kind \in {"enable", "disable"}, NEW by \in {"toggle", "stop", "shell", "init", "uninstall"},
             Began(kind, by)
      PROVE  JobShape' /\ DisablesClean'
  <2>1. PICK s \in Jobs : Changed(s, kind, by, "begin", <<>>, <<>>)
    BY <1>4, Zenon DEF Began
  <2>2. jobs'[s].kind = kind /\ jobs'[s].at = "begin" /\ \A i \in Jobs \ {s} : jobs'[i] = jobs[i]
    BY <2>1, Zenon DEF Changed
  <2>3. kind # "none" /\ "begin" # "dialog"
    OBVIOUS
  <2>4. QED
    BY <1>3, <2>2, <2>3, Zenon
<1>5. ASSUME NEW j \in Jobs, Reads(j) PROVE JobShape' /\ DisablesClean'
  <2>1. ~has_privacyclaw_entries(Foreign(hosts))
    BY <1>0, ForeignClean, Zenon
  <2>2. /\ \A i \in Jobs \ {j} : jobs'[i] = jobs[i]
        /\ jobs'[j].kind = "enable" \/ (jobs'[j].kind = "disable" /\ jobs'[j].hosts = Foreign(hosts))
    BY <1>5, Zenon DEF Reads, Changed
  <2>3. "enable" # "none" /\ "disable" # "none" /\ "enable" # "disable"
    OBVIOUS
  <2>4. QED
    BY <1>3, <2>1, <2>2, <2>3, Zenon
<1>6. ASSUME NEW j \in Jobs, Writes(j) PROVE JobShape' /\ DisablesClean'
  <2>1. /\ \A i \in Jobs \ {j} : jobs'[i] = jobs[i]
        /\ jobs'[j].at = "after" /\ jobs'[j].kind \in {"enable", "disable"}
    BY <1>6, Zenon DEF Writes, Changed
  <2>2. "enable" # "none" /\ "disable" # "none" /\ "after" # "dialog"
    OBVIOUS
  <2>3. QED
    BY <1>3, <2>1, <2>2, Zenon
<1>7. ASSUME NEW j \in Jobs, Ends(j) PROVE JobShape' /\ DisablesClean'
  <2>1. /\ \A i \in Jobs \ {j} : jobs'[i] = jobs[i]
        /\ jobs'[j] = Idle /\ jobs'[j].kind = "none"
    BY <1>7, Zenon DEF Ends, Changed
  <2>2. "disable" # "none"
    OBVIOUS
  <2>3. QED
    BY <1>3, <2>1, <2>2, Zenon
<1>8. CASE jobs' = Orphaned
  <2>1. ASSUME NEW j \in Jobs
        PROVE  /\ jobs'[j].kind = "none" => jobs'[j] = Idle
               /\ jobs'[j].kind = "disable" /\ jobs'[j].at = "dialog" => ~has_privacyclaw_entries(jobs'[j].hosts)
    <3>1. CASE jobs'[j] = jobs[j]
      BY <3>1, Zenon DEF JobShape, DisablesClean
    <3>2. CASE /\ jobs[j].at = "dialog" /\ jobs'[j].at = "dialog" /\ jobs'[j].by = "orphan"
               /\ jobs'[j].kind = jobs[j].kind /\ jobs'[j].hosts = jobs[j].hosts
      <4>1. jobs[j].kind # "none"
        <5>1. Idle.at = "none"
          BY Zenon DEF Idle
        <5>2. "none" # "dialog"
          OBVIOUS
        <5>3. QED
          BY <3>2, <5>1, <5>2, Zenon DEF JobShape
      <4>2. QED
        BY <3>2, <4>1, Zenon DEF DisablesClean
    <3>3. CASE jobs'[j] = Idle
      <4>1. Idle.kind = "none"
        BY Zenon DEF Idle
      <4>2. "none" # "disable"
        OBVIOUS
      <4>3. QED
        BY <3>3, <4>1, <4>2, Zenon
    <3>4. QED
      BY <1>0, <1>8, <3>1, <3>2, <3>3, JobsOrphaned, Zenon
  <2>2. QED
    BY <2>1, Zenon DEF JobShape, DisablesClean
<1>9. QED
  BY <1>1, <1>2, <1>4, <1>5, <1>6, <1>7, <1>8, Zenon DEF JobsView
\* The names of kinds, callers and stages are different.
LEMMA Names ==
  /\ "none" # "enable" /\ "none" # "disable" /\ "enable" # "disable"
  /\ "begin" # "dialog" /\ "begin" # "after" /\ "dialog" # "after"
  /\ "none" # "begin" /\ "none" # "dialog" /\ "none" # "after"
  /\ "uninstall" # "none" /\ "uninstall" # "toggle" /\ "uninstall" # "stop" /\ "uninstall" # "shell"
  /\ "uninstall" # "init" /\ "uninstall" # "orphan"
  OBVIOUS

\* A job that has begun is an enable or a disable.
LEMMA BusyKind ==
  ASSUME RoutingTypes, JobShape, NEW j \in Jobs, jobs[j].at # "none"
  PROVE  jobs[j].kind \in {"enable", "disable"}
<1>1. jobs[j] \in Job
  BY DEF RoutingTypes
<1>2. jobs[j].kind \in {"none", "enable", "disable"}
  BY <1>1 DEF Job
<1>3. Idle.at = "none"
  BY Zenon DEF Idle
<1>4. QED
  BY <1>2, <1>3, Zenon DEF JobShape

\* After a disable's script no line routes a domain.
LEMMA DisableUnroutes ==
  ASSUME RoutingTypes, DisablesClean, NEW j \in Jobs, Writes(j), jobs[j].kind = "disable"
  PROVE  ~is_enabled'
<1>1. jobs[j].hosts \in Seq(Line)
  BY DEF RoutingTypes, Job
<1>2. hosts' = printf(jobs[j].hosts) /\ jobs[j].at = "dialog"
  BY Names, Zenon DEF Writes
<1>3. ~has_privacyclaw_entries(printf(jobs[j].hosts))
  BY <1>1, <1>2, PrintfFacts, Zenon DEF DisablesClean
<1>4. QED
  BY <1>2, <1>3, Zenon DEF is_enabled

\* A line of another program does not route.
LEMMA EditUnroutes ==
  ASSUME RoutingTypes, Edited
  PROVE  is_enabled' => is_enabled
<1> DEFINE l == EditLine
<1>0. CASE hosts' = hosts
  BY <1>0, Zenon DEF is_enabled
<1> SUFFICES ASSUME hosts' # hosts PROVE is_enabled' => is_enabled
  BY <1>0, Zenon
<1>1. l \in Line /\ ~l.tagged /\ hosts' = Append(hosts, l)
  <2>1. HostsEdited \/ hosts' = hosts
    BY DEF Edited, PfEdited
  <2>2. QED
    BY <2>1, EditLineType, Zenon DEF HostsEdited
<1> HIDE DEF l
<1>2. hosts \in Seq(Line)
  BY Zenon DEF RoutingTypes
<1>3. DOMAIN hosts = 1..Len(hosts) /\ Len(hosts) \in Nat /\ DOMAIN hosts' = 1..(Len(hosts) + 1)
  BY <1>1, <1>2
<1>4. \A i \in 1..Len(hosts) : hosts'[i] = hosts[i]
  BY <1>1, <1>2
<1>5. hosts'[Len(hosts) + 1] = l
  BY <1>1, <1>2
<1>6. ASSUME NEW i \in DOMAIN hosts', hosts'[i].tagged PROVE i \in DOMAIN hosts /\ hosts[i].tagged
  <2>1. i # Len(hosts) + 1
    BY <1>1, <1>5, <1>6, Zenon
  <2>2. i \in 1..Len(hosts)
    BY <1>3, <2>1
  <2>3. QED
    BY <1>3, <1>4, <1>6, <2>2, Zenon
<1>7. QED
  BY <1>6, Zenon DEF is_enabled, has_privacyclaw_entries

\* The state of StopInv that a step can disturb.
Unrouted == ~Enabling /\ (is_enabled => \E j \in Jobs : Pending(j))

\* If nobody is enabling, a new disable keeps it so and keeps the pending ones.
LEMMA DisableBegins ==
  ASSUME NEW by, Began("disable", by)
  PROVE  /\ \E j \in Jobs : Pending(j)' /\ jobs'[j].by = by
         /\ ~Enabling => ~Enabling'
<1>1. PICK s \in Jobs : jobs[s].kind = "none" /\ Changed(s, "disable", by, "begin", <<>>, <<>>)
  BY Zenon DEF Began
<1>2. /\ jobs'[s].kind = "disable" /\ jobs'[s].at = "begin" /\ jobs'[s].by = by
      /\ \A i \in Jobs : i = s \/ jobs'[i] = jobs[i]
  BY <1>1, Zenon DEF Changed
<1>3. Pending(s)'
  BY <1>2, Zenon DEF Pending
<1>4. ~Enabling => ~Enabling'
  BY <1>2, Names, Zenon DEF Enabling
<1>5. QED
  BY <1>2, <1>3, <1>4, Zenon

\* While nobody enables, a step of a job keeps routing off or somebody about to switch it off.
LEMMA MoveKeepsUnrouted ==
  ASSUME RoutingTypes, JobShape, DisablesClean, NEW j \in Jobs, JobMoves(j), ~Enabling
  PROVE  /\ ~Enabling'
         /\ is_enabled' => is_enabled
         /\ is_enabled' => \A i \in Jobs : Pending(i) => Pending(i)' /\ jobs'[i].by = jobs[i].by
<1>1. jobs[j].kind # "enable"
  BY Zenon DEF Enabling
<1>2. CASE Reads(j)
  <2>1. Changed(j, "disable", jobs[j].by, "dialog", Foreign(hosts), Foreign(pf)) /\ hosts' = hosts /\ jobs[j].kind = "disable"
    BY <1>1, <1>2, Zenon DEF Reads
  <2>2. /\ jobs'[j].kind = "disable" /\ jobs'[j].at = "dialog" /\ jobs'[j].by = jobs[j].by
        /\ \A i \in Jobs : i = j \/ jobs'[i] = jobs[i]
    BY <2>1, Zenon DEF Changed
  <2>3. QED
    BY <2>1, <2>2, Names, Zenon DEF Enabling, is_enabled, Pending
<1>3. CASE Writes(j)
  <2>1. jobs[j].kind = "disable" /\ Changed(j, jobs[j].kind, jobs[j].by, "after", jobs[j].hosts, jobs[j].pf)
    BY <1>1, <1>3, Zenon DEF Writes
  <2>2. ~is_enabled'
    BY <1>3, <2>1, DisableUnroutes, Zenon
  <2>3. jobs'[j].kind = "disable" /\ \A i \in Jobs : i = j \/ jobs'[i] = jobs[i]
    BY <2>1, Zenon DEF Changed
  <2>4. QED
    BY <2>2, <2>3, Names, Zenon DEF Enabling
<1>4. CASE Ends(j) /\ jobs[j].at = "after"
  <2>1. jobs'[j].kind = "none" /\ hosts' = hosts /\ \A i \in Jobs : i = j \/ jobs'[i] = jobs[i]
    BY <1>4, Zenon DEF Ends, Changed
  <2>2. ~Pending(j)
    BY <1>4, Names, Zenon DEF Pending
  <2>3. QED
    BY <2>1, <2>2, Names, Zenon DEF Enabling, is_enabled, Pending
<1>5. QED
  BY <1>2, <1>3, <1>4, MovesView, Zenon

\* The end of the tray changes no job's kind; a disable it had not launched is what Killed is for.
LEMMA OrphansKeepPending ==
  ASSUME RoutingTypes, jobs' = Orphaned
  PROVE  /\ ~Enabling => ~Enabling'
         /\ \A j \in Jobs : Pending(j) /\ (Killed = {} \/ ~InTray(j)) => Pending(j)'
         /\ \A j \in Jobs : jobs'[j].by = "uninstall" => jobs'[j] = jobs[j]
         /\ \A j \in Jobs : ~InTray(j) => jobs'[j] = jobs[j]
<1>0. jobs \in [Jobs -> Job] /\ Idle.kind = "none" /\ Idle.by = "none"
  BY Zenon DEF RoutingTypes, Idle
<1>1. ASSUME NEW j \in Jobs
      PROVE  \/ ~InTray(j) /\ jobs'[j] = jobs[j]
             \/ /\ InTray(j) /\ jobs[j].at = "dialog" /\ jobs'[j].at = "dialog" /\ jobs'[j].by = "orphan"
                /\ jobs'[j].kind = jobs[j].kind
             \/ InTray(j) /\ jobs[j].at # "dialog" /\ jobs'[j] = Idle
  BY <1>0, JobsOrphaned, Zenon
<1>2. ~Enabling => ~Enabling'
  BY <1>0, <1>1, Names, Zenon DEF Enabling
<1>3. ASSUME NEW j \in Jobs, Pending(j), Killed = {} \/ ~InTray(j) PROVE Pending(j)'
  <2>1. CASE ~InTray(j)
    BY <1>1, <1>3, <2>1, Zenon DEF Pending
  <2>2. CASE InTray(j)
    <3>1. {"killed"} # {}
      OBVIOUS
    <3>2. jobs[j].at # "begin"
      BY <1>3, <2>2, <3>1, Zenon DEF Killed
    <3>3. jobs[j].at = "dialog"
      BY <1>3, <3>2, Zenon DEF Pending
    <3>4. QED
      BY <1>1, <1>3, <2>2, <3>3, Zenon DEF Pending
  <2>3. QED
    BY <2>1, <2>2, Zenon
<1>4. QED
  BY <1>0, <1>1, <1>2, <1>3, Names, Zenon

\* StopInv is preserved by every step.
LEMMA StopStep ==
  ASSUME RoutingTypes, JobShape, DisablesClean, StopInv, Effect PROVE StopInv'
<1> USE DEF files, progress
<1>0. jobs \in [Jobs -> Job]
  BY Zenon DEF RoutingTypes
<1>1. ASSUME UNCHANGED <<hosts, jobs>> PROVE Unrouted => Unrouted'
  BY <1>1, Zenon DEF Unrouted, Enabling, is_enabled, Pending
<1>2. StopInv <=> (running => tray = "on") /\ (~running /\ excuses = {} => Unrouted)
  BY Zenon DEF StopInv, Unrouted
<1>3. StopInv' <=> (running' => tray' = "on") /\ (~running' /\ excuses' = {} => Unrouted')
  BY Zenon DEF StopInv, Unrouted
<1>4. CASE Quiet \/ UninstallBegins \/ AgentRemoved \/ UninstallEnds
  <2>1. UNCHANGED <<hosts, jobs, running, tray, excuses>>
    BY <1>4 DEF Quiet, UninstallBegins, AgentRemoved, UninstallEnds
  <2>2. QED
    BY <1>1, <1>2, <1>3, <2>1, Zenon
<1>5. CASE EnableByHand
  <2>1. excuses' # {} /\ UNCHANGED <<running, tray>>
    BY <1>5 DEF EnableByHand
  <2>2. QED
    BY <1>2, <1>3, <2>1, Zenon
<1>6. CASE ProxyStarts \/ Toggled
  <2>1. running' /\ tray' = "on"
    BY <1>2, <1>6 DEF ProxyStarts, Toggled
  <2>2. QED
    BY <1>3, <2>1, Zenon
<1>7. CASE ProxyStops
  <2>1. ~running' /\ hosts' = hosts /\ (excuses' = {} => ~Enabling)
    BY <1>7 DEF ProxyStops
  <2>2. CASE Starts("disable", "stop")
    <3>1. Began("disable", "stop")
      BY <1>0, <2>2, JobBegins, Zenon DEF Began
    <3>2. QED
      BY <1>3, <2>1, <3>1, DisableBegins, Zenon DEF Unrouted
  <2>3. CASE ~is_enabled /\ jobs' = jobs
    BY <1>3, <2>1, <2>3, Zenon DEF Unrouted, Enabling, is_enabled
  <2>4. QED
    BY <1>7, <2>2, <2>3, Zenon DEF ProxyStops
<1>8. CASE TrayEnds
  <2>1. ~running' /\ hosts' = hosts /\ jobs' = Orphaned
    BY <1>8 DEF TrayEnds
  <2>2. excuses' = {} => tray = "quitting" /\ excuses = {} /\ Killed = {}
    BY <1>8 DEF TrayEnds
  <2>3. "quitting" # "on"
    OBVIOUS
  <2>4. excuses' = {} => Unrouted /\ Killed = {}
    BY <1>2, <2>2, <2>3, Zenon
  <2>5. excuses' = {} => Unrouted'
    BY <2>1, <2>4, OrphansKeepPending, Zenon DEF Unrouted, is_enabled
  <2>6. QED
    BY <1>3, <2>1, <2>5, Zenon
<1>9. ASSUME NEW j \in Jobs, JobMoves(j) PROVE StopInv'
  <2>1. UNCHANGED <<running, tray, excuses>>
    BY <1>9, Zenon DEF JobMoves
  <2>2. Unrouted => Unrouted'
    BY <1>9, MoveKeepsUnrouted, Zenon DEF Unrouted
  <2>3. QED
    BY <1>2, <1>3, <2>1, <2>2, Zenon
<1>10. ASSUME NEW j \in Jobs, JobRefused(j) PROVE StopInv'
  <2>1. UNCHANGED <<running, tray>> /\ (excuses' = {} => excuses = {} /\ jobs[j].kind # "disable")
    BY <1>10 DEF JobRefused
  <2>2. jobs[j].kind \in {"enable", "disable"}
    BY <1>10, MovesView, BusyKind, Names, Zenon
  <2>3. excuses' = {} => Enabling /\ excuses = {}
    BY <2>1, <2>2, Zenon DEF Enabling
  <2>4. QED
    BY <1>2, <1>3, <2>1, <2>3, Zenon DEF Unrouted
<1>11. CASE DisableByHand
  <2>1. UNCHANGED <<hosts, running, tray, excuses>>
    BY <1>11 DEF DisableByHand
  <2>2. Began("disable", "shell")
    BY <1>0, <1>11, JobBegins, Zenon DEF DisableByHand, Began
  <2>3. Unrouted => Unrouted'
    BY <2>2, DisableBegins, Zenon DEF Unrouted
  <2>4. QED
    BY <1>2, <1>3, <2>1, <2>3, Zenon
<1>12. CASE Edited
  <2>1. UNCHANGED <<jobs, running, tray, excuses>>
    BY <1>12 DEF Edited
  <2>2. Unrouted => Unrouted'
    BY <1>12, <2>1, EditUnroutes, Zenon DEF Unrouted, Enabling, Pending
  <2>3. QED
    BY <1>2, <1>3, <2>1, <2>2, Zenon
<1>13. CASE UninstallDisables
  <2>1. UNCHANGED <<hosts, running, tray>> /\ (excuses' = {} => ~Enabling)
    BY <1>13 DEF UninstallDisables
  <2>2. excuses' = {} => Unrouted'
    <3>1. CASE Starts("disable", "uninstall")
      <4>1. Began("disable", "uninstall")
        BY <1>0, <3>1, JobBegins, Zenon DEF Began
      <4>2. QED
        BY <2>1, <4>1, DisableBegins, Zenon DEF Unrouted
    <3>2. CASE ~is_enabled /\ jobs' = jobs
      BY <2>1, <3>2, Zenon DEF Unrouted, Enabling, is_enabled
    <3>3. QED
      BY <1>13, <3>1, <3>2, Zenon DEF UninstallDisables
  <2>3. QED
    BY <1>2, <1>3, <2>1, <2>2, Zenon
<1>14. QED
  BY <1>4, <1>5, <1>6, <1>7, <1>8, <1>9, <1>10, <1>11, <1>12, <1>13, Zenon DEF Effect
\* UninstallInv, in parts.
NoUninstallJob == \A j \in Jobs : jobs[j].by # "uninstall"
OwnJobs   == \A j \in Jobs : jobs[j].by = "uninstall" => un = "wait" /\ jobs[j].kind = "disable"
Cleared   == /\ tray = "off" /\ ~Enabling
             /\ \/ ~is_enabled \/ un_failed
                \/ un = "wait" /\ \E j \in Jobs : Pending(j) /\ jobs[j].by = "uninstall"
LateSteps == {"wait", "purge", "done"}

\* The parts make up UninstallInv, before and after a step.
LEMMA UninstallParts ==
  /\ UninstallInv <=> /\ OwnJobs /\ (un = "done" => ~un_failed)
                      /\ (un \in LateSteps /\ "raced" \notin excuses => Cleared)
  /\ UninstallInv' <=> /\ OwnJobs' /\ (un' = "done" => ~un_failed')
                       /\ (un' \in LateSteps /\ "raced" \notin excuses' => Cleared')
  BY Zenon DEF UninstallInv, OwnJobs, Cleared, LateSteps

\* The steps of uninstall have different names.
LEMMA StepNames ==
  /\ \A u \in {"none", "stop", "agent", "disable"} : u \notin LateSteps /\ u # "done" /\ u # "wait"
  /\ "failed" \notin LateSteps /\ "failed" # "done" /\ "purge" # "wait" /\ "wait" \in LateSteps
  /\ "wait" # "done" /\ "purge" # "done" /\ "done" # "wait" /\ "failed" # "wait"
  BY DEF LateSteps

\* UninstallInv is preserved by every step.
LEMMA UninstallStep ==
  ASSUME RoutingTypes, JobShape, DisablesClean, UninstallInv, Effect PROVE UninstallInv'
<1> USE DEF files, progress
<1>0. jobs \in [Jobs -> Job]
  BY Zenon DEF RoutingTypes
<1>1. ASSUME un' \in {"none", "stop", "agent", "disable"}, NoUninstallJob' PROVE UninstallInv'
  BY <1>1, UninstallParts, StepNames, Zenon DEF OwnJobs, NoUninstallJob
<1>2. ASSUME un \in {"none", "stop", "agent", "disable"} PROVE NoUninstallJob
  BY <1>2, UninstallParts, StepNames, Zenon DEF OwnJobs, NoUninstallJob
<1>3. ASSUME NEW kind \in {"enable", "disable"}, NEW by \in {"toggle", "stop", "shell", "init"},
             Starts(kind, by), NoUninstallJob
      PROVE  NoUninstallJob'
  <2>1. by # "uninstall"
    OBVIOUS
  <2>2. PICK s \in Jobs : Changed(s, kind, by, "begin", <<>>, <<>>)
    BY <1>0, <1>3, JobBegins, Zenon
  <2>3. jobs'[s].by = by /\ \A i \in Jobs : i = s \/ jobs'[i] = jobs[i]
    BY <2>2, Zenon DEF Changed
  <2>4. QED
    BY <1>3, <2>1, <2>3, Zenon DEF NoUninstallJob
<1>4. CASE Quiet
  <2>1. UNCHANGED <<hosts, jobs, tray, excuses, un, un_failed>>
    BY <1>4 DEF Quiet
  <2>2. QED
    BY <2>1, UninstallParts, Zenon DEF OwnJobs, Cleared, Enabling, is_enabled, Pending
<1>5. CASE EnableByHand \/ ProxyStarts \/ ProxyStops \/ Toggled \/ DisableByHand \/ Edited
  <2>1. un = "none" /\ un' = "none"
    BY <1>5 DEF EnableByHand, ProxyStarts, ProxyStops, Toggled, DisableByHand, Edited
  <2>2. \/ jobs' = jobs
        \/ \E kind \in {"enable", "disable"}, by \in {"toggle", "stop", "shell", "init"} : Starts(kind, by)
    BY <1>5, Zenon DEF EnableByHand, ProxyStarts, ProxyStops, Toggled, DisableByHand, Edited
  <2>3. NoUninstallJob'
    BY <1>2, <1>3, <2>1, <2>2, Zenon DEF NoUninstallJob
  <2>4. QED
    BY <1>1, <2>1, <2>3, Zenon
<1>6. CASE TrayEnds
  <2>1. /\ jobs' = Orphaned /\ tray' = "off" /\ UNCHANGED <<hosts, un_failed>>
        /\ un' = un \/ (un = "stop" /\ un' = "agent")
        /\ excuses \subseteq excuses'
    BY <1>6 DEF TrayEnds
  <2>2. CASE un' = un
    <3>1. OwnJobs'
      BY <2>1, <2>2, UninstallParts, OrphansKeepPending, Zenon DEF OwnJobs
    <3>2. ASSUME Cleared PROVE Cleared'
      <4>1. ASSUME NEW j \in Jobs, Pending(j), jobs[j].by = "uninstall"
            PROVE  Pending(j)' /\ jobs'[j].by = "uninstall"
        <5>1. ~InTray(j)
          BY <4>1, Names, Zenon DEF InTray
        <5>2. QED
          BY <2>1, <4>1, <5>1, OrphansKeepPending, Zenon
      <4>2. ~Enabling'
        BY <2>1, <3>2, OrphansKeepPending, Zenon DEF Cleared
      <4>3. QED
        BY <2>1, <2>2, <3>2, <4>1, <4>2, Zenon DEF Cleared, is_enabled
    <3>3. QED
      BY <2>1, <2>2, <3>1, <3>2, UninstallParts, Zenon
  <2>3. CASE un = "stop" /\ un' = "agent"
    <3>1. NoUninstallJob'
      BY <1>2, <2>1, <2>3, OrphansKeepPending, Zenon DEF NoUninstallJob
    <3>2. QED
      BY <1>1, <2>3, <3>1, Zenon
  <2>4. QED
    BY <2>1, <2>2, <2>3, Zenon
<1>7. ASSUME NEW j \in Jobs, Ends(j) PROVE OwnJobs /\ UNCHANGED un => OwnJobs'
  <2>1. jobs'[j].by = "none" /\ \A i \in Jobs : i = j \/ jobs'[i] = jobs[i]
    BY <1>7, Zenon DEF Ends, Changed
  <2>2. QED
    BY <2>1, Names, Zenon DEF OwnJobs
<1>8. ASSUME NEW j \in Jobs, JobMoves(j) PROVE UninstallInv'
  <2>1. UNCHANGED <<tray, excuses, un, un_failed>>
    BY <1>8, Zenon DEF JobMoves
  <2>2. OwnJobs'
    <3>1. CASE Reads(j) \/ Writes(j)
      <4>1. /\ jobs'[j].by = jobs[j].by /\ jobs'[j].kind = jobs[j].kind
            /\ \A i \in Jobs : i = j \/ jobs'[i] = jobs[i]
        BY <3>1, Zenon DEF Reads, Writes, Changed
      <4>2. QED
        BY <2>1, <4>1, UninstallParts, Zenon DEF OwnJobs
    <3>2. CASE Ends(j)
      BY <1>7, <2>1, <3>2, UninstallParts, Zenon
    <3>3. QED
      BY <1>8, <3>1, <3>2, MovesView, Zenon
  <2>3. Cleared => Cleared'
    BY <1>8, <2>1, MoveKeepsUnrouted, Zenon DEF Cleared
  <2>4. QED
    BY <2>1, <2>2, <2>3, UninstallParts, Zenon
<1>9. ASSUME NEW j \in Jobs, JobRefused(j) PROVE UninstallInv'
  <2>1. /\ UNCHANGED <<tray, un>> /\ un_failed' = (un_failed \/ jobs[j].by = "uninstall")
        /\ Ends(j)
    BY <1>9, MovesView, Zenon DEF JobRefused
  <2>2. "raced" \notin excuses' => "raced" \notin excuses
    BY <1>9 DEF JobRefused
  <2>3. jobs'[j].kind = "none" /\ hosts' = hosts /\ \A i \in Jobs : i = j \/ jobs'[i] = jobs[i]
    BY <2>1, Zenon DEF Ends, Changed
  <2>4. OwnJobs'
    BY <1>7, <2>1, UninstallParts, Zenon
  <2>5. un' = "done" => ~un_failed'
    <3>1. un = "done" => jobs[j].by # "uninstall"
      BY UninstallParts, StepNames, Zenon DEF OwnJobs
    <3>2. QED
      BY <2>1, <3>1, UninstallParts, Zenon
  <2>6. Cleared => Cleared'
    <3>1. ~Enabling => ~Enabling'
      BY <2>3, Names, Zenon DEF Enabling
    <3>2. is_enabled' <=> is_enabled
      BY <2>3, Zenon DEF is_enabled
    <3>3. ASSUME NEW i \in Jobs, Pending(i), jobs[i].by = "uninstall"
          PROVE  un_failed' \/ (Pending(i)' /\ jobs'[i].by = "uninstall")
      BY <2>1, <2>3, <3>3, Zenon DEF Pending
    <3>4. QED
      BY <2>1, <3>1, <3>2, <3>3, Zenon DEF Cleared
  <2>7. QED
    BY <2>1, <2>2, <2>4, <2>5, <2>6, UninstallParts, Zenon
<1>10. CASE UninstallBegins \/ AgentRemoved
  <2>1. un \in {"none", "stop", "agent", "disable"} /\ un' \in {"none", "stop", "agent", "disable"} /\ jobs' = jobs
    BY <1>10 DEF UninstallBegins, AgentRemoved
  <2>2. QED
    BY <1>1, <1>2, <2>1, Zenon DEF NoUninstallJob
<1>11. CASE UninstallDisables
  <2>1. /\ un \in {"none", "stop", "agent", "disable"} /\ un' = "wait" /\ UNCHANGED <<hosts, tray>>
        /\ "raced" \notin excuses' => ~Enabling /\ tray = "off"
    BY <1>11 DEF UninstallDisables
  <2>2. NoUninstallJob
    BY <1>2, <2>1, Zenon
  <2>3. CASE Starts("disable", "uninstall")
    <3>1. PICK s \in Jobs : jobs[s].kind = "none" /\ Changed(s, "disable", "uninstall", "begin", <<>>, <<>>)
      BY <1>0, <2>3, JobBegins, Zenon
    <3>2. /\ jobs'[s].by = "uninstall" /\ jobs'[s].kind = "disable"
          /\ \A i \in Jobs : i = s \/ jobs'[i] = jobs[i]
      BY <3>1, Zenon DEF Changed
    <3>3. OwnJobs'
      BY <2>1, <2>2, <3>2, Zenon DEF OwnJobs, NoUninstallJob
    <3>4. Began("disable", "uninstall")
      BY <3>1, Zenon DEF Began
    <3>5. "raced" \notin excuses' => Cleared'
      BY <2>1, <2>3, <3>4, DisableBegins, Zenon DEF Cleared
    <3>6. QED
      BY <2>1, <3>3, <3>5, UninstallParts, StepNames, Zenon
  <2>4. CASE ~is_enabled /\ jobs' = jobs
    <3>1. OwnJobs'
      BY <2>2, <2>4, Zenon DEF OwnJobs, NoUninstallJob
    <3>2. "raced" \notin excuses' => Cleared'
      BY <2>1, <2>4, Zenon DEF Cleared, Enabling, is_enabled
    <3>3. QED
      BY <2>1, <3>1, <3>2, UninstallParts, StepNames, Zenon
  <2>5. QED
    BY <1>11, <2>3, <2>4, Zenon DEF UninstallDisables
<1>12. CASE UninstallEnds
  <2>1. UNCHANGED <<hosts, jobs, tray, excuses>>
    BY <1>12 DEF UninstallEnds
  <2>2. un \in LateSteps
    BY <1>12 DEF UninstallEnds, LateSteps
  <2>3. NoUninstallJob
    <3>1. un = "wait" \/ un = "purge"
      BY <1>12 DEF UninstallEnds
    <3>2. CASE un = "wait"
      BY <1>12, <3>2, StepNames, Zenon DEF UninstallEnds, NoUninstallJob
    <3>3. CASE un = "purge"
      BY <3>3, UninstallParts, StepNames, Zenon DEF OwnJobs, NoUninstallJob
    <3>4. QED
      BY <3>1, <3>2, <3>3, Zenon
  <2>4. OwnJobs'
    BY <2>1, <2>3, Zenon DEF OwnJobs, NoUninstallJob
  <2>5. (un_failed => un_failed') /\ (un' = "done" => ~un_failed')
    <3>1. un_failed' = un_failed \/ un_failed' = TRUE
      BY <1>12, Zenon DEF UninstallEnds
    <3>2. un' = "purge" \/ un' = (IF un_failed' THEN "failed" ELSE "done")
      BY <1>12, Zenon DEF UninstallEnds, Summary
    <3>3. un' = "done" => ~un_failed'
      BY <3>2, StepNames, Zenon
    <3>4. un_failed => un_failed'
      <4>1. un_failed \in BOOLEAN
        BY Zenon DEF RoutingTypes
      <4>2. CASE un_failed' = un_failed
        BY <4>1, <4>2
      <4>3. CASE un_failed' = TRUE
        BY <4>3
      <4>4. QED
        BY <3>1, <4>2, <4>3, Zenon
    <3>5. QED
      BY <3>3, <3>4, Zenon
  <2>6. Cleared => Cleared'
    BY <2>1, <2>3, <2>5, Zenon DEF Cleared, Enabling, is_enabled, NoUninstallJob
  <2>7. QED
    BY <2>1, <2>2, <2>4, <2>5, <2>6, UninstallParts, Zenon
<1>13. QED
  BY <1>4, <1>5, <1>6, <1>8, <1>9, <1>10, <1>11, <1>12, Zenon DEF Effect

-----------------------------------------------------------------------------
(* The routing theorems *)

\* Every state of a run has its type, whole slots and clean disables.
LEMMA ShapeCorrect == Spec => [](TypeOK /\ JobShape /\ DisablesClean)
<1>1. Init => JobShape /\ DisablesClean
  <2>1. ASSUME Init PROVE \A j \in Jobs : jobs[j] = Idle
    BY <2>1, Zenon DEF Init, RoutingInit
  <2>2. Idle.kind = "none"
    BY Zenon DEF Idle
  <2>3. QED
    BY <2>1, <2>2, Names, Zenon DEF JobShape, DisablesClean
<1>2. TypeOK /\ JobShape /\ DisablesClean /\ [Next]_vars => JobShape' /\ DisablesClean'
  <2> SUFFICES ASSUME TypeOK, JobShape, DisablesClean, [Next]_vars PROVE JobShape' /\ DisablesClean'
    BY Zenon
  <2>1. CASE Next
    BY <2>1, NextEffects, ShapeStep, TypeParts, Zenon
  <2>2. CASE UNCHANGED vars
    <3>1. jobs' = jobs
      BY <2>2 DEF vars, routingVars
    <3>2. QED
      BY <3>1, Zenon DEF JobShape, DisablesClean
  <2>3. QED
    BY <2>1, <2>2, Zenon
<1>3. QED
  BY <1>1, <1>2, TypeCorrect, PTL DEF Spec

\* Once the proxy is stopped or quit from the tray and every job is over, /etc/hosts routes no
\* domain, unless one of the excuses that the property names has happened: for any number of
\* overlapping jobs, dialogs answered in any order, and any /etc/hosts that was clean at first.
THEOREM StopUnroutesAlways ==
  ASSUME ~has_privacyclaw_entries(HostsFile)
  PROVE  Spec => []StopUnroutes
<1>1. Init => StopInv
  <2> SUFFICES ASSUME Init PROVE StopInv
    BY Zenon
  <2>1. hosts = HostsFile /\ (\A j \in Jobs : jobs[j] = Idle) /\ ~running
    BY Zenon DEF Init, RoutingInit
  <2>2. Idle.kind = "none"
    BY Zenon DEF Idle
  <2>3. QED
    BY <2>1, <2>2, Names, Zenon DEF StopInv, Enabling, is_enabled
<1>2. TypeOK /\ JobShape /\ DisablesClean /\ StopInv /\ [Next]_vars => StopInv'
  <2> SUFFICES ASSUME TypeOK, JobShape, DisablesClean, StopInv, [Next]_vars PROVE StopInv'
    BY Zenon
  <2>1. CASE Next
    BY <2>1, NextEffects, StopStep, TypeParts, Zenon
  <2>2. CASE UNCHANGED vars
    <3>1. UNCHANGED <<hosts, jobs, running, tray, excuses>>
      BY <2>2 DEF vars, routingVars, trayVars
    <3>2. QED
      BY <3>1, Zenon DEF StopInv, Enabling, is_enabled, Pending
  <2>3. QED
    BY <2>1, <2>2, Zenon
<1>3. StopInv => StopUnroutes
  <2>1. Busy = {} => \A j \in Jobs : jobs[j].kind = "none"
    BY DEF Busy
  <2>2. QED
    BY <2>1, Names, Zenon DEF StopInv, StopUnroutes, Pending
<1>4. QED
  BY <1>1, <1>2, <1>3, ShapeCorrect, PTL DEF Spec

\* An uninstall that reports no failure leaves no routing behind once its jobs are over, unless
\* an enable was under way or a tray was alive: for any files, jobs, crashes and refusals.
THEOREM UninstallUnroutesAlways == Spec => []UninstallUnroutes
<1>1. Init => UninstallInv
  <2> SUFFICES ASSUME Init PROVE UninstallInv
    BY Zenon
  <2>1. un = "none" /\ \A j \in Jobs : jobs[j] = Idle
    BY Zenon DEF Init, RoutingInit
  <2>2. Idle.by = "none"
    BY Zenon DEF Idle
  <2>3. QED
    BY <2>1, <2>2, Names, UninstallParts, StepNames, Zenon DEF OwnJobs
<1>2. TypeOK /\ JobShape /\ DisablesClean /\ UninstallInv /\ [Next]_vars => UninstallInv'
  <2> SUFFICES ASSUME TypeOK, JobShape, DisablesClean, UninstallInv, [Next]_vars PROVE UninstallInv'
    BY Zenon
  <2>1. CASE Next
    BY <2>1, NextEffects, UninstallStep, TypeParts, Zenon
  <2>2. CASE UNCHANGED vars
    <3>1. UNCHANGED <<hosts, jobs, tray, excuses, un, un_failed>>
      BY <2>2 DEF vars, routingVars, trayVars, unVars
    <3>2. QED
      BY <3>1, UninstallParts, Zenon DEF OwnJobs, Cleared, Enabling, is_enabled, Pending
  <2>3. QED
    BY <2>1, <2>2, Zenon
<1>3. UninstallInv => UninstallUnroutes
  <2> SUFFICES ASSUME UninstallInv, un = "done", "raced" \notin excuses PROVE ~is_enabled
    BY Zenon DEF UninstallUnroutes
  <2>1. un \in LateSteps
    BY DEF LateSteps
  <2>2. Cleared /\ ~un_failed
    BY <2>1, UninstallParts, Zenon
  <2>3. QED
    BY <2>2, StepNames, Zenon DEF Cleared
<1>4. QED
  BY <1>1, <1>2, <1>3, ShapeCorrect, PTL DEF Spec
-----------------------------------------------------------------------------
(* The lines of others *)

\* Foreign keeps all of what it has kept.
LEMMA ForeignAgain ==
  ASSUME NEW file \in Seq(Line)
  PROVE  Foreign(Foreign(file)) = Foreign(file)
<1>1. Foreign(file) \in Seq(Line) /\ ~has_privacyclaw_entries(Foreign(file))
  BY ForeignType, ForeignClean, Zenon
<1>2. QED
  BY <1>1, ForeignExtremes, Zenon

\* A line of another program joins the foreign lines at the end.
LEMMA ForeignAppend ==
  ASSUME NEW file \in Seq(Line), NEW l \in Line, ~l.tagged
  PROVE  Foreign(Append(file, l)) = Append(Foreign(file), l)
<1>1. <<l>> \in Seq(Line) /\ Append(file, l) = file \o <<l>>
  BY AppendToConcat DEF AppendsBehind
<1>2. ForeignApart(file, <<l>>)
  BY <1>1, ForeignConcat, Zenon
<1>3. ~has_privacyclaw_entries(<<l>>)
  BY DEF has_privacyclaw_entries
<1>4. Foreign(<<l>>) = <<l>>
  BY <1>1, <1>3, ForeignExtremes, Zenon
<1>5. Foreign(file) \o <<l>> = Append(Foreign(file), l)
  <2>1. Foreign(file) \in Seq(Line)
    BY ForeignType, Zenon
  <2>2. QED
    BY <2>1
<1>6. QED
  BY <1>1, <1>2, <1>4, <1>5, Zenon DEF ForeignApart

\* Printing a longer file prints the last line behind the others.
LEMMA PrintfAppend ==
  ASSUME NEW file \in Seq(Line), NEW l \in Line
  PROVE  printf(Append(file, l)) = Append(printf(file), Printed(l))
<1>1. Append(file, l) \in Seq(Line) /\ printf(file) \in Seq(Line) /\ Printed(l) \in Line
  BY PrintfFacts, PrintedFacts
<1>2. Len(file) \in Nat /\ DOMAIN file = 1..Len(file) /\ DOMAIN Append(file, l) = 1..(Len(file) + 1)
  OBVIOUS
<1>3. Len(printf(file)) = Len(file)
  <2>1. DOMAIN printf(file) = 1..Len(file)
    BY <1>2, Zenon DEF printf
  <2>2. QED
    BY <1>1, <1>2, <2>1
<1>4. \A i \in 1..Len(file) : Append(file, l)[i] = file[i]
  OBVIOUS
<1>5. Append(file, l)[Len(file) + 1] = l
  OBVIOUS
<1>6. \A i \in 1..(Len(file) + 1) : printf(Append(file, l))[i] = Printed(Append(file, l)[i])
  BY <1>2, Zenon DEF printf
<1>7. \A i \in 1..Len(file) : printf(file)[i] = Printed(file[i])
  BY <1>2, Zenon DEF printf
<1> DEFINE a == printf(Append(file, l))
           b == Append(printf(file), Printed(l))
<1>8. b \in Seq(Line) /\ Len(b) = Len(file) + 1 /\ DOMAIN b = 1..(Len(file) + 1)
  BY <1>1, <1>2, <1>3
<1>9. \A i \in 1..(Len(file) + 1) : a[i] = b[i]
  <2> TAKE i \in 1..(Len(file) + 1)
  <2>1. CASE i = Len(file) + 1
    <3>1. b[i] = Printed(l)
      BY <1>1, <1>3, <2>1
    <3>2. QED
      BY <1>5, <1>6, <2>1, <3>1, Zenon
  <2>2. CASE i \in 1..Len(file)
    <3>1. b[i] = printf(file)[i]
      BY <1>1, <1>3, <2>2
    <3>2. QED
      BY <1>4, <1>6, <1>7, <2>2, <3>1, Zenon
  <2>3. i = Len(file) + 1 \/ i \in 1..Len(file)
    BY <1>2
  <2>4. QED
    BY <2>1, <2>2, <2>3, Zenon
<1>10. a \in Seq(Line) /\ DOMAIN a = 1..(Len(file) + 1)
  <2>1. DOMAIN a = 1..(Len(file) + 1)
    BY <1>2, Zenon DEF printf
  <2>2. a \in Seq(Line)
    BY <1>1, PrintfFacts, Zenon
  <2>3. QED
    BY <2>1, <2>2, Zenon
<1> HIDE DEF a, b
<1>11. a = b
  BY <1>8, <1>9, <1>10
<1>12. QED
  BY <1>11 DEF a, b

\* Printing a file and then taking the lines of others is taking them and then printing.
LEMMA ForeignPrintf ==
  ASSUME NEW file \in Seq(Line)
  PROVE  Foreign(printf(file)) = printf(Foreign(file))
<1> DEFINE I == {i \in DOMAIN file : ~file[i].tagged}
           g == printf(file)
           f == PickedTo(file, I)
           h == PickedTo(g, I)
           T == {n \in Nat : n <= Len(file) => f[n] \in Seq(Line) /\ h[n] = printf(f[n])}
<1>0. g \in Seq(Line) /\ Len(file) \in Nat /\ DOMAIN file = 1..Len(file)
  BY PrintfFacts
<1>1. DOMAIN g = DOMAIN file /\ \A i \in DOMAIN file : g[i] = Printed(file[i])
  BY Zenon DEF printf
<1>2. Len(g) = Len(file)
  BY <1>0, <1>1
<1>3. {i \in DOMAIN g : ~g[i].tagged} = I
  <2>1. \A i \in DOMAIN file : file[i] \in Line
    OBVIOUS
  <2>2. \A i \in DOMAIN file : g[i].tagged = file[i].tagged
    BY <1>1, <2>1, PrintedFacts, Zenon
  <2>3. QED
    BY <1>1, <2>2
<1>4. f[0] = <<>> /\ Picks(f, file, I)
  BY PickedToStep, Zenon
<1>5. h[0] = <<>> /\ Picks(h, g, I)
  BY <1>0, PickedToStep, Zenon
<1>6. Foreign(file) = f[Len(file)] /\ Foreign(g) = h[Len(file)]
  BY <1>2, <1>3, Zenon DEF Foreign, Picked
<1> HIDE DEF f, h, g, I
<1>7. 0 \in T
  <2>1. printf(<<>>) = <<>> /\ <<>> \in Seq(Line)
    BY EmptySeq DEF printf
  <2>2. QED
    BY <1>4, <1>5, <2>1
<1>8. ASSUME NEW n \in Nat, n \in T PROVE n + 1 \in T
  <2> SUFFICES ASSUME n + 1 <= Len(file) PROVE f[n + 1] \in Seq(Line) /\ h[n + 1] = printf(f[n + 1])
    OBVIOUS
  <2>1. n + 1 \in 1..Len(file) /\ n \in 0..Len(file) /\ n + 1 - 1 = n
    BY <1>0
  <2>2. f[n] \in Seq(Line) /\ h[n] = printf(f[n])
    BY <1>0, <1>8
  <2>3. f[n + 1] = IF n + 1 \in I THEN Append(f[n], file[n + 1]) ELSE f[n]
    BY <1>4, <2>1 DEF Picks
  <2>4. h[n + 1] = IF n + 1 \in I THEN Append(h[n], g[n + 1]) ELSE h[n]
    BY <1>2, <1>5, <2>1 DEF Picks
  <2>5. file[n + 1] \in Line /\ g[n + 1] = Printed(file[n + 1])
    BY <1>0, <1>1, <2>1
  <2>6. CASE n + 1 \in I
    <3>1. f[n + 1] = Append(f[n], file[n + 1]) /\ h[n + 1] = Append(h[n], g[n + 1])
      BY <2>3, <2>4, <2>6, Zenon
    <3>2. Append(f[n], file[n + 1]) \in Seq(Line)
      BY <2>2, <2>5
    <3>3. printf(Append(f[n], file[n + 1])) = Append(printf(f[n]), Printed(file[n + 1]))
      BY <2>2, <2>5, PrintfAppend, Zenon
    <3>4. QED
      BY <2>2, <2>5, <3>1, <3>2, <3>3, Zenon
  <2>7. CASE n + 1 \notin I
    BY <2>2, <2>3, <2>4, <2>7, Zenon
  <2>8. QED
    BY <2>6, <2>7, Zenon
<1>9. Nat \subseteq T
  <2> HIDE DEF T
  <2>1. QED
    BY <1>7, <1>8, NatInductionSet, Zenon
<1>10. Len(file) \in T
  BY <1>0, <1>9
<1>11. h[Len(file)] = printf(f[Len(file)])
  BY <1>0, <1>10
<1>12. QED
  BY <1>6, <1>11, Zenon DEF g

\* A sequence is within itself, and stays within when either the longer one or both grow at the end.
LEMMA WithinFacts ==
  ASSUME NEW X, NEW a \in Seq(X), NEW b \in Seq(X), NEW x \in X
  PROVE  /\ Within(a, a)
         /\ Within(a, b) => Within(a, Append(b, x)) /\ Within(Append(a, x), Append(b, x))
<1>1. Within(a, a)
  <2> DEFINE at == [i \in DOMAIN a |-> i]
  <2>1. at \in [DOMAIN a -> DOMAIN a]
    BY Zenon
  <2>2. (\A i, j \in DOMAIN a : i < j => at[i] < at[j]) /\ \A i \in DOMAIN a : a[i] = a[at[i]]
    BY Zenon
  <2>3. QED
    BY <2>1, <2>2, Zenon DEF Within
<1>2. ASSUME Within(a, b) PROVE Within(a, Append(b, x)) /\ Within(Append(a, x), Append(b, x))
  <2>1. PICK at \in [DOMAIN a -> DOMAIN b] : /\ \A i, j \in DOMAIN a : i < j => at[i] < at[j]
                                            /\ \A i \in DOMAIN a : a[i] = b[at[i]]
    BY <1>2, Zenon DEF Within
  <2> DEFINE c == Append(b, x)
             d == Append(a, x)
             up == [i \in DOMAIN d |-> IF i = Len(a) + 1 THEN Len(b) + 1 ELSE at[i]]
  <2>2. /\ DOMAIN a = 1..Len(a) /\ DOMAIN b = 1..Len(b) /\ Len(a) \in Nat /\ Len(b) \in Nat
        /\ DOMAIN c = 1..(Len(b) + 1) /\ DOMAIN d = 1..(Len(a) + 1)
    OBVIOUS
  <2>3. /\ \A i \in DOMAIN b : i \in DOMAIN c /\ c[i] = b[i]
        /\ c[Len(b) + 1] = x
    OBVIOUS
  <2>4. /\ \A i \in DOMAIN a : i \in DOMAIN d /\ d[i] = a[i] /\ i # Len(a) + 1
        /\ d[Len(a) + 1] = x
    OBVIOUS
  <2>5. \A i \in DOMAIN a : at[i] \in DOMAIN b
    BY Zenon
  <2>6. Within(a, c)
    <3>1. at \in [DOMAIN a -> DOMAIN c]
      BY <2>3, <2>5
    <3>2. \A i \in DOMAIN a : a[i] = c[at[i]]
      BY <2>1, <2>3, <2>5, Zenon
    <3>3. QED
      BY <2>1, <3>1, <3>2, Zenon DEF Within
  <2> HIDE DEF c, d
  <2>7. \A i \in DOMAIN d : i = Len(a) + 1 \/ i \in DOMAIN a
    BY <2>2
  <2>8. up[Len(a) + 1] = Len(b) + 1 /\ \A i \in DOMAIN a : up[i] = at[i]
    BY <2>2, <2>4
  <2>9. up \in [DOMAIN d -> DOMAIN c]
    <3>1. \A i \in DOMAIN d : up[i] \in DOMAIN c
      BY <2>2, <2>3, <2>5, <2>7, <2>8
    <3>2. QED
      BY <3>1
  <2> HIDE DEF up
  <2>10. \A i, j \in DOMAIN d : i < j => up[i] < up[j]
    <3> TAKE i, j \in DOMAIN d
    <3>1. CASE j = Len(a) + 1
      BY <2>2, <2>5, <2>7, <2>8, <3>1
    <3>2. CASE j \in DOMAIN a
      BY <2>1, <2>2, <2>7, <2>8, <3>2
    <3>3. QED
      BY <2>7, <3>1, <3>2, Zenon
  <2>11. \A i \in DOMAIN d : d[i] = c[up[i]]
    BY <2>1, <2>3, <2>4, <2>5, <2>7, <2>8, Zenon
  <2>12. Within(d, c)
    BY <2>9, <2>10, <2>11, Zenon DEF Within
  <2>13. QED
    BY <2>6, <2>12 DEF c, d
<1>3. QED
  BY <1>1, <1>2, Zenon

\* What LinesKept says of a file depends on its foreign lines only, and not on printing.
LEMMA KeptFacts ==
  ASSUME NEW file \in Seq(Line), NEW some, NEW all, LinesKept(some, file, all)
  PROVE  /\ LinesKept(some, printf(file), all)
         /\ \A g : Foreign(g) = Foreign(file) => LinesKept(some, g, all)
<1>1. Foreign(file) \in Seq(Line)
  BY ForeignType, Zenon
<1>2. printf(Foreign(printf(file))) = printf(Foreign(file))
  BY <1>1, ForeignPrintf, PrintfFacts, Zenon
<1>3. QED
  BY <1>2, Zenon DEF LinesKept

\* A line that another program adds: to the list of all its lines, to the file, to the safe lines.
LEMMA KeptAppend ==
  ASSUME NEW some \in Seq(Line), NEW file \in Seq(Line), NEW all \in Seq(Line), NEW l \in Line, ~l.tagged,
         LinesKept(some, file, all)
  PROVE  /\ LinesKept(some, file, Append(all, l))
         /\ LinesKept(some, Append(file, l), Append(all, l))
         /\ LinesKept(Append(some, l), Append(file, l), Append(all, l))
<1> DEFINE s == printf(some)
           f == printf(Foreign(file))
           t == printf(all)
           x == Printed(l)
<1>1. Foreign(file) \in Seq(Line)
  BY ForeignType, Zenon
<1>2. s \in Seq(Line) /\ f \in Seq(Line) /\ t \in Seq(Line) /\ x \in Line
  BY <1>1, PrintfFacts, PrintedFacts, Zenon
<1>3. /\ printf(Append(some, l)) = Append(s, x) /\ printf(Append(all, l)) = Append(t, x)
      /\ printf(Foreign(Append(file, l))) = Append(f, x)
  BY <1>1, ForeignAppend, PrintfAppend, Zenon
<1>4. Within(s, f) /\ Within(f, t)
  BY Zenon DEF LinesKept
<1>5. /\ Within(s, Append(f, x)) /\ Within(Append(s, x), Append(f, x))
      /\ Within(f, Append(t, x)) /\ Within(Append(f, x), Append(t, x))
  <2> HIDE DEF s, f, t, x
  <2>1. QED
    BY <1>2, <1>4, WithinFacts, Zenon
<1>6. QED
  BY <1>3, <1>4, <1>5, Zenon DEF LinesKept

\* What ForeignInv asks of a job that waits for the administrator.
Waiting(j) ==
  jobs[j].at = "dialog" =>
    /\ LinesKept(safe_pf, jobs[j].pf, their_pf)
    /\ jobs[j].kind = "enable" => AllTagged(jobs[j].hosts)
    /\ jobs[j].kind = "disable" => LinesKept(safe, jobs[j].hosts, theirs)

\* ForeignInv in two parts.
LEMMA ForeignParts ==
  /\ ForeignInv <=> ForeignLinesKept /\ \A j \in Jobs : Waiting(j)
  /\ ForeignInv' <=> ForeignLinesKept' /\ \A j \in Jobs : Waiting(j)'
  BY Zenon DEF ForeignInv, ForeignLinesKept, Waiting

\* An edit, while jobs wait in their dialogs or not.
LEMMA EditKeepsLines ==
  ASSUME RoutingTypes, JobShape, ForeignInv, Edited PROVE ForeignInv'
<1> DEFINE l == EditLine
<1>0. /\ jobs \in [Jobs -> Job] /\ hosts \in Seq(Line) /\ pf \in Seq(Line)
      /\ theirs \in Seq(Line) /\ safe \in Seq(Line) /\ their_pf \in Seq(Line) /\ safe_pf \in Seq(Line)
  BY Zenon DEF RoutingTypes
<1>1. l \in Line /\ ~l.tagged
  BY EditLineType, Zenon
<1>2. ForeignLinesKept /\ (\A j \in Jobs : Waiting(j)) /\ jobs' = jobs
  BY ForeignParts, Zenon DEF Edited
<1>3. \A j \in Jobs : jobs[j].hosts \in Seq(Line) /\ jobs[j].pf \in Seq(Line) /\ jobs[j].kind \in {"none", "enable", "disable"}
  BY <1>0 DEF Job
<1> HIDE DEF l
<1>4. CASE HostsEdited
  <2>1. /\ hosts' = Append(hosts, l) /\ theirs' = Append(theirs, l)
        /\ safe' = (IF Holding({"disable"}) THEN safe ELSE Append(safe, l))
        /\ pf' = pf /\ their_pf' = their_pf /\ safe_pf' = safe_pf
    BY <1>4 DEF HostsEdited, l
  <2>2. LinesKept(safe, hosts, theirs)
    BY <1>2, Zenon DEF ForeignLinesKept
  <2>3. /\ LinesKept(safe, Append(hosts, l), Append(theirs, l))
        /\ LinesKept(Append(safe, l), Append(hosts, l), Append(theirs, l))
    BY <1>0, <1>1, <2>2, KeptAppend, Zenon
  <2>4. ForeignLinesKept'
    BY <1>2, <2>1, <2>3, Zenon DEF ForeignLinesKept
  <2>5. ASSUME NEW j \in Jobs, jobs[j].at = "dialog", jobs[j].kind = "disable"
        PROVE  LinesKept(safe', jobs[j].hosts, theirs')
    <3>1. Holding({"disable"})
      BY <2>5, Zenon DEF Holding
    <3>2. LinesKept(safe, jobs[j].hosts, theirs)
      BY <1>2, <2>5, Zenon DEF Waiting
    <3>3. LinesKept(safe, jobs[j].hosts, Append(theirs, l))
      BY <1>0, <1>1, <1>3, <3>2, KeptAppend, Zenon
    <3>4. QED
      BY <2>1, <3>1, <3>3, Zenon
  <2>6. \A j \in Jobs : Waiting(j)'
    BY <1>2, <2>1, <2>5, Zenon DEF Waiting
  <2>7. QED
    BY <2>4, <2>6, ForeignParts, Zenon
<1>5. CASE PfEdited
  <2>1. /\ pf' = Append(pf, l) /\ their_pf' = Append(their_pf, l)
        /\ safe_pf' = (IF Holding({"enable", "disable"}) THEN safe_pf ELSE Append(safe_pf, l))
        /\ hosts' = hosts /\ theirs' = theirs /\ safe' = safe
    BY <1>5 DEF PfEdited, l
  <2>2. LinesKept(safe_pf, pf, their_pf)
    BY <1>2, Zenon DEF ForeignLinesKept
  <2>3. /\ LinesKept(safe_pf, Append(pf, l), Append(their_pf, l))
        /\ LinesKept(Append(safe_pf, l), Append(pf, l), Append(their_pf, l))
    BY <1>0, <1>1, <2>2, KeptAppend, Zenon
  <2>4. ForeignLinesKept'
    BY <1>2, <2>1, <2>3, Zenon DEF ForeignLinesKept
  <2>5. ASSUME NEW j \in Jobs, jobs[j].at = "dialog"
        PROVE  LinesKept(safe_pf', jobs[j].pf, their_pf')
    <3>1. jobs[j].kind \in {"enable", "disable"}
      BY <2>5, BusyKind, Names, Zenon
    <3>2. Holding({"enable", "disable"})
      BY <2>5, <3>1, Zenon DEF Holding
    <3>3. LinesKept(safe_pf, jobs[j].pf, their_pf)
      BY <1>2, <2>5, Zenon DEF Waiting
    <3>4. LinesKept(safe_pf, jobs[j].pf, Append(their_pf, l))
      BY <1>0, <1>1, <1>3, <3>3, KeptAppend, Zenon
    <3>5. QED
      BY <2>1, <3>2, <3>4, Zenon
  <2>6. \A j \in Jobs : Waiting(j)'
    BY <1>2, <2>1, <2>5, Zenon DEF Waiting
  <2>7. QED
    BY <2>4, <2>6, ForeignParts, Zenon
<1>6. QED
  BY <1>4, <1>5, Zenon DEF Edited

\* ForeignInv is preserved by every step.
LEMMA ForeignStep ==
  ASSUME RoutingTypes, JobShape, ForeignInv, Effect
  PROVE  ForeignInv'
<1> USE DEF files, progress, lineVars
<1>0. /\ jobs \in [Jobs -> Job] /\ hosts \in Seq(Line) /\ pf \in Seq(Line)
      /\ theirs \in Seq(Line) /\ safe \in Seq(Line) /\ their_pf \in Seq(Line) /\ safe_pf \in Seq(Line)
  BY Zenon DEF RoutingTypes
<1>a. ForeignLinesKept /\ \A j \in Jobs : Waiting(j)
  BY ForeignParts, Zenon
<1>1. ASSUME UNCHANGED files PROVE ForeignLinesKept'
  <2>1. UNCHANGED <<hosts, pf>> /\ UNCHANGED <<theirs, safe>> /\ UNCHANGED <<their_pf, safe_pf>>
    BY <1>1
  <2>2. QED
    BY <2>1, <1>a, Zenon DEF ForeignLinesKept
<1>2. ASSUME NEW i \in Jobs, jobs'[i] = jobs[i], UNCHANGED lineVars PROVE Waiting(i)'
  <2>1. Waiting(i)
    BY <1>a, Zenon
  <2>2. theirs' = theirs /\ safe' = safe /\ their_pf' = their_pf /\ safe_pf' = safe_pf
    BY <1>2
  <2>3. QED
    BY <1>2, <2>1, <2>2, Zenon DEF Waiting
<1>3. ASSUME NEW i \in Jobs, jobs'[i].at # "dialog" PROVE Waiting(i)'
  BY <1>3, Zenon DEF Waiting
<1>4. ASSUME NEW kind \in {"enable", "disable"}, NEW by \in {"toggle", "stop", "shell", "init", "uninstall"},
             Starts(kind, by), UNCHANGED lineVars
      PROVE  \A j \in Jobs : Waiting(j)'
  <2>1. PICK s \in Jobs : Changed(s, kind, by, "begin", <<>>, <<>>)
    BY <1>0, <1>4, JobBegins, Zenon
  <2>2. jobs'[s].at = "begin" /\ \A i \in Jobs : i = s \/ jobs'[i] = jobs[i]
    BY <2>1, Zenon DEF Changed
  <2> HIDE DEF lineVars
  <2>3. QED
    BY <1>2, <1>3, <1>4, <2>2, Names, Zenon
<1>5. CASE Quiet \/ ProxyStarts \/ UninstallBegins \/ AgentRemoved \/ UninstallEnds
  <2>1. UNCHANGED files /\ UNCHANGED lineVars /\ jobs' = jobs
    BY <1>5 DEF Quiet, ProxyStarts, UninstallBegins, AgentRemoved, UninstallEnds
  <2> HIDE DEF lineVars, files
  <2>2. QED
    BY <1>1, <1>2, <2>1, ForeignParts, Zenon
<1>6. CASE EnableByHand \/ Toggled \/ DisableByHand \/ ProxyStops \/ UninstallDisables
  <2>1. UNCHANGED files /\ UNCHANGED lineVars
    BY <1>6 DEF EnableByHand, Toggled, DisableByHand, ProxyStops, UninstallDisables
  <2>2. \/ jobs' = jobs
        \/ \E kind \in {"enable", "disable"}, by \in {"toggle", "stop", "shell", "init", "uninstall"} :
             Starts(kind, by)
    BY <1>6, Zenon DEF EnableByHand, Toggled, DisableByHand, ProxyStops, UninstallDisables
  <2> HIDE DEF lineVars, files
  <2>3. \A j \in Jobs : Waiting(j)'
    BY <1>2, <1>4, <2>1, <2>2, Zenon
  <2>4. QED
    BY <1>1, <2>1, <2>3, ForeignParts, Zenon
<1>7. CASE TrayEnds
  <2>1. UNCHANGED files /\ UNCHANGED lineVars /\ jobs' = Orphaned
    BY <1>7 DEF TrayEnds
  <2>0. theirs' = theirs /\ safe' = safe /\ their_pf' = their_pf /\ safe_pf' = safe_pf
    BY <2>1
  <2> HIDE DEF lineVars, files
  <2>2. ASSUME NEW j \in Jobs PROVE Waiting(j)'
    <3>1. CASE jobs'[j] = jobs[j]
      BY <1>2, <2>1, <3>1, Zenon
    <3>2. CASE /\ jobs[j].at = "dialog" /\ jobs'[j].kind = jobs[j].kind
               /\ jobs'[j].hosts = jobs[j].hosts /\ jobs'[j].pf = jobs[j].pf
      BY <1>a, <2>0, <3>2, Zenon DEF Waiting
    <3>3. CASE jobs'[j] = Idle
      <4>1. Idle.at = "none"
        BY Zenon DEF Idle
      <4>2. QED
        BY <1>3, <3>3, <4>1, Names, Zenon
    <3>4. QED
      BY <1>0, <2>1, <3>1, <3>2, <3>3, JobsOrphaned, Zenon
  <2>3. QED
    BY <1>1, <2>1, <2>2, ForeignParts, Zenon
<1>8. ASSUME NEW j \in Jobs, UNCHANGED lineVars, Reads(j) PROVE ForeignInv'
  <2>0. theirs' = theirs /\ safe' = safe /\ their_pf' = their_pf /\ safe_pf' = safe_pf
    BY <1>8
  <2>1. hosts' = hosts /\ pf' = pf
    BY <1>8, Zenon DEF Reads
  <2>2. ForeignLinesKept'
    BY <1>a, <2>0, <2>1, Zenon DEF ForeignLinesKept
  <2>a. LinesKept(safe, hosts, theirs) /\ LinesKept(safe_pf, pf, their_pf)
    BY <1>a, Zenon DEF ForeignLinesKept
  <2> HIDE DEF lineVars
  <2>3. CASE Changed(j, "enable", jobs[j].by, "dialog", build_hosts_entries(Domains, hosts), insert_pf_conf_include(pf))
    <3> DEFINE h == build_hosts_entries(Domains, hosts)
               p == insert_pf_conf_include(pf)
    <3>1. AllTagged(h)
      BY EntriesFacts, Zenon
    <3>2. LinesKept(safe_pf, p, their_pf)
      BY <1>0, <2>a, InsertFacts, KeptFacts, Zenon
    <3>3. /\ jobs'[j].hosts = h /\ jobs'[j].pf = p /\ jobs'[j].kind = "enable"
          /\ \A i \in Jobs : i = j \/ jobs'[i] = jobs[i]
      BY <2>3, Zenon DEF Changed
    <3> HIDE DEF h, p
    <3>4. Waiting(j)'
      BY <2>0, <3>1, <3>2, <3>3, Names, Zenon DEF Waiting
    <3>5. QED
      BY <1>2, <1>8, <2>2, <3>3, <3>4, ForeignParts, Zenon
  <2>4. CASE Changed(j, "disable", jobs[j].by, "dialog", Foreign(hosts), Foreign(pf))
    <3>1. LinesKept(safe, Foreign(hosts), theirs) /\ LinesKept(safe_pf, Foreign(pf), their_pf)
      BY <1>0, <2>a, ForeignAgain, KeptFacts, Zenon
    <3>2. /\ jobs'[j].hosts = Foreign(hosts) /\ jobs'[j].pf = Foreign(pf) /\ jobs'[j].kind = "disable"
          /\ \A i \in Jobs : i = j \/ jobs'[i] = jobs[i]
      BY <2>4, Zenon DEF Changed
    <3>3. Waiting(j)'
      BY <2>0, <3>1, <3>2, Names, Zenon DEF Waiting
    <3>4. QED
      BY <1>2, <1>8, <2>2, <3>2, <3>3, ForeignParts, Zenon
  <2>5. QED
    BY <1>8, <2>3, <2>4, Zenon DEF Reads
<1>9. ASSUME NEW j \in Jobs, UNCHANGED lineVars, Writes(j) PROVE ForeignInv'
  <2>0. jobs[j].hosts \in Seq(Line) /\ jobs[j].pf \in Seq(Line)
    BY <1>0 DEF Job
  <2>1. jobs[j].at = "dialog" /\ Changed(j, jobs[j].kind, jobs[j].by, "after", jobs[j].hosts, jobs[j].pf)
    BY <1>9, Zenon DEF Writes
  <2>2. /\ LinesKept(safe_pf, jobs[j].pf, their_pf)
        /\ jobs[j].kind = "enable" => AllTagged(jobs[j].hosts)
        /\ jobs[j].kind = "disable" => LinesKept(safe, jobs[j].hosts, theirs)
    BY <1>a, <2>1, Zenon DEF Waiting
  <2>3. theirs' = theirs /\ safe' = safe /\ their_pf' = their_pf /\ safe_pf' = safe_pf
    BY <1>9
  <2> HIDE DEF lineVars
  <2>4. LinesKept(safe_pf, pf', their_pf)
    <3>1. LinesKept(safe_pf, printf(jobs[j].pf), their_pf)
      BY <2>0, <2>2, KeptFacts, Zenon
    <3>2. pf' = printf(jobs[j].pf) \/ pf' = pf
      BY <1>9, Zenon DEF Writes
    <3>3. QED
      BY <1>a, <3>1, <3>2, Zenon DEF ForeignLinesKept
  <2>5. LinesKept(safe, hosts', theirs)
    <3>1. CASE jobs[j].kind = "enable" /\ hosts' = hosts \o printf(jobs[j].hosts)
      <4>1. AllTagged(printf(jobs[j].hosts)) /\ printf(jobs[j].hosts) \in Seq(Line)
        BY <2>0, <2>2, <3>1, PrintfFacts, Zenon
      <4>2. Foreign(hosts \o printf(jobs[j].hosts)) = Foreign(hosts)
        BY <1>0, <4>1, ForeignTagged, Zenon
      <4>3. LinesKept(safe, hosts, theirs)
        BY <1>a, Zenon DEF ForeignLinesKept
      <4>4. QED
        BY <1>0, <3>1, <4>2, <4>3, KeptFacts, Zenon
    <3>2. CASE jobs[j].kind = "disable" /\ hosts' = printf(jobs[j].hosts)
      BY <2>0, <2>2, <3>2, KeptFacts, Zenon
    <3>3. QED
      BY <1>9, <3>1, <3>2, Zenon DEF Writes
  <2>6. ForeignLinesKept'
    BY <2>3, <2>4, <2>5, Zenon DEF ForeignLinesKept
  <2>7. jobs'[j].at = "after" /\ \A i \in Jobs : i = j \/ jobs'[i] = jobs[i]
    BY <2>1, Zenon DEF Changed
  <2>8. QED
    BY <1>2, <1>3, <1>9, <2>6, <2>7, Names, ForeignParts, Zenon
<1>10. ASSUME NEW j \in Jobs, UNCHANGED lineVars, Ends(j) PROVE ForeignInv'
  <2>1. hosts' = hosts /\ pf' = pf /\ jobs'[j].at = "none" /\ \A i \in Jobs : i = j \/ jobs'[i] = jobs[i]
    BY <1>10, Zenon DEF Ends, Changed
  <2>2. UNCHANGED files
    BY <1>10, <2>1
  <2> HIDE DEF lineVars, files
  <2>3. QED
    BY <1>1, <1>2, <1>3, <1>10, <2>1, <2>2, Names, ForeignParts, Zenon
<1>11. CASE \E j \in Jobs : JobMoves(j) \/ JobRefused(j)
  <2> HIDE DEF lineVars
  <2>1. UNCHANGED lineVars
    BY <1>11, Zenon DEF JobMoves, JobRefused
  <2>2. QED
    BY <1>8, <1>9, <1>10, <1>11, <2>1, MovesView, Zenon
<1>12. CASE Edited
  BY <1>12, EditKeepsLines, Zenon
<1>13. QED
  BY <1>5, <1>6, <1>7, <1>11, <1>12, Zenon DEF Effect

\* In every interleaving of enable and disable jobs, denials, crashes, orphaned scripts and edits by
\* other programs, for any files and domains, the lines others wrote stay in /etc/hosts and pf.conf
\* in order, except one that came while a job held an older copy of the file to write back; what
\* printf may do to a line with a conversion is the only change.
THEOREM ForeignLinesKeptAlways == Spec => []ForeignLinesKept
<1>1. Init => ForeignInv
  <2> SUFFICES ASSUME Init PROVE ForeignInv
    BY Zenon
  <2>1. /\ hosts = HostsFile /\ pf = PfConf /\ theirs = Foreign(HostsFile) /\ safe = Foreign(HostsFile)
        /\ their_pf = Foreign(PfConf) /\ safe_pf = Foreign(PfConf) /\ \A j \in Jobs : jobs[j] = Idle
    BY Zenon DEF Init, RoutingInit
  <2>2. Idle.at = "none"
    BY Zenon DEF Idle
  <2>3. ASSUME NEW file \in Seq(Line) PROVE LinesKept(Foreign(file), file, Foreign(file))
    <3> DEFINE f == printf(Foreign(file))
    <3>1. f \in Seq(Line) /\ EditLine \in Line
      BY ForeignType, PrintfFacts, EditLineType, Zenon
    <3> HIDE DEF f
    <3>2. Within(f, f)
      BY <3>1, WithinFacts, Zenon
    <3>3. QED
      BY <3>2, Zenon DEF LinesKept, f
  <2>4. LinesKept(safe, hosts, theirs) /\ LinesKept(safe_pf, pf, their_pf)
    BY <2>1, <2>3, FileAssumption, Zenon
  <2>5. QED
    BY <2>1, <2>2, <2>4, Names, Zenon DEF ForeignInv
<1>2. TypeOK /\ JobShape /\ ForeignInv /\ [Next]_vars => ForeignInv'
  <2> SUFFICES ASSUME TypeOK, JobShape, ForeignInv, [Next]_vars PROVE ForeignInv'
    BY Zenon
  <2>1. CASE Next
    BY <2>1, NextEffects, ForeignStep, TypeParts, Zenon
  <2>2. CASE UNCHANGED vars
    <3>1. UNCHANGED <<hosts, pf, jobs>> /\ UNCHANGED <<theirs, safe>> /\ UNCHANGED <<their_pf, safe_pf>>
      BY <2>2 DEF vars, routingVars, lineVars
    <3>2. QED
      BY <3>1, ForeignParts, Zenon DEF ForeignLinesKept, Waiting
  <2>3. QED
    BY <2>1, <2>2, Zenon
<1>3. ForeignInv => ForeignLinesKept
  BY ForeignParts, Zenon
<1>4. QED
  BY <1>1, <1>2, <1>3, ShapeCorrect, PTL DEF Spec
-----------------------------------------------------------------------------
(* The CA's files *)

\* What the actions do to them.
CaQuiet   == /\ UNCHANGED <<ca_cert, ca_key, ca_op, gens>> /\ crashes' \in {crashes, crashes + 1}
             /\ un' = "none" => un = "none"
CaInits   == /\ un = "none" /\ ca_op = "idle" /\ CaMissing /\ ca_op' = "cert"
             /\ UNCHANGED <<ca_cert, ca_key, gens, un, crashes>>
CaResets  == ca_op = "idle" /\ ca_op' = "del_cert" /\ UNCHANGED <<ca_cert, ca_key, gens, un, crashes>>
CaDeletes == /\ \/ ca_op = "del_cert" /\ ca_op' = "del_key" /\ ca_cert' = 0 /\ ca_key' = ca_key
                \/ ca_op = "del_key" /\ ca_op' = "cert" /\ ca_key' = 0 /\ ca_cert' = ca_cert
             /\ UNCHANGED <<gens, un, crashes>>
CaWritesCert == /\ \/ ca_op = "cert" /\ ca_op' = "fill_cert" /\ ca_cert' = Empty /\ gens' = gens
                   \/ ca_op = "fill_cert" /\ ca_op' = "key" /\ gens' = gens + 1 /\ ca_cert' = gens + 1
                /\ UNCHANGED <<ca_key, un, crashes>>
CaWritesKey  == /\ \/ ca_op = "key" /\ ca_op' = "fill_key" /\ ca_key' = Empty
                   \/ ca_op = "fill_key" /\ ca_op' = "idle" /\ ca_key' = gens
                /\ UNCHANGED <<gens, ca_cert, un, crashes>>
CaDies    == /\ ca_op # "idle" /\ ca_op' = "idle" /\ crashes' = crashes + 1
             /\ UNCHANGED <<ca_cert, ca_key, gens, un>>
CaPurged  == /\ un' # "none" /\ ca_cert' \in {0, ca_cert} /\ ca_key' \in {0, ca_key}
             /\ UNCHANGED <<ca_op, gens, crashes>>
CaEffect  == \/ CaQuiet \/ CaInits \/ CaResets \/ CaDeletes \/ CaWritesCert \/ CaWritesKey \/ CaDies
             \/ CaPurged

\* Every step has one of these effects.
LEMMA NextCaEffects ==
  ASSUME Next PROVE CaEffect
<1> USE DEF routingVars, trayVars, portVars, cliVars, pidVars, caVars, unVars, lineVars
<1>1. CASE cmd_init
  <2>1. CaInits \/ CaQuiet
    BY <1>1 DEF cmd_init, Command, CaInits, CaQuiet
  <2>2. QED
    BY <2>1, Zenon DEF CaEffect
<1>2. CASE cmd_reset_ca
  <2>1. CaResets
    BY <1>2 DEF cmd_reset_ca, Command, CaResets
  <2>2. QED
    BY <2>1, Zenon DEF CaEffect
<1>3. CASE delete_ca
  <2>1. CaDeletes
    BY <1>3 DEF delete_ca, CaDeletes
  <2>2. QED
    BY <2>1, Zenon DEF CaEffect
<1>4. CASE generate_ca
  <2>1. CaWritesCert \/ CaWritesKey
    BY <1>4 DEF generate_ca, CaWritesCert, CaWritesKey
  <2>2. QED
    BY <2>1, Zenon DEF CaEffect
<1>5. CASE CaCommandDies
  <2>1. CaDies
    BY <1>5 DEF CaCommandDies, CaDies
  <2>2. QED
    BY <2>1, Zenon DEF CaEffect
<1>6. CASE step_purge_data
  <2>1. UNCHANGED <<ca_op, gens, crashes>>
    BY <1>6 DEF step_purge_data
  <2>2. un' # "none"
    BY <1>6 DEF step_purge_data, Summary
  <2>3. ca_cert' \in {0, ca_cert} /\ ca_key' \in {0, ca_key}
    BY <1>6, Zenon DEF step_purge_data
  <2>4. QED
    BY <2>1, <2>2, <2>3, Zenon DEF CaPurged, CaEffect
<1>7. CASE \/ (\E m \in {"http", "network", "all", None} : cmd_start(m))
           \/ StartBinds \/ StartExits \/ dashboard_stop
           \/ run_tray_mode \/ handle_start_stop \/ handle_http_toggle \/ handle_network_toggle
           \/ fetch_config_state \/ handle_quit
  <2>1. CaQuiet
    BY <1>7 DEF cmd_start, StartBinds, StartExits, dashboard_stop, run_tray_mode, handle_start_stop,
                handle_http_toggle, handle_network_toggle, fetch_config_state, handle_quit, Command, Clicked, CaQuiet
  <2>2. QED
    BY <2>1, Zenon DEF CaEffect
<1>8. CASE \/ TrayExits \/ TrayCrashes
           \/ (\E p \in TrayPorts : TaskBinds(p) \/ TaskDropped(p))
           \/ (\E j \in Jobs : JobSteps(j) \/ JobDenied(j))
           \/ cmd_network_enable \/ cmd_network_disable \/ EditHosts \/ EditPfConf
           \/ cmd_stop \/ remove_pid
  <2>1. CaQuiet
    BY <1>8 DEF TrayExits, TrayCrashes, TaskBinds, TaskDropped, JobSteps, JobDenied, cmd_network_enable,
                cmd_network_disable, EditHosts, EditPfConf, cmd_stop, remove_pid, Command, CaQuiet
  <2>2. QED
    BY <2>1, Zenon DEF CaEffect
<1>9. CASE \/ cmd_uninstall \/ step_stop_proxy \/ step_unload_launch_agent \/ step_disable_network_proxy
           \/ step_remove_privileged
  <2>1. CaQuiet
    BY <1>9 DEF cmd_uninstall, step_stop_proxy, step_unload_launch_agent, step_disable_network_proxy,
                step_remove_privileged, Summary, Command, CaQuiet
  <2>2. QED
    BY <2>1, Zenon DEF CaEffect
<1>10. QED
  BY <1>1, <1>2, <1>3, <1>4, <1>5, <1>6, <1>7, <1>8, <1>9, Zenon DEF Next

\* CaInv is preserved by every step.
LEMMA CaStep ==
  ASSUME CaTypes, crashes \in Nat, CaInv, CaEffect PROVE CaInv'
<1> USE DEF CaTypes, CaInv, CaWhole, load_ca, CaMissing, Empty
<1>1. CASE CaQuiet
  BY <1>1 DEF CaQuiet
<1>2. CASE CaInits
  BY <1>2 DEF CaInits
<1>3. CASE CaResets
  BY <1>3 DEF CaResets
<1>4. CASE CaDeletes
  BY <1>4 DEF CaDeletes
<1>5. CASE CaWritesCert
  BY <1>5 DEF CaWritesCert
<1>6. CASE CaWritesKey
  BY <1>6 DEF CaWritesKey
<1>7. CASE CaDies
  BY <1>7 DEF CaDies
<1>8. CASE CaPurged
  BY <1>8 DEF CaPurged
<1>9. QED
  BY <1>1, <1>2, <1>3, <1>4, <1>5, <1>6, <1>7, <1>8, Zenon DEF CaEffect

\* A CA that load_ca accepts is one pair at every moment of init, reset-ca and uninstall while no
\* command has died, and also after one has, once none runs: the certificate is deleted and
\* written before the key, so the half-way states do not load.
THEOREM CaPairMatchesAlways == Spec => []CaPairMatches
<1>1. Init => CaInv
  BY DEF Init, CaInv, CaWhole, load_ca, Empty
<1>2. TypeOK /\ CaInv /\ [Next]_vars => CaInv'
  <2> SUFFICES ASSUME TypeOK, CaInv, [Next]_vars PROVE CaInv'
    BY Zenon
  <2>1. CASE Next
    <3>1. CaTypes /\ crashes \in Nat
      BY TypeParts, Zenon DEF ProcessTypes
    <3>2. QED
      BY <2>1, <3>1, NextCaEffects, CaStep, Zenon
  <2>2. CASE UNCHANGED vars
    <3>1. UNCHANGED <<ca_cert, ca_key, ca_op, gens, un, crashes>>
      BY <2>2 DEF vars, caVars, unVars, lineVars
    <3>2. QED
      BY <3>1, Zenon DEF CaInv, CaWhole, load_ca
  <2>3. QED
    BY <2>1, <2>2, Zenon
<1>3. TypeOK /\ CaInv => CaPairMatches
  <2> SUFFICES ASSUME TypeOK, CaInv PROVE CaPairMatches
    BY Zenon
  <2>1. CaTypes /\ crashes \in Nat
    BY TypeParts, Zenon DEF ProcessTypes
  <2>2. QED
    BY <2>1 DEF CaTypes, CaInv, CaWhole, load_ca, CaPairMatches, Empty
<1>4. QED
  BY <1>1, <1>2, <1>3, TypeCorrect, PTL DEF Spec
=============================================================================
