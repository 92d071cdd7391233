------------------------------- MODULE Store -------------------------------
(***************************************************************************)
(* The conversation store (src/src/storage/mod.rs): one NDJSON file per    *)
(* conversation, appended to by blocking tasks, a vault line that is       *)
(* rewritten through a temporary file, and a daily rotation.               *)
(*                                                                         *)
(* A task performs the store operations of one turn of a connection, in    *)
(* the order of c2u.rs and u2c.rs: find or insert the conversation, count  *)
(* and append the request's messages, append the response, save the vault. *)
(* write_lock covers appends and the vault rewrite; finding, counting, the *)
(* first read of save_vault, the creation of files and rotation run        *)
(* without it.                                                             *)
(*                                                                         *)
(* A file keeps its name for life, so a conversation id stands for its     *)
(* path.  Message and detection lines, and vault lines, are kept in two    *)
(* sequences: no reader depends on how they alternate.                     *)
(***************************************************************************)
EXTENDS Integers, Sequences, FiniteSets

CONSTANTS
  Tasks,         \* blocking tasks that use the store at the same time
  Convs,         \* conversation ids (fresh UUIDs)
  Fingerprints,  \* hashes of a conversation's first message
  Vaults,        \* serialised vault contents
  None,          \* no file / no vault / nobody
  MaxDay,        \* bound on the calendar
  MaxHistory,    \* bound on the messages of one request
  MaxTurns       \* bound on the turns of a behaviour

ASSUME NoneAssumption  == None \notin Tasks /\ None \notin Convs /\ None \notin Vaults
                          /\ None \notin Fingerprints
ASSUME BoundAssumption == MaxDay \in Nat /\ MaxHistory \in Nat /\ MaxTurns \in Nat

VARIABLES
  file,    \* conversation -> its .ndjson file
  tmp,     \* conversation -> the .ndjson.tmp file next to it
  cache,   \* path_cache: conversations whose path is cached
  lock,    \* holder of write_lock
  today,   \* Utc::now(), as a day
  pc, cid, \* per task: where its turn is, its conversation
  req,     \* per task: the request (fingerprint, number of messages)
  seen,    \* per task: what it read before it took write_lock
  detq,    \* conversations with a spawned insert_detections outstanding
  born,    \* ids in use
  rot,     \* rotation: the day it computed, and the entries left to delete
  turns,   \* turns begun
  acked,   \* conversation -> messages of the longest history a turn has stored
  saved    \* conversation -> the vault of the last save that returned Ok

taskVars == <<pc, cid, req, seen>>
ghosts   == <<turns, acked, saved>>
vars == <<file, tmp, cache, lock, today, taskVars, detq, born, rot, ghosts>>

Line == [kind : {"request", "response", "detection"}, idx : Nat]
File == [day : Nat, fp : Fingerprints, lines : Seq(Line), vaults : Seq(Vaults)]
NoFile == [day |-> 0, fp |-> None, lines |-> <<>>, vaults |-> <<>>]

Request == [fp : Fingerprints, len : Nat]
Idle    == [on |-> FALSE, day |-> 0, left |-> {}]

Phases == {"idle", "insert", "count", "append", "response", "save", "saveLock", "rename"}

Exists(c) == file[c] # NoFile

TypeOK ==
  /\ file  \in [Convs -> File \cup {NoFile}]
  /\ tmp   \in [Convs -> File \cup {NoFile}]
  /\ cache \subseteq Convs
  /\ lock  \in Tasks \cup {None}
  /\ today \in 0..MaxDay
  /\ pc    \in [Tasks -> Phases]
  /\ cid   \in [Tasks -> Convs \cup {None}]
  /\ req   \in [Tasks -> Request \cup {None}]
  /\ seen  \in [Tasks -> [count : Nat, pre : File \cup {NoFile}, vault : Vaults \cup {None}]]
  /\ detq  \subseteq Convs
  /\ born  \subseteq Convs
  /\ rot   \in [on : BOOLEAN, day : Nat, left : SUBSET Convs]
  /\ turns \in 0..MaxTurns
  /\ acked \in [Convs -> Nat]
  /\ saved \in [Convs -> Vaults \cup {None}]

NothingSeen == [count |-> 0, pre |-> NoFile, vault |-> None]

Init ==
  /\ file  = [c \in Convs |-> NoFile]
  /\ tmp   = [c \in Convs |-> NoFile]
  /\ cache = {}
  /\ lock  = None
  /\ today = 0
  /\ pc    = [t \in Tasks |-> "idle"]
  /\ cid   = [t \in Tasks |-> None]
  /\ req   = [t \in Tasks |-> None]
  /\ seen  = [t \in Tasks |-> NothingSeen]
  /\ detq  = {}
  /\ born  = {}
  /\ rot   = Idle
  /\ turns = 0
  /\ acked = [c \in Convs |-> 0]
  /\ saved = [c \in Convs |-> None]

Goto(t, from, to) ==
  /\ pc[t] = from
  /\ pc' = [pc EXCEPT ![t] = to]

\* Mutant: write_lock is not taken.
Unlocked == TRUE

\* write_lock can be taken.
Free == lock = None

\* conv_file_path: a cached path is returned unchecked, a scan caches its find.
Cached(c) == IF Exists(c) THEN cache \cup {c} ELSE cache

\* Mutant: every line is counted.
AllLines(f) == DOMAIN f.lines

RequestLines(f) == {i \in DOMAIN f.lines : f.lines[i].kind = "request"}
WithLine(f, l)  == [f EXCEPT !.lines = Append(@, l)]

\* The messages of a history that lie beyond the first off.
NewLines(off, len) == [i \in 1..(len - off) |-> [kind |-> "request", idx |-> off + i]]

-----------------------------------------------------------------------------
(* A turn's request: create_or_find_conversation, store_request_messages *)

\* find_conversation_by_fingerprint scans today's headers, without a lock.
Find(t, fp, len) ==
  /\ turns < MaxTurns
  /\ turns' = turns + 1
  /\ req' = [req EXCEPT ![t] = [fp |-> fp, len |-> len]]
  /\ LET matches == {c \in Convs : Exists(c) /\ file[c].day = today /\ file[c].fp = fp} IN
     \/ /\ matches # {}
        /\ Goto(t, "idle", "count")
        /\ \E c \in matches : cid' = [cid EXCEPT ![t] = c]
     \/ /\ matches = {}
        /\ Goto(t, "idle", "insert")
        /\ UNCHANGED cid
  /\ UNCHANGED <<file, tmp, cache, lock, today, seen, detq, born, rot, acked, saved>>

\* insert_conversation writes a new file with the header and caches its path.
InsertConversation(t, c) ==
  /\ c \notin born
  /\ Goto(t, "insert", "count")
  /\ born' = born \cup {c}
  /\ file' = [file EXCEPT ![c] = [day |-> today, fp |-> req[t].fp, lines |-> <<>>, vaults |-> <<>>]]
  /\ cid' = [cid EXCEPT ![t] = c]
  /\ cache' = cache \cup {c}
  /\ UNCHANGED <<tmp, lock, today, req, seen, detq, rot, ghosts>>

\* count_request_messages reads the file without a lock; a missing file counts 0.
CountRequestMessages(t) ==
  /\ Goto(t, "count", "append")
  /\ seen' = [seen EXCEPT ![t].count = Cardinality(RequestLines(file[cid[t]]))]
  /\ cache' = Cached(cid[t])
  /\ UNCHANGED <<file, tmp, lock, today, cid, req, detq, born, rot, ghosts>>

\* batch_insert_messages appends what lies beyond the count, under write_lock;
\* the append of a missing file fails, and the error is only logged.  When the
\* pipeline detected something, insert_detections is spawned and not awaited.
BatchInsertMessages(t, detected) ==
  LET c   == cid[t]
      new == NewLines(seen[t].count, req[t].len)
  IN
  /\ Free
  /\ Goto(t, "append", "response")
  /\ \/ /\ Exists(c)
        /\ file' = [file EXCEPT ![c].lines = @ \o new]
        /\ acked' = [acked EXCEPT ![c] = IF req[t].len > @ THEN req[t].len ELSE @]
     \/ /\ ~Exists(c)
        /\ UNCHANGED <<file, acked>>
  /\ cache' = Cached(c)
  /\ detq' = IF detected THEN detq \cup {c} ELSE detq
  /\ UNCHANGED <<tmp, lock, today, cid, req, seen, born, rot, turns, saved>>

\* The spawned insert_detections, whenever the runtime gets to it.
InsertDetections(c) ==
  /\ c \in detq
  /\ Free
  /\ detq' = detq \ {c}
  /\ file' = IF Exists(c)
               THEN [file EXCEPT ![c] = WithLine(@, [kind |-> "detection", idx |-> 0])]
               ELSE file
  /\ cache' = Cached(c)
  /\ UNCHANGED <<tmp, lock, today, taskVars, born, rot, ghosts>>

-----------------------------------------------------------------------------
(* A turn's response: finalize_response, insert_message, save_vault *)

EndTurn(t) ==
  /\ cid'  = [cid EXCEPT ![t] = None]
  /\ req'  = [req EXCEPT ![t] = None]
  /\ seen' = [seen EXCEPT ![t] = NothingSeen]

\* A response without text: nothing is stored, the vault is not saved.
EmptyResponse(t) ==
  /\ Goto(t, "response", "idle")
  /\ EndTurn(t)
  /\ UNCHANGED <<file, tmp, cache, lock, today, detq, born, rot, ghosts>>

\* insert_message of the assembled response.
InsertMessage(t) ==
  /\ Free
  /\ Goto(t, "response", "save")
  /\ file' = IF Exists(cid[t])
               THEN [file EXCEPT ![cid[t]] = WithLine(@, [kind |-> "response", idx |-> 0])]
               ELSE file
  /\ cache' = Cached(cid[t])
  /\ UNCHANGED <<tmp, lock, today, cid, req, seen, detq, born, rot, ghosts>>

\* save_vault up to the lock: resolve the path and read the file.  A missing
\* file ends the save, silently or with a logged error.
SaveVaultRead(t, v) ==
  LET c == cid[t] IN
  /\ pc[t] = "save"
  /\ \/ /\ Exists(c)
        /\ Goto(t, "save", "saveLock")
        /\ seen' = [seen EXCEPT ![t] = [count |-> 0, pre |-> file[c], vault |-> v]]
        /\ UNCHANGED <<cid, req>>
     \/ /\ ~Exists(c)
        /\ Goto(t, "save", "idle")
        /\ EndTurn(t)
  /\ cache' = Cached(c)
  /\ UNCHANGED <<file, tmp, lock, today, detq, born, rot, ghosts>>

\* Mutants: the first read is always used; vault lines are not recognised; the
\* old vault line is dropped and no new one written.
FirstRead(t) == seen[t].pre
VaultsOverlooked(t) == [seen[t].pre EXCEPT !.vaults = <<>>]
LineDropped(f, v) == [f EXCEPT !.vaults = Tail(@)]

\* The content save_vault works on once it holds write_lock: read again when
\* the first read showed a vault line, the first read itself otherwise.
LockedContent(t) == IF seen[t].pre.vaults # <<>> THEN file[cid[t]] ELSE seen[t].pre

\* A file whose first vault line is replaced.
Rewritten(f, v) == [f EXCEPT !.vaults[1] = v]

\* save_vault with the lock, no vault line in sight: append one.
SaveVaultAppend(t) ==
  LET c == cid[t] IN
  /\ Goto(t, "saveLock", "idle")
  /\ Free
  /\ LockedContent(t).vaults = <<>>
  /\ \/ /\ Exists(c)
        /\ file' = [file EXCEPT ![c].vaults = Append(@, seen[t].vault)]
        /\ saved' = [saved EXCEPT ![c] = seen[t].vault]
     \/ /\ ~Exists(c)
        /\ UNCHANGED <<file, saved>>
  /\ EndTurn(t)
  /\ UNCHANGED <<tmp, cache, lock, today, detq, born, rot, turns, acked>>

\* save_vault with the lock: replace the first vault line, in a temporary file.
SaveVaultRewrite(t) ==
  LET c == cid[t] IN
  /\ Goto(t, "saveLock", "rename")
  /\ Free
  /\ LockedContent(t).vaults # <<>>
  /\ lock' = t
  /\ tmp' = [tmp EXCEPT ![c] = Rewritten(LockedContent(t), seen[t].vault)]
  /\ UNCHANGED <<file, cache, today, cid, req, seen, detq, born, rot, ghosts>>

\* ... and rename it over the file, which releases the lock.
SaveVaultRename(t) ==
  LET c == cid[t] IN
  /\ Goto(t, "rename", "idle")
  /\ file'  = [file EXCEPT ![c] = tmp[c]]
  /\ tmp'   = [tmp EXCEPT ![c] = NoFile]
  /\ lock'  = None
  /\ saved' = [saved EXCEPT ![c] = seen[t].vault]
  /\ EndTurn(t)
  /\ UNCHANGED <<cache, today, detq, born, rot, turns, acked>>

\* The load_vault of a conversation: its first vault line.
LoadVault(c) == IF file[c].vaults = <<>> THEN None ELSE file[c].vaults[1]

-----------------------------------------------------------------------------
(* Rotation, the calendar, the process *)

\* rotate_old computes the day and lists the directory ...
RotateStart ==
  /\ ~rot.on
  /\ rot' = [on |-> TRUE, day |-> today, left |-> {c \in Convs : Exists(c) /\ file[c].day # today}]
  /\ UNCHANGED <<file, tmp, cache, lock, today, taskVars, detq, born, ghosts>>

\* ... and deletes one file after the other, without write_lock.
RotateDelete(c) ==
  /\ rot.on /\ c \in rot.left
  /\ file' = [file EXCEPT ![c] = NoFile]
  /\ rot' = [rot EXCEPT !.left = @ \ {c}]
  /\ UNCHANGED <<tmp, cache, lock, today, taskVars, detq, born, ghosts>>

RotateEnd ==
  /\ rot.on /\ rot.left = {}
  /\ rot' = [rot EXCEPT !.on = FALSE]
  /\ UNCHANGED <<file, tmp, cache, lock, today, taskVars, detq, born, ghosts>>

Midnight ==
  /\ today < MaxDay
  /\ today' = today + 1
  /\ UNCHANGED <<file, tmp, cache, lock, taskVars, detq, born, rot, ghosts>>

\* The process dies and starts again: the directory is all that is left.
Restart ==
  /\ pc'    = [t \in Tasks |-> "idle"]
  /\ cid'   = [t \in Tasks |-> None]
  /\ req'   = [t \in Tasks |-> None]
  /\ seen'  = [t \in Tasks |-> NothingSeen]
  /\ cache' = {}
  /\ lock'  = None
  /\ detq'  = {}
  /\ rot'   = Idle
  /\ UNCHANGED <<file, tmp, today, born, ghosts>>

Turn(t) ==
  \/ \E fp \in Fingerprints, len \in 1..MaxHistory : Find(t, fp, len)
  \/ \E c \in Convs : InsertConversation(t, c)
  \/ CountRequestMessages(t)
  \/ \E detected \in BOOLEAN : BatchInsertMessages(t, detected)
  \/ EmptyResponse(t)
  \/ InsertMessage(t)
  \/ \E v \in Vaults : SaveVaultRead(t, v)
  \/ SaveVaultAppend(t)
  \/ SaveVaultRewrite(t)
  \/ SaveVaultRename(t)

Next ==
  \/ \E t \in Tasks : Turn(t)
  \/ \E c \in Convs : InsertDetections(c)
  \/ RotateStart \/ (\E c \in Convs : RotateDelete(c)) \/ RotateEnd
  \/ Midnight
  \/ Restart

Spec == Init /\ [][Next]_vars

-----------------------------------------------------------------------------
(* Properties *)

Extends(old, new) == Len(old) <= Len(new) /\ \A i \in 1..Len(old) : new[i] = old[i]

\* Whatever the tasks do, and wherever the process dies, a line that has been
\* appended to a conversation's file stays where it is until rotation deletes
\* the file: the vault rewrite works on what it reads under write_lock.
LinesNeverLost ==
  [][\A c \in Convs : (Exists(c) /\ Exists(c)') => Extends(file[c].lines, file'[c].lines)]_file

\* A vault line, once written, is replaced and never disappears: at any moment
\* a crash leaves the old or the new one in the file.
VaultLineStays ==
  [][\A c \in Convs : (Exists(c) /\ Exists(c)' /\ file[c].vaults # <<>>) => file'[c].vaults # <<>>]_file

\* load_vault returns what the last successful save_vault wrote.
LoadReturnsLastSave ==
  \A c \in Convs : (Exists(c) /\ saved[c] # None) => LoadVault(c) = saved[c]

\* Every message of a history whose turn has stored it is in the file once.
HistoryStoredOnce ==
  \A c \in Convs : Exists(c) =>
    \A i \in 1..acked[c] :
      Cardinality({j \in RequestLines(file[c]) : file[c].lines[j].idx = i}) = 1

-----------------------------------------------------------------------------
(* What the documentation says of the store and concurrent turns, rotation   *)
(* or a restart may break; the README has the schedules.                     *)

\* A second save_vault replaces the vault line of the first.
OneVaultLine == \A c \in Convs : Len(file[c].vaults) <= 1

\* Every message of a history whose turn has stored it is in the file.
HistoryStored ==
  \A c \in Convs : Exists(c) =>
    \A i \in 1..acked[c] : \E j \in RequestLines(file[c]) : file[c].lines[j].idx = i

\* Requests with the same first message belong to one conversation of the day.
OneConversationPerFingerprint ==
  \A c, d \in Convs :
    (Exists(c) /\ Exists(d) /\ file[c].day = file[d].day /\ file[c].fp = file[d].fp) => c = d

\* A cached path leads to a file.
CacheNeverStale == \A c \in cache : Exists(c)

\* Once a rotation is through, no log file of an earlier day is left.
NothingOldAfterRotation ==
  (~rot.on /\ rot.day > 0) => \A c \in Convs : Exists(c) => file[c].day >= rot.day

-----------------------------------------------------------------------------
(* The inductive invariant behind LinesNeverLost and VaultLineStays *)

\* The lock is held across steps by the one task that is about to rename.
LockDiscipline == \A t \in Tasks : lock = t <=> pc[t] = "rename"

\* A turn knows its conversation once it has found or inserted one.
TurnsHaveIds ==
  \A t \in Tasks : /\ pc[t] \notin {"idle", "insert"} => cid[t] \in born
                   /\ pc[t] # "idle" => req[t] \in Request
                   /\ pc[t] = "saveLock" => seen[t].vault \in Vaults

\* Files exist under ids that are in use, so a new id never hits an old file.
FilesHaveIds == \A c \in Convs : Exists(c) => c \in born

\* What is about to be renamed over a file has all of the file's lines.
RewriteIsCurrent ==
  \A t \in Tasks : pc[t] = "rename" =>
    LET c == cid[t] IN
    /\ tmp[c] \in File
    /\ tmp[c].vaults # <<>>
    /\ Exists(c) => tmp[c].lines = file[c].lines

StoreInv == TypeOK /\ LockDiscipline /\ TurnsHaveIds /\ FilesHaveIds /\ RewriteIsCurrent

=============================================================================
