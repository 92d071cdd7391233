---------------------------- MODULE StoreProofs ----------------------------
(***************************************************************************)
(* No line of a conversation file is ever lost to the vault rewrite, for   *)
(* any number of concurrent tasks, conversations, crashes and rotations.   *)
(* And when no two turns are on one conversation at a time, load_vault     *)
(* returns the last vault saved, and every stored history is in the file,  *)
(* each message once.                                                      *)
(***************************************************************************)
EXTENDS Store, FiniteSetTheorems, TLAPS

\* A file differs from the absence of one.
LEMMA NoFileIsNoFile == NoFile \notin File
  BY NoneAssumption DEF NoFile, File

\* Counting the request lines of a file yields a number.
LEMMA CountType ==
  ASSUME NEW f \in File \cup {NoFile}
  PROVE  Cardinality(RequestLines(f)) \in Nat
  <1>0. <<>> \in Seq(Line)
    OBVIOUS
  <1>1. f.lines \in Seq(Line)
    <2>1. CASE f \in File
      BY <2>1 DEF File
    <2>2. CASE f = NoFile
      BY <1>0, <2>2 DEF NoFile
    <2> QED BY <2>1, <2>2
  <1>2. IsFiniteSet(DOMAIN f.lines)
    BY <1>1, FS_Interval DEF Line
  <1>3. IsFiniteSet(RequestLines(f))
    BY <1>2, FS_Subset DEF RequestLines
  <1> QED
    BY <1>3, FS_CardinalityType

\* The messages beyond the count are lines of a file, also when there are none.
LEMMA NewLinesType ==
  ASSUME NEW off \in Nat, NEW len \in Nat
  PROVE  NewLines(off, len) \in Seq(Line)
  <1>1. \A i \in 1..(len - off) : [kind |-> "request", idx |-> off + i] \in Line
    BY DEF Line
  <1>2. CASE len >= off
    <2>1. len - off \in Nat
      BY <1>2
    <2> QED
      BY <1>1, <2>1 DEF NewLines
  <1>3. CASE len < off
    <2>1. 1..(len - off) = 1..0
      BY <1>3
    <2>2. NewLines(off, len) = <<>>
      BY <2>1 DEF NewLines
    <2> QED
      BY <2>2
  <1> QED
    BY <1>2, <1>3

\* Appending to a sequence extends it.
LEMMA ConcatExtends ==
  ASSUME NEW s \in Seq(Line), NEW u \in Seq(Line)
  PROVE  s \o u \in Seq(Line) /\ Extends(s, s \o u)
  BY DEF Extends

\* So does appending one line to a file's lines.
LEMMA AppendExtends ==
  ASSUME NEW s \in Seq(Line), NEW l \in Line
  PROVE  Append(s, l) \in Seq(Line) /\ Extends(s, Append(s, l))
  BY DEF Extends

\* A file that is left alone extends itself.
LEMMA ExtendsItself ==
  ASSUME NEW s \in Seq(Line)
  PROVE  Extends(s, s)
  BY DEF Extends

\* A file with other lines, or another vault sequence, is a file.
LEMMA FileUpdates ==
  ASSUME NEW f \in File
  PROVE  /\ f.lines \in Seq(Line) /\ f.vaults \in Seq(Vaults)
         /\ \A u \in Seq(Line) : LET g == [f EXCEPT !.lines = u] IN
              g \in File /\ g.lines = u /\ g.vaults = f.vaults
         /\ \A w \in Seq(Vaults) : LET g == [f EXCEPT !.vaults = w] IN
              g \in File /\ g.lines = f.lines /\ g.vaults = w
  BY DEF File

\* The process starts with an empty directory.
LEMMA InitInv == Init => StoreInv
  <1> SUFFICES ASSUME Init PROVE StoreInv
    OBVIOUS
  <1> USE NoneAssumption, BoundAssumption DEF Init
  <1>1. TypeOK
    BY DEF TypeOK, Phases, NothingSeen, Idle
  <1>2. LockDiscipline /\ TurnsHaveIds /\ FilesHaveIds /\ RewriteIsCurrent
    BY DEF LockDiscipline, TurnsHaveIds, FilesHaveIds, RewriteIsCurrent, Exists
  <1> QED BY <1>1, <1>2 DEF StoreInv

\* What a step may do to a file: leave it, delete it, create it under a new
\* id, extend its lines or its vaults while nobody holds write_lock, or put a
\* temporary file in its place.
FileStep(c) ==
  \/ file'[c] = file[c]
  \/ file'[c] = NoFile
  \/ /\ c \notin born /\ c \in born'
     /\ file'[c] \in File
  \/ /\ lock = None
     /\ file[c] \in File /\ file'[c] \in File
     /\ Extends(file[c].lines, file'[c].lines)
     /\ file[c].vaults # <<>> => file'[c].vaults # <<>>
  \/ \E t \in Tasks :
       /\ pc[t] = "rename" /\ pc'[t] = "idle" /\ cid[t] = c
       /\ file'[c] = tmp[c]

\* Rotation and the steps of a turn change files only in these ways.
LEMMA FileSteps ==
  ASSUME StoreInv, [Next]_vars
  PROVE  file' \in [Convs -> File \cup {NoFile}] /\ \A c \in Convs : FileStep(c)
  <1> USE NoneAssumption, BoundAssumption, NoFileIsNoFile DEF Free
  <1>0. /\ file \in [Convs -> File \cup {NoFile}]
        /\ \A c \in Convs : Exists(c) => file[c] \in File
    BY DEF StoreInv, TypeOK, Exists
  <1>1. CASE UNCHANGED file
    BY <1>0, <1>1 DEF FileStep
  <1>2. ASSUME NEW t \in Tasks, NEW c \in Convs, InsertConversation(t, c)
        PROVE  file' \in [Convs -> File \cup {NoFile}] /\ \A d \in Convs : FileStep(d)
    <2>1. req[t].fp \in Fingerprints /\ today \in Nat
      BY <1>2 DEF InsertConversation, Goto, StoreInv, TurnsHaveIds, TypeOK, Request
    <2>2. [day |-> today, fp |-> req[t].fp, lines |-> <<>>, vaults |-> <<>>] \in File
      BY <2>1 DEF File
    <2> QED
      BY <1>0, <1>2, <2>2 DEF InsertConversation, FileStep
  <1>a. ASSUME NEW c \in Convs, NEW g \in File, lock = None, file[c] \in File, file' = [file EXCEPT ![c] = g],
               Extends(file[c].lines, g.lines), file[c].vaults # <<>> => g.vaults # <<>>
        PROVE  file' \in [Convs -> File \cup {NoFile}] /\ \A d \in Convs : FileStep(d)
    BY <1>0, <1>a DEF FileStep
  <1>3. ASSUME NEW t \in Tasks, NEW detected \in BOOLEAN, BatchInsertMessages(t, detected)
        PROVE  file' \in [Convs -> File \cup {NoFile}] /\ \A d \in Convs : FileStep(d)
    <2> DEFINE c   == cid[t]
               new == NewLines(seen[t].count, req[t].len)
               g   == [file[c] EXCEPT !.lines = file[c].lines \o new]
    <2>1. c \in Convs /\ new \in Seq(Line)
      BY <1>3, NewLinesType DEF BatchInsertMessages, Goto, StoreInv, TurnsHaveIds, TypeOK, Request
    <2>2. CASE Exists(c) /\ file' = [file EXCEPT ![c].lines = @ \o new]
      <3>1. file[c] \in File /\ file[c].lines \o new \in Seq(Line) /\ Extends(file[c].lines, file[c].lines \o new)
        BY <1>0, <2>1, <2>2, FileUpdates, ConcatExtends
      <3>2. file' = [file EXCEPT ![c] = g]
        BY <2>2
      <3> HIDE DEF c, new
      <3>3. g \in File /\ g.lines = file[c].lines \o new /\ g.vaults = file[c].vaults
        BY <3>1, FileUpdates
      <3> HIDE DEF g
      <3> QED
        BY <1>a, <1>3, <2>1, <3>1, <3>2, <3>3 DEF BatchInsertMessages
    <2>3. CASE UNCHANGED file
      BY <1>1, <2>3
    <2> QED
      BY <1>3, <2>2, <2>3 DEF BatchInsertMessages
  <1>4. ASSUME NEW c \in Convs, NEW l \in Line, lock = None, file[c] \in File,
               file' = [file EXCEPT ![c] = WithLine(@, l)]
        PROVE  file' \in [Convs -> File \cup {NoFile}] /\ \A d \in Convs : FileStep(d)
    <2>1. file[c].lines \in Seq(Line)
      BY <1>4, FileUpdates
    <2>2. Append(file[c].lines, l) \in Seq(Line) /\ Extends(file[c].lines, Append(file[c].lines, l))
      BY <1>4, <2>1, AppendExtends
    <2>3. /\ WithLine(file[c], l) \in File
          /\ Extends(file[c].lines, WithLine(file[c], l).lines)
          /\ WithLine(file[c], l).vaults = file[c].vaults
      BY <1>4, <2>2, FileUpdates DEF WithLine
    <2> QED
      BY <1>4, <1>a, <2>3
  <1>5. ASSUME NEW c \in Convs, InsertDetections(c)
        PROVE  file' \in [Convs -> File \cup {NoFile}] /\ \A d \in Convs : FileStep(d)
    <2>1. [kind |-> "detection", idx |-> 0] \in Line
      BY DEF Line
    <2> QED
      BY <1>0, <1>1, <1>4, <1>5, <2>1 DEF InsertDetections
  <1>6. ASSUME NEW t \in Tasks, InsertMessage(t)
        PROVE  file' \in [Convs -> File \cup {NoFile}] /\ \A d \in Convs : FileStep(d)
    <2>1. [kind |-> "response", idx |-> 0] \in Line /\ cid[t] \in Convs
      BY <1>6 DEF Line, InsertMessage, Goto, StoreInv, TurnsHaveIds, TypeOK
    <2> QED
      BY <1>0, <1>1, <1>4, <1>6, <2>1 DEF InsertMessage
  <1>7. ASSUME NEW t \in Tasks, SaveVaultAppend(t)
        PROVE  file' \in [Convs -> File \cup {NoFile}] /\ \A d \in Convs : FileStep(d)
    <2> DEFINE c == cid[t]
               w == Append(file[c].vaults, seen[t].vault)
               g == [file[c] EXCEPT !.vaults = w]
    <2>1. c \in Convs /\ seen[t].vault \in Vaults
      BY <1>7 DEF SaveVaultAppend, Goto, StoreInv, TurnsHaveIds, TypeOK
    <2>2. CASE Exists(c) /\ file' = [file EXCEPT ![c].vaults = Append(@, seen[t].vault)]
      <3>1. file[c] \in File /\ file[c].vaults \in Seq(Vaults) /\ file[c].lines \in Seq(Line)
        BY <1>0, <2>1, <2>2, FileUpdates
      <3>2. w \in Seq(Vaults) /\ w # <<>>
        BY <2>1, <3>1
      <3>3. file' = [file EXCEPT ![c] = g]
        BY <2>2
      <3> HIDE DEF c, w
      <3>4. g \in File /\ g.lines = file[c].lines /\ g.vaults = w /\ Extends(file[c].lines, g.lines)
        BY <3>1, <3>2, FileUpdates, ExtendsItself
      <3> HIDE DEF g
      <3> QED
        BY <1>a, <1>7, <2>1, <3>1, <3>2, <3>3, <3>4 DEF SaveVaultAppend
    <2> QED
      BY <1>1, <1>7, <2>2 DEF SaveVaultAppend
  <1>8. ASSUME NEW t \in Tasks, SaveVaultRename(t)
        PROVE  file' \in [Convs -> File \cup {NoFile}] /\ \A d \in Convs : FileStep(d)
    <2>1. cid[t] \in Convs /\ pc[t] = "rename" /\ tmp[cid[t]] \in File
      BY <1>8 DEF SaveVaultRename, Goto, StoreInv, TurnsHaveIds, RewriteIsCurrent, TypeOK
    <2> QED
      BY <1>0, <1>8, <2>1 DEF SaveVaultRename, Goto, FileStep, StoreInv, TypeOK
  <1>9. ASSUME NEW c \in Convs, RotateDelete(c)
        PROVE  file' \in [Convs -> File \cup {NoFile}] /\ \A d \in Convs : FileStep(d)
    BY <1>0, <1>9 DEF RotateDelete, FileStep
  <1>10. ASSUME NEW t \in Tasks, Turn(t)
         PROVE  file' \in [Convs -> File \cup {NoFile}] /\ \A d \in Convs : FileStep(d)
    BY <1>1, <1>2, <1>3, <1>6, <1>7, <1>8, <1>10
       DEF Turn, Find, CountRequestMessages, EmptyResponse, SaveVaultRead, SaveVaultRewrite
  <1> QED
    BY <1>1, <1>5, <1>9, <1>10 DEF Next, vars, RotateStart, RotateEnd, Midnight, Restart

\* The temporary files stay well formed.
LEMMA TmpStep ==
  ASSUME StoreInv, [Next]_vars
  PROVE  /\ tmp' \in [Convs -> File \cup {NoFile}]
         /\ \A t \in Tasks : SaveVaultRewrite(t) =>
              LET c == cid[t] IN
              /\ tmp'[c] \in File /\ tmp'[c].vaults # <<>>
              /\ Exists(c) => tmp'[c].lines = file[c].lines
  <1> USE NoneAssumption, BoundAssumption, NoFileIsNoFile
  <1>0. tmp \in [Convs -> File \cup {NoFile}]
    BY DEF StoreInv, TypeOK
  <1>1. ASSUME NEW t \in Tasks, SaveVaultRewrite(t)
        PROVE  /\ tmp' \in [Convs -> File \cup {NoFile}]
               /\ tmp'[cid[t]] \in File /\ tmp'[cid[t]].vaults # <<>>
               /\ Exists(cid[t]) => tmp'[cid[t]].lines = file[cid[t]].lines
    <2> DEFINE c == cid[t]
               f == LockedContent(t)
               w == [f.vaults EXCEPT ![1] = seen[t].vault]
               g == [f EXCEPT !.vaults = w]
    <2>1. c \in Convs /\ seen[t].vault \in Vaults /\ f.vaults # <<>>
      BY <1>1 DEF SaveVaultRewrite, Goto, StoreInv, TurnsHaveIds, TypeOK
    <2>2. seen[t].pre \in File \cup {NoFile} /\ file[c] \in File \cup {NoFile}
      BY <2>1 DEF StoreInv, TypeOK
    <2>3. f = file[c] /\ f \in File
      <3>1. seen[t].pre.vaults # <<>>
        BY <2>1 DEF LockedContent
      <3>2. f = file[c]
        BY <3>1 DEF LockedContent
      <3>3. file[c] # NoFile
        BY <2>1, <3>2 DEF NoFile
      <3> QED BY <2>2, <3>2, <3>3
    <2>4. tmp' = [tmp EXCEPT ![c] = g]
      BY <1>1 DEF SaveVaultRewrite, Rewritten
    <2> HIDE DEF c, f
    <2>5. f.vaults \in Seq(Vaults) /\ w \in Seq(Vaults) /\ w # <<>>
      BY <2>1, <2>3, FileUpdates
    <2> HIDE DEF w
    <2>6. g \in File /\ g.lines = f.lines /\ g.vaults = w
      BY <2>3, <2>5, FileUpdates
    <2> HIDE DEF g
    <2>7. tmp' \in [Convs -> File \cup {NoFile}] /\ tmp'[c] = g
      BY <1>0, <2>1, <2>4, <2>6
    <2> QED
      BY <2>3, <2>5, <2>6, <2>7 DEF c
  <1>2. ASSUME NEW t \in Tasks, SaveVaultRename(t) PROVE tmp' \in [Convs -> File \cup {NoFile}]
    BY <1>0, <1>2 DEF SaveVaultRename
  <1>3. ASSUME UNCHANGED tmp PROVE tmp' \in [Convs -> File \cup {NoFile}]
    BY <1>0, <1>3
  <1>4. tmp' \in [Convs -> File \cup {NoFile}]
    BY <1>1, <1>2, <1>3 DEF Next, Turn, vars, Find, InsertConversation, CountRequestMessages,
       BatchInsertMessages, InsertDetections, EmptyResponse, InsertMessage, SaveVaultRead,
       SaveVaultAppend, RotateStart, RotateDelete, RotateEnd, Midnight, Restart
  <1> QED
    BY <1>1, <1>4

\* The variables other than the files keep their types.
LEMMA TypeStep ==
  ASSUME StoreInv, [Next]_vars
  PROVE  TypeOK'
  <1> USE NoneAssumption, BoundAssumption
  <1> DEFINE Seen == [count : Nat, pre : File \cup {NoFile}, vault : Vaults \cup {None}]
             Rest == /\ cache \subseteq Convs /\ lock \in Tasks \cup {None} /\ today \in 0..MaxDay
                     /\ pc \in [Tasks -> Phases] /\ cid \in [Tasks -> Convs \cup {None}]
                     /\ req \in [Tasks -> Request \cup {None}]
                     /\ detq \subseteq Convs /\ born \subseteq Convs
                     /\ turns \in 0..MaxTurns
                     /\ acked \in [Convs -> Nat] /\ saved \in [Convs -> Vaults \cup {None}]
             Rot  == rot \in [on : BOOLEAN, day : Nat, left : SUBSET Convs]
  <1>0. Rest /\ Rot /\ seen \in [Tasks -> Seen] /\ file \in [Convs -> File \cup {NoFile}]
    BY DEF StoreInv, TypeOK
  <1>a. NothingSeen \in Seen
    BY DEF NothingSeen
  <1>b. \A t \in Tasks : pc[t] \notin {"idle", "insert"} => cid[t] \in Convs
    BY DEF StoreInv, TurnsHaveIds, TypeOK
  <1>1. file' \in [Convs -> File \cup {NoFile}] /\ tmp' \in [Convs -> File \cup {NoFile}]
    BY FileSteps, TmpStep
  <1>2. ASSUME NEW t \in Tasks, NEW fp \in Fingerprints, NEW len \in 1..MaxHistory, Find(t, fp, len)
        PROVE  Rest' /\ Rot' /\ seen' \in [Tasks -> Seen]
    <2>1. [fp |-> fp, len |-> len] \in Request
      BY DEF Request
    <2> QED BY <1>0, <1>2, <2>1, SMTT(60) DEF Find, Goto, Phases
  <1>3. ASSUME NEW t \in Tasks, NEW c \in Convs, InsertConversation(t, c)
        PROVE  Rest' /\ Rot' /\ seen' \in [Tasks -> Seen]
    BY <1>0, <1>3 DEF InsertConversation, Goto, Phases, ghosts
  <1>4. ASSUME NEW t \in Tasks, CountRequestMessages(t)
        PROVE  Rest' /\ Rot' /\ seen' \in [Tasks -> Seen]
    <2>1. cid[t] \in Convs /\ Cardinality(RequestLines(file[cid[t]])) \in Nat
      BY <1>0, <1>4, <1>b, CountType DEF CountRequestMessages, Goto
    <2>2. seen' \in [Tasks -> Seen]
      BY <1>0, <1>4, <2>1 DEF CountRequestMessages
    <2> QED BY <1>0, <1>4, <2>1, <2>2 DEF CountRequestMessages, Goto, Phases, ghosts, Cached
  <1>5. ASSUME NEW t \in Tasks, NEW detected \in BOOLEAN, BatchInsertMessages(t, detected)
        PROVE  Rest' /\ Rot' /\ seen' \in [Tasks -> Seen]
    <2>1. cid[t] \in Convs /\ req[t].len \in Nat
      BY <1>0, <1>5, <1>b DEF BatchInsertMessages, Goto, StoreInv, TurnsHaveIds, Request
    <2>2. acked' \in [Convs -> Nat]
      BY <1>0, <1>5, <2>1 DEF BatchInsertMessages
    <2>3. cache' \subseteq Convs /\ detq' \subseteq Convs /\ pc' \in [Tasks -> Phases]
      BY <1>0, <1>5, <2>1 DEF BatchInsertMessages, Goto, Phases, Cached
    <2>4. UNCHANGED <<lock, today, cid, req, seen, born, rot, turns, saved>>
      BY <1>5 DEF BatchInsertMessages
    <2> QED BY <1>0, <2>2, <2>3, <2>4
  <1>6. ASSUME NEW c \in Convs, InsertDetections(c)
        PROVE  Rest' /\ Rot' /\ seen' \in [Tasks -> Seen]
    BY <1>0, <1>6 DEF InsertDetections, Cached, taskVars, ghosts
  <1>7. ASSUME NEW t \in Tasks, EmptyResponse(t)
        PROVE  Rest' /\ Rot' /\ seen' \in [Tasks -> Seen]
    BY <1>0, <1>7, <1>a DEF EmptyResponse, EndTurn, Goto, Phases, ghosts
  <1>8. ASSUME NEW t \in Tasks, InsertMessage(t)
        PROVE  Rest' /\ Rot' /\ seen' \in [Tasks -> Seen]
    BY <1>0, <1>8, <1>b DEF InsertMessage, Goto, Phases, Cached, ghosts
  <1>9. ASSUME NEW t \in Tasks, NEW v \in Vaults, SaveVaultRead(t, v)
        PROVE  Rest' /\ Rot' /\ seen' \in [Tasks -> Seen]
    <2>1. cid[t] \in Convs /\ [count |-> 0, pre |-> file[cid[t]], vault |-> v] \in Seen
      BY <1>0, <1>9, <1>b DEF SaveVaultRead
    <2>2. seen' \in [Tasks -> Seen]
      BY <1>0, <1>9, <1>a, <2>1 DEF SaveVaultRead, EndTurn
    <2> QED BY <1>0, <1>9, <2>1, <2>2 DEF SaveVaultRead, EndTurn, Goto, Phases, Cached, ghosts
  <1>10. ASSUME NEW t \in Tasks, SaveVaultAppend(t)
         PROVE  Rest' /\ Rot' /\ seen' \in [Tasks -> Seen]
    <2>1. seen[t].vault \in Vaults /\ cid[t] \in Convs
      BY <1>10, <1>b DEF SaveVaultAppend, Goto, StoreInv, TurnsHaveIds
    <2> QED BY <1>0, <1>10, <1>a, <2>1 DEF SaveVaultAppend, EndTurn, Goto, Phases
  <1>11. ASSUME NEW t \in Tasks, SaveVaultRewrite(t)
         PROVE  Rest' /\ Rot' /\ seen' \in [Tasks -> Seen]
    BY <1>0, <1>11 DEF SaveVaultRewrite, Goto, Phases, ghosts
  <1>12. ASSUME NEW t \in Tasks, SaveVaultRename(t)
         PROVE  Rest' /\ Rot' /\ seen' \in [Tasks -> Seen]
    <2>1. seen[t].vault \in Vaults \cup {None} /\ cid[t] \in Convs
      BY <1>0, <1>12, <1>b DEF SaveVaultRename, Goto
    <2> QED BY <1>0, <1>12, <1>a, <2>1 DEF SaveVaultRename, EndTurn, Goto, Phases
  <1>13. ASSUME RotateStart \/ (\E c \in Convs : RotateDelete(c)) \/ RotateEnd
         PROVE  Rest' /\ Rot' /\ seen' \in [Tasks -> Seen]
    <2>1. rot.on \in BOOLEAN /\ rot.day \in Nat /\ rot.left \in SUBSET Convs /\ today \in Nat
      BY <1>0
    <2>2. CASE RotateStart
      BY <1>0, <2>1, <2>2 DEF RotateStart, taskVars, ghosts
    <2>3. ASSUME NEW c \in Convs, RotateDelete(c) PROVE Rest' /\ Rot' /\ seen' \in [Tasks -> Seen]
      <3>1. Rot'
        BY <1>0, <2>1, <2>3 DEF RotateDelete
      <3> QED BY <1>0, <2>3, <3>1 DEF RotateDelete, taskVars, ghosts
    <2>4. CASE RotateEnd
      <3>1. Rot'
        BY <1>0, <2>1, <2>4 DEF RotateEnd
      <3> QED BY <1>0, <2>4, <3>1 DEF RotateEnd, taskVars, ghosts
    <2> QED BY <1>13, <2>2, <2>3, <2>4
  <1>14. ASSUME Midnight PROVE Rest' /\ Rot' /\ seen' \in [Tasks -> Seen]
    BY <1>0, <1>14 DEF Midnight, taskVars, ghosts
  <1>15. ASSUME Restart PROVE Rest' /\ Rot' /\ seen' \in [Tasks -> Seen]
    BY <1>0, <1>15, <1>a DEF Restart, Phases, Idle, ghosts
  <1>16. ASSUME UNCHANGED vars PROVE Rest' /\ Rot' /\ seen' \in [Tasks -> Seen]
    BY <1>0, <1>16 DEF vars, taskVars, ghosts
  <1>17. Rest' /\ Rot' /\ seen' \in [Tasks -> Seen]
    BY <1>2, <1>3, <1>4, <1>5, <1>6, <1>7, <1>8, <1>9, <1>10, <1>11, <1>12, <1>13, <1>14, <1>15, <1>16
       DEF Next, Turn
  <1> QED
    BY <1>1, <1>17 DEF TypeOK

\* write_lock stays with the task that is about to rename.
LEMMA LockStep ==
  ASSUME StoreInv, [Next]_vars
  PROVE  LockDiscipline'
  <1> USE NoneAssumption DEF LockDiscipline, Goto, Free
  <1>0. LockDiscipline /\ pc \in [Tasks -> Phases]
    BY DEF StoreInv, TypeOK
  <1>1. ASSUME NEW t \in Tasks, SaveVaultRewrite(t) PROVE LockDiscipline'
    BY <1>0, <1>1 DEF SaveVaultRewrite
  <1>2. ASSUME NEW t \in Tasks, SaveVaultRename(t) PROVE LockDiscipline'
    BY <1>0, <1>2 DEF SaveVaultRename
  <1>3. ASSUME Restart PROVE LockDiscipline'
    BY <1>3 DEF Restart
  <1>4. ASSUME NEW t \in Tasks, lock' = lock,
               \/ \E p, q \in Phases \ {"rename"} : Goto(t, p, q)
               \/ UNCHANGED pc
        PROVE  LockDiscipline'
    BY <1>0, <1>4
  <1>5. ASSUME NEW t \in Tasks, Turn(t) PROVE LockDiscipline'
    BY <1>1, <1>2, <1>4, <1>5
       DEF Turn, Phases, Find, InsertConversation, CountRequestMessages, BatchInsertMessages,
           EmptyResponse, InsertMessage, SaveVaultRead, SaveVaultAppend
  <1>6. ASSUME UNCHANGED <<lock, pc>> PROVE LockDiscipline'
    BY <1>0, <1>6
  <1> QED
    BY <1>3, <1>5, <1>6 DEF Next, vars, taskVars, InsertDetections, RotateStart, RotateDelete,
       RotateEnd, Midnight

\* A turn keeps its request and its conversation until it ends.
LEMMA TurnStep ==
  ASSUME StoreInv, [Next]_vars
  PROVE  TurnsHaveIds' /\ FilesHaveIds'
  <1> USE DEF TurnsHaveIds, Goto
  <1>0. TurnsHaveIds /\ FilesHaveIds /\ TypeOK
    BY DEF StoreInv
  <1>1. pc \in [Tasks -> Phases] /\ cid \in [Tasks -> Convs \cup {None}]
        /\ req \in [Tasks -> Request \cup {None}]
    BY <1>0 DEF TypeOK
  <1>2. born \subseteq born'
    BY DEF Next, Turn, vars, taskVars, Find, InsertConversation, CountRequestMessages,
       BatchInsertMessages, InsertDetections, EmptyResponse, InsertMessage, SaveVaultRead,
       SaveVaultAppend, SaveVaultRewrite, SaveVaultRename, RotateStart, RotateDelete, RotateEnd,
       Midnight, Restart
  <1>3. FilesHaveIds'
    BY <1>0, <1>2, FileSteps, NoFileIsNoFile DEF FilesHaveIds, FileStep, Exists
  <1>4. ASSUME NEW t \in Tasks, Turn(t) PROVE TurnsHaveIds'
    <2>1. ASSUME NEW fp \in Fingerprints, NEW len \in 1..MaxHistory, Find(t, fp, len)
          PROVE  TurnsHaveIds'
      <3>1. [fp |-> fp, len |-> len] \in Request
        BY DEF Request
      <3> QED BY <1>0, <1>1, <2>1, <3>1 DEF Find, FilesHaveIds
    <2>2. ASSUME NEW c \in Convs, InsertConversation(t, c) PROVE TurnsHaveIds'
      BY <1>0, <1>1, <2>2 DEF InsertConversation
    <2>3. ASSUME NEW v \in Vaults, SaveVaultRead(t, v) PROVE TurnsHaveIds'
      BY <1>0, <1>1, <2>3 DEF SaveVaultRead, EndTurn, TypeOK
    <2>4. ASSUME CountRequestMessages(t) PROVE TurnsHaveIds'
      BY <1>0, <1>1, <2>4 DEF CountRequestMessages
    <2>5. ASSUME EndTurn(t), pc' = [pc EXCEPT ![t] = "idle"], UNCHANGED born PROVE TurnsHaveIds'
      BY <1>0, <1>1, <2>5 DEF EndTurn
    <2>6. ASSUME UNCHANGED <<cid, req, seen, born>>, pc[t] \notin {"idle", "insert"},
                 pc' = [pc EXCEPT ![t] = "response"] \/ pc' = [pc EXCEPT ![t] = "save"]
                   \/ pc' = [pc EXCEPT ![t] = "rename"]
          PROVE  TurnsHaveIds'
      BY <1>0, <1>1, <2>6
    <2> QED
      BY <1>4, <2>1, <2>2, <2>3, <2>4, <2>5, <2>6
         DEF Turn, BatchInsertMessages, EmptyResponse, InsertMessage, SaveVaultAppend,
             SaveVaultRewrite, SaveVaultRename
  <1>5. ASSUME Restart PROVE TurnsHaveIds'
    BY <1>5 DEF Restart
  <1>6. ASSUME UNCHANGED <<taskVars, born>> PROVE TurnsHaveIds'
    BY <1>0, <1>6 DEF taskVars
  <1> QED
    BY <1>3, <1>4, <1>5, <1>6 DEF Next, vars, InsertDetections, RotateStart, RotateDelete,
       RotateEnd, Midnight

\* Nobody disturbs the temporary file of the task that holds write_lock.
LEMMA RenameStep ==
  ASSUME StoreInv, [Next]_vars, NEW t \in Tasks, pc'[t] = "rename"
  PROVE  \/ SaveVaultRewrite(t)
         \/ /\ pc[t] = "rename"
            /\ cid'[t] = cid[t] /\ tmp'[cid[t]] = tmp[cid[t]]
  <1> USE DEF Goto
  <1>1. /\ pc \in [Tasks -> Phases] /\ cid \in [Tasks -> Convs \cup {None}]
        /\ \A u \in Tasks : lock = u <=> pc[u] = "rename"
    BY DEF StoreInv, TypeOK, LockDiscipline
  <1>2. ASSUME NEW u \in Tasks, SaveVaultRewrite(u), u # t PROVE FALSE
    BY <1>1, <1>2, NoneAssumption DEF SaveVaultRewrite, Free
  <1>3. ASSUME NEW u \in Tasks, SaveVaultRename(u) PROVE FALSE
    BY <1>1, <1>3 DEF SaveVaultRename
  <1>4. ASSUME NEW u \in Tasks, Turn(u), ~SaveVaultRewrite(u), ~SaveVaultRename(u)
        PROVE  pc[t] = "rename" /\ cid'[t] = cid[t] /\ UNCHANGED tmp
    BY <1>1, <1>4 DEF Turn, Find, InsertConversation, CountRequestMessages, BatchInsertMessages,
       EmptyResponse, InsertMessage, SaveVaultRead, SaveVaultAppend, EndTurn
  <1>5. ASSUME Restart PROVE FALSE
    BY <1>5 DEF Restart
  <1> QED
    BY <1>2, <1>3, <1>4, <1>5 DEF Next, vars, taskVars, InsertDetections, RotateStart,
       RotateDelete, RotateEnd, Midnight

\* What is about to be renamed stays current.
LEMMA RewriteStep ==
  ASSUME StoreInv, [Next]_vars
  PROVE  RewriteIsCurrent'
  <1> SUFFICES ASSUME NEW t \in Tasks, pc'[t] = "rename"
               PROVE  /\ tmp'[cid'[t]] \in File
                      /\ tmp'[cid'[t]].vaults # <<>>
                      /\ file'[cid'[t]] # NoFile => tmp'[cid'[t]].lines = file'[cid'[t]].lines
    BY DEF RewriteIsCurrent, Exists
  <1>1. CASE SaveVaultRewrite(t)
    BY <1>1, TmpStep DEF SaveVaultRewrite, Exists
  <1>2. CASE pc[t] = "rename" /\ cid'[t] = cid[t] /\ tmp'[cid[t]] = tmp[cid[t]]
    <2> DEFINE c == cid[t]
    <2>1. c \in Convs /\ c \in born /\ lock = t /\ lock # None
      BY <1>2, NoneAssumption DEF StoreInv, TypeOK, TurnsHaveIds, LockDiscipline
    <2>2. tmp[c] \in File /\ tmp[c].vaults # <<>> /\ (file[c] # NoFile => tmp[c].lines = file[c].lines)
      BY <1>2 DEF StoreInv, RewriteIsCurrent, Exists
    <2>3. \A u \in Tasks : pc[u] = "rename" => u = t
      BY <2>1 DEF StoreInv, LockDiscipline
    <2>4. file'[c] = file[c] \/ file'[c] = NoFile
      BY <2>1, <2>3, FileSteps DEF FileStep
    <2> QED
      BY <1>2, <2>2, <2>4
  <1> QED
    BY <1>1, <1>2, RenameStep

-----------------------------------------------------------------------------
\* The store's invariant: write_lock is held by the one task about to rename,
\* and what that task is about to rename over a conversation's file has every
\* line of the file, whatever other tasks, rotation and crashes do.
THEOREM StoreInvariant == Spec => []StoreInv
  <1>1. StoreInv /\ [Next]_vars => StoreInv'
    BY TypeStep, LockStep, TurnStep, RewriteStep DEF StoreInv
  <1> QED
    BY <1>1, InitInv, PTL DEF Spec

\* No line that batch_insert_messages, insert_message or insert_detections
\* appended is lost before rotation deletes the file.
THEOREM LinesNeverLostHolds == Spec => LinesNeverLost
  <1>1. ASSUME StoreInv, [Next]_vars, NEW c \in Convs, Exists(c), Exists(c)'
        PROVE  Extends(file[c].lines, file'[c].lines)
    <2>1. file[c] \in File /\ file[c].lines \in Seq(Line) /\ c \in born
      BY <1>1, FileUpdates DEF StoreInv, TypeOK, Exists, FilesHaveIds
    <2>2. Extends(file[c].lines, file[c].lines)
      BY <2>1, ExtendsItself
    <2>3. \A t \in Tasks : pc[t] = "rename" /\ cid[t] = c => tmp[c].lines = file[c].lines
      BY <1>1 DEF StoreInv, RewriteIsCurrent
    <2> QED
      BY <1>1, <2>1, <2>2, <2>3, FileSteps DEF FileStep, Exists
  <1>2. StoreInv /\ [Next]_vars =>
          [\A c \in Convs : (Exists(c) /\ Exists(c)') => Extends(file[c].lines, file'[c].lines)]_file
    BY <1>1
  <1> QED
    BY <1>2, StoreInvariant, PTL DEF Spec, LinesNeverLost

\* save_vault replaces a vault line by a rename, so no crash and no other task
\* finds the file without one.
THEOREM VaultLineStaysHolds == Spec => VaultLineStays
  <1>1. ASSUME StoreInv, [Next]_vars, NEW c \in Convs, Exists(c), Exists(c)', file[c].vaults # <<>>
        PROVE  file'[c].vaults # <<>>
    <2>1. c \in born
      BY <1>1 DEF StoreInv, FilesHaveIds
    <2>2. \A t \in Tasks : pc[t] = "rename" /\ cid[t] = c => tmp[c].vaults # <<>>
      BY <1>1 DEF StoreInv, RewriteIsCurrent
    <2> QED
      BY <1>1, <2>1, <2>2, FileSteps DEF FileStep, Exists
  <1>2. StoreInv /\ [Next]_vars =>
          [\A c \in Convs : (Exists(c) /\ Exists(c)' /\ file[c].vaults # <<>>)
                             => file'[c].vaults # <<>>]_file
    BY <1>1
  <1> QED
    BY <1>2, StoreInvariant, PTL DEF Spec, VaultLineStays

-----------------------------------------------------------------------------
(* Turns of one conversation that do not overlap *)

\* No two tasks are on the same conversation. A client that waits for the response before it
\* sends the next message of a conversation keeps to this; two connections that carry the same
\* conversation at the same time do not.
Alone == \A t, u \in Tasks : cid[t] # None /\ cid[u] = cid[t] => t = u

\* What a step may do to a conversation's file, to its last saved vault and to its stored history.
Left(c)     == file'[c] = file[c]
Deleted(c)  == file'[c] = NoFile
Created(c)  == c \notin born /\ file'[c] \in File /\ file'[c].lines = <<>> /\ file'[c].vaults = <<>>
Noted(c)    == /\ Exists(c) /\ file'[c] \in File /\ file'[c].vaults = file[c].vaults
               /\ \E l \in Line : l.kind # "request" /\ file'[c].lines = Append(file[c].lines, l)
Batched(c, t) ==
  /\ pc[t] = "append" /\ pc'[t] = "response" /\ cid[t] = c
  /\ Exists(c) /\ file'[c] \in File /\ file'[c].vaults = file[c].vaults
  /\ file'[c].lines = file[c].lines \o NewLines(seen[t].count, req[t].len)
  /\ acked'[c] = IF req[t].len > acked[c] THEN req[t].len ELSE acked[c]
Appended(c, t) ==
  /\ pc[t] = "saveLock" /\ pc'[t] = "idle" /\ cid[t] = c /\ LockedContent(t).vaults = <<>>
  /\ Exists(c) /\ file'[c] \in File /\ file'[c].lines = file[c].lines
  /\ file'[c].vaults = Append(file[c].vaults, seen[t].vault) /\ saved'[c] = seen[t].vault
Renamed(c, t) ==
  /\ pc[t] = "rename" /\ pc'[t] = "idle" /\ cid[t] = c
  /\ file'[c] = tmp[c] /\ saved'[c] = seen[t].vault

Effect(c) ==
  \/ (Left(c) \/ Deleted(c) \/ Created(c) \/ Noted(c)) /\ saved'[c] = saved[c] /\ acked'[c] = acked[c]
  \/ \E t \in Tasks : Batched(c, t) /\ saved'[c] = saved[c]
  \/ \E t \in Tasks : (Appended(c, t) \/ Renamed(c, t)) /\ acked'[c] = acked[c]

\* The effects of the steps of a turn.
LEMMA TurnEffects ==
  ASSUME StoreInv, NEW t \in Tasks, Turn(t)
  PROVE  \A c \in Convs : Effect(c)
  <1> USE NoFileIsNoFile
  <1>0. /\ file \in [Convs -> File \cup {NoFile}] /\ saved \in [Convs -> Vaults \cup {None}] /\ acked \in [Convs -> Nat]
        /\ pc \in [Tasks -> Phases] /\ today \in Nat
        /\ \A c \in Convs : Exists(c) => file[c] \in File
        /\ pc[t] \notin {"idle", "insert"} => cid[t] \in Convs
        /\ pc[t] # "idle" => req[t] \in Request
        /\ seen[t].count \in Nat /\ (pc[t] = "saveLock" => seen[t].vault \in Vaults)
    BY BoundAssumption DEF StoreInv, TypeOK, Exists, TurnsHaveIds
  <1>1. ASSUME UNCHANGED <<file, saved, acked>> PROVE \A c \in Convs : Effect(c)
    BY <1>1 DEF Effect, Left
  <1>2. ASSUME NEW c \in Convs, InsertConversation(t, c) PROVE \A d \in Convs : Effect(d)
    <2> DEFINE g == [day |-> today, fp |-> req[t].fp, lines |-> <<>>, vaults |-> <<>>]
    <2>1. c \notin born /\ file' = [file EXCEPT ![c] = g] /\ UNCHANGED <<saved, acked>> /\ pc[t] = "insert"
      BY <1>2 DEF InsertConversation, Goto, ghosts
    <2>2. req[t].fp \in Fingerprints
      BY <1>0, <2>1 DEF Request
    <2>3. g \in File /\ g.lines = <<>> /\ g.vaults = <<>>
      BY <1>0, <2>2 DEF File
    <2> HIDE DEF g
    <2> QED
      BY <1>0, <2>1, <2>3 DEF Effect, Left, Created
  <1>3. ASSUME NEW detected \in BOOLEAN, BatchInsertMessages(t, detected) PROVE \A d \in Convs : Effect(d)
    <2> DEFINE c == cid[t]
               new == NewLines(seen[t].count, req[t].len)
    <2>1. /\ pc[t] = "append" /\ pc' = [pc EXCEPT ![t] = "response"] /\ UNCHANGED saved
          /\ \/ /\ Exists(c) /\ file' = [file EXCEPT ![c].lines = @ \o new]
                /\ acked' = [acked EXCEPT ![c] = IF req[t].len > @ THEN req[t].len ELSE @]
             \/ UNCHANGED <<file, acked>>
      BY <1>3 DEF BatchInsertMessages, Goto
    <2>2. CASE UNCHANGED <<file, acked>>
      BY <1>1, <2>1, <2>2
    <2>3. CASE /\ Exists(c) /\ file' = [file EXCEPT ![c].lines = @ \o new]
               /\ acked' = [acked EXCEPT ![c] = IF req[t].len > @ THEN req[t].len ELSE @]
      <3>1. c \in Convs /\ file[c] \in File /\ req[t].len \in Nat
        BY <1>0, <2>1, <2>3 DEF Request
      <3>2. new \in Seq(Line)
        BY <1>0, <3>1, NewLinesType
      <3> HIDE DEF new
      <3>3. file[c].lines \o new \in Seq(Line)
        BY <3>1, <3>2, FileUpdates
      <3> DEFINE g == [file[c] EXCEPT !.lines = file[c].lines \o new]
      <3>4. g \in File /\ g.lines = file[c].lines \o new /\ g.vaults = file[c].vaults
        BY <3>1, <3>3, FileUpdates
      <3>5. file' = [file EXCEPT ![c] = g]
        BY <2>3
      <3> HIDE DEF g
      <3>6. file'[c] = g /\ \A d \in Convs \ {c} : file'[d] = file[d] /\ acked'[d] = acked[d]
        BY <1>0, <2>3, <3>1, <3>5
      <3>7. acked'[c] = IF req[t].len > acked[c] THEN req[t].len ELSE acked[c]
        BY <1>0, <2>3, <3>1
      <3>8. Batched(c, t)
        BY <1>0, <2>1, <2>3, <3>4, <3>6, <3>7 DEF Batched, new
      <3> QED
        BY <2>1, <3>6, <3>8 DEF Effect, Left
    <2> QED
      BY <2>1, <2>2, <2>3
  <1>4. ASSUME InsertMessage(t) PROVE \A d \in Convs : Effect(d)
    <2> DEFINE c == cid[t]
               l == [kind |-> "response", idx |-> 0]
    <2>1. pc[t] = "response" /\ UNCHANGED <<saved, acked>> /\ (file' = file \/ (Exists(c) /\ file' = [file EXCEPT ![c] = WithLine(@, l)]))
      BY <1>4 DEF InsertMessage, Goto, ghosts
    <2>2. CASE Exists(c) /\ file' = [file EXCEPT ![c] = WithLine(@, l)]
      <3>1. c \in Convs /\ file[c] \in File
        BY <1>0, <2>1, <2>2
      <3>2. l \in Line /\ l.kind # "request"
        BY DEF Line
      <3> HIDE DEF l
      <3>3. WithLine(file[c], l) \in File /\ WithLine(file[c], l).lines = Append(file[c].lines, l)
            /\ WithLine(file[c], l).vaults = file[c].vaults
        BY <3>1, <3>2, FileUpdates, AppendExtends DEF WithLine
      <3> QED
        BY <1>0, <2>1, <2>2, <3>1, <3>2, <3>3 DEF Effect, Left, Noted
    <2> QED
      BY <1>1, <2>1, <2>2
  <1>5. ASSUME SaveVaultAppend(t) PROVE \A d \in Convs : Effect(d)
    <2> DEFINE c == cid[t]
               v == seen[t].vault
    <2>1. /\ pc[t] = "saveLock" /\ pc' = [pc EXCEPT ![t] = "idle"] /\ UNCHANGED acked /\ LockedContent(t).vaults = <<>>
          /\ \/ Exists(c) /\ file' = [file EXCEPT ![c].vaults = Append(@, v)] /\ saved' = [saved EXCEPT ![c] = v]
             \/ UNCHANGED <<file, saved>>
      BY <1>5 DEF SaveVaultAppend, Goto
    <2>2. CASE UNCHANGED <<file, saved>>
      BY <1>1, <2>1, <2>2
    <2>3. CASE Exists(c) /\ file' = [file EXCEPT ![c].vaults = Append(@, v)] /\ saved' = [saved EXCEPT ![c] = v]
      <3>1. c \in Convs /\ file[c] \in File /\ v \in Vaults
        BY <1>0, <2>1, <2>3
      <3> HIDE DEF v
      <3>2. Append(file[c].vaults, v) \in Seq(Vaults)
        BY <3>1, FileUpdates
      <3> DEFINE g == [file[c] EXCEPT !.vaults = Append(file[c].vaults, v)]
      <3>3. g \in File /\ g.lines = file[c].lines /\ g.vaults = Append(file[c].vaults, v)
        BY <3>1, <3>2, FileUpdates
      <3>4. file' = [file EXCEPT ![c] = g]
        BY <2>3
      <3> HIDE DEF g
      <3>5. file'[c] = g /\ saved'[c] = v /\ \A d \in Convs \ {c} : file'[d] = file[d] /\ saved'[d] = saved[d]
        BY <1>0, <2>3, <3>1, <3>4
      <3>6. Appended(c, t)
        BY <1>0, <2>1, <2>3, <3>3, <3>5 DEF Appended, v
      <3> QED
        BY <2>1, <3>5, <3>6 DEF Effect, Left
    <2> QED
      BY <2>1, <2>2, <2>3
  <1>6. ASSUME SaveVaultRename(t) PROVE \A d \in Convs : Effect(d)
    <2> DEFINE c == cid[t]
               v == seen[t].vault
    <2>1. /\ pc[t] = "rename" /\ pc' = [pc EXCEPT ![t] = "idle"] /\ UNCHANGED acked
          /\ file' = [file EXCEPT ![c] = tmp[c]] /\ saved' = [saved EXCEPT ![c] = v]
      BY <1>6 DEF SaveVaultRename, Goto
    <2>2. c \in Convs
      BY <1>0, <2>1
    <2> HIDE DEF v
    <2>3. file'[c] = tmp[c] /\ saved'[c] = v /\ \A d \in Convs \ {c} : file'[d] = file[d] /\ saved'[d] = saved[d]
      BY <1>0, <2>1, <2>2
    <2>4. Renamed(c, t)
      BY <1>0, <2>1, <2>3 DEF Renamed, v
    <2> QED
      BY <2>1, <2>3, <2>4 DEF Effect, Left
  <1>7. ASSUME ~(\E c \in Convs : InsertConversation(t, c)), ~(\E detected \in BOOLEAN : BatchInsertMessages(t, detected)),
               ~InsertMessage(t), ~SaveVaultAppend(t), ~SaveVaultRename(t)
        PROVE  UNCHANGED <<file, saved, acked>>
    BY <1>7 DEF Turn, Find, CountRequestMessages, EmptyResponse, SaveVaultRead, SaveVaultRewrite, ghosts
  <1> QED
    BY <1>1, <1>2, <1>3, <1>4, <1>5, <1>6, <1>7

\* Every step has one of these effects on each conversation.
LEMMA Effects ==
  ASSUME StoreInv, [Next]_vars
  PROVE  \A c \in Convs : Effect(c)
  <1>0. file \in [Convs -> File \cup {NoFile}] /\ \A c \in Convs : Exists(c) => file[c] \in File
    BY DEF StoreInv, TypeOK, Exists
  <1>1. ASSUME UNCHANGED <<file, saved, acked>> PROVE \A c \in Convs : Effect(c)
    BY <1>1 DEF Effect, Left
  <1>2. ASSUME NEW c \in Convs, InsertDetections(c) PROVE \A d \in Convs : Effect(d)
    <2> DEFINE l == [kind |-> "detection", idx |-> 0]
    <2>1. UNCHANGED <<saved, acked>> /\ (file' = file \/ (Exists(c) /\ file' = [file EXCEPT ![c] = WithLine(@, l)]))
      BY <1>2 DEF InsertDetections, ghosts
    <2>2. CASE Exists(c) /\ file' = [file EXCEPT ![c] = WithLine(@, l)]
      <3>1. file[c] \in File
        BY <1>0, <2>2
      <3>2. l \in Line /\ l.kind # "request"
        BY DEF Line
      <3> HIDE DEF l
      <3>3. WithLine(file[c], l) \in File /\ WithLine(file[c], l).lines = Append(file[c].lines, l)
            /\ WithLine(file[c], l).vaults = file[c].vaults
        BY <3>1, <3>2, FileUpdates, AppendExtends DEF WithLine
      <3> QED
        BY <1>0, <2>1, <2>2, <3>1, <3>2, <3>3 DEF Effect, Left, Noted
    <2> QED
      BY <1>1, <2>1, <2>2
  <1>3. ASSUME NEW c \in Convs, RotateDelete(c) PROVE \A d \in Convs : Effect(d)
    BY <1>0, <1>3 DEF RotateDelete, ghosts, Effect, Left, Deleted
  <1>4. ASSUME UNCHANGED vars \/ RotateStart \/ RotateEnd \/ Midnight \/ Restart PROVE \A c \in Convs : Effect(c)
    <2>1. UNCHANGED <<file, saved, acked>>
      BY <1>4 DEF vars, ghosts, RotateStart, RotateEnd, Midnight, Restart
    <2> QED
      BY <1>1, <2>1
  <1> QED
    BY <1>2, <1>3, <1>4, TurnEffects DEF Next

\* The request lines of a sequence of lines.
Requests(lines) == {j \in DOMAIN lines : lines[j].kind = "request"}

\* The request lines are numbered 1..n, each number once.
Numbers(lines, n) ==
  /\ \A j \in Requests(lines) : lines[j].idx \in 1..n
  /\ \A i \in 1..n : \E j \in Requests(lines) : lines[j].idx = i
  /\ \A j, k \in Requests(lines) : lines[j].idx = lines[k].idx => j = k

\* The lines hold the first a messages of a history, and perhaps more.
Holds(lines, a) == \E n \in Nat : n >= a /\ Numbers(lines, n)

\* A request line is one of finitely many.
LEMMA RequestsFinite ==
  ASSUME NEW lines \in Seq(Line)
  PROVE  IsFiniteSet(Requests(lines))
  <1>1. DOMAIN lines = 1..Len(lines) /\ Len(lines) \in Nat
    OBVIOUS
  <1>2. IsFiniteSet(1..Len(lines))
    BY <1>1, FS_Interval
  <1>3. Requests(lines) \in SUBSET (1..Len(lines))
    BY <1>1 DEF Requests
  <1> QED
    BY <1>2, <1>3, FS_Subset

\* Lines numbered 1..n hold n requests, which is what count_request_messages counts.
LEMMA NumbersCount ==
  ASSUME NEW lines \in Seq(Line), NEW n \in Nat, Numbers(lines, n)
  PROVE  Cardinality(Requests(lines)) = n
  <1> DEFINE R == Requests(lines)
             f == [j \in R |-> lines[j].idx]
  <1>0. /\ \A j \in R : lines[j].idx \in 1..n
        /\ \A i \in 1..n : \E j \in R : lines[j].idx = i
        /\ \A j, k \in R : lines[j].idx = lines[k].idx => j = k
    BY DEF Numbers
  <1>1. IsFiniteSet(R)
    BY RequestsFinite
  <1> HIDE DEF R
  <1>2. f \in [R -> 1..n] /\ \A j \in R : f[j] = lines[j].idx
    BY <1>0
  <1> HIDE DEF f
  <1>3. f \in Injection(R, 1..n)
    BY <1>0, <1>2 DEF Injection, IsInjective
  <1>4. f \in Surjection(R, 1..n)
    BY <1>0, <1>2 DEF Surjection
  <1>5. ExistsBijection(R, 1..n)
    BY <1>3, <1>4 DEF Bijection, ExistsBijection
  <1>6. Cardinality(1..n) = Cardinality(R)
    BY <1>1, <1>5, FS_Bijection
  <1>7. Cardinality(1..n) = n
    BY FS_Interval
  <1> QED
    BY <1>6, <1>7 DEF R

\* ... and each message in one line.
LEMMA NumbersOnce ==
  ASSUME NEW lines, NEW n \in Nat, Numbers(lines, n), NEW i \in 1..n
  PROVE  Cardinality({j \in Requests(lines) : lines[j].idx = i}) = 1
  <1>1. PICK k \in Requests(lines) : lines[k].idx = i
    BY DEF Numbers
  <1>2. {j \in Requests(lines) : lines[j].idx = i} = {k}
    BY <1>1 DEF Numbers
  <1> QED
    BY <1>2, FS_Singleton

\* A response or a detection line is not a request line.
LEMMA RequestsNoted ==
  ASSUME NEW lines \in Seq(Line), NEW l \in Line, l.kind # "request"
  PROVE  /\ Requests(Append(lines, l)) = Requests(lines)
         /\ \A j \in Requests(lines) : Append(lines, l)[j] = lines[j]
  <1>1. /\ DOMAIN lines = 1..Len(lines) /\ DOMAIN Append(lines, l) = 1..(Len(lines) + 1) /\ Len(lines) \in Nat
        /\ \A j \in 1..Len(lines) : Append(lines, l)[j] = lines[j]
        /\ Append(lines, l)[Len(lines) + 1] = l
    OBVIOUS
  <1> QED
    BY <1>1 DEF Requests

\* Such a line disturbs no numbering.
LEMMA NumbersNoted ==
  ASSUME NEW lines \in Seq(Line), NEW l \in Line, l.kind # "request", NEW n \in Nat, Numbers(lines, n)
  PROVE  Numbers(Append(lines, l), n)
  <1> DEFINE more == Append(lines, l)
  <1>1. Requests(more) = Requests(lines) /\ \A j \in Requests(lines) : more[j] = lines[j]
    BY RequestsNoted
  <1> HIDE DEF more
  <1>2. Numbers(more, n)
    BY <1>1 DEF Numbers
  <1> QED
    BY <1>2 DEF more

\* batch_insert_messages continues the numbering when its count is the number of request lines.
LEMMA NumbersMore ==
  ASSUME NEW lines \in Seq(Line), NEW n \in Nat, Numbers(lines, n), NEW len \in Nat
  PROVE  Numbers(lines \o NewLines(n, len), IF len > n THEN len ELSE n)
  <1> DEFINE new == NewLines(n, len)
             all == lines \o new
             m   == IF len > n THEN len ELSE n
  <1>1. new \in Seq(Line)
    BY NewLinesType
  <1>2. Len(new) = m - n /\ \A i \in 1..Len(new) : new[i].kind = "request" /\ new[i].idx = n + i
    <2>1. CASE len > n
      <3>1. len - n \in Nat /\ m = len
        BY <2>1
      <3>2. DOMAIN new = 1..(len - n)
        BY DEF NewLines
      <3>3. Len(new) = len - n
        BY <1>1, <3>1, <3>2
      <3> QED
        BY <3>1, <3>3 DEF NewLines
    <2>2. CASE ~(len > n)
      <3>1. 1..(len - n) = {} /\ m = n
        BY <2>2
      <3>2. DOMAIN new = {}
        BY <3>1 DEF NewLines
      <3>3. Len(new) = 0
        BY <1>1, <3>2
      <3> QED
        BY <3>1, <3>3
    <2> QED
      BY <2>1, <2>2
  <1>3. m \in Nat /\ m >= n /\ Len(lines) \in Nat
    OBVIOUS
  <1> HIDE DEF new, m
  <1>4. /\ DOMAIN lines = 1..Len(lines) /\ DOMAIN all = 1..(Len(lines) + (m - n))
        /\ \A j \in 1..Len(lines) : all[j] = lines[j]
        /\ \A i \in 1..(m - n) : all[Len(lines) + i] = new[i]
    <2>1. /\ DOMAIN lines = 1..Len(lines) /\ DOMAIN all = 1..(Len(lines) + Len(new))
          /\ \A j \in 1..Len(lines) : all[j] = lines[j]
      BY <1>1
    <2>2. ASSUME NEW i \in 1..Len(new) PROVE all[Len(lines) + i] = new[i]
      <3>1. Len(lines) \in Nat /\ Len(new) \in Nat
        BY <1>1
      <3>2. Len(lines) + i \in 1..(Len(lines) + Len(new)) /\ ~(Len(lines) + i <= Len(lines))
            /\ Len(lines) + i - Len(lines) = i
        BY <3>1
      <3> QED
        BY <1>1, <3>1, <3>2
    <2> QED
      BY <1>2, <2>1, <2>2
  <1> HIDE DEF all
  <1>5. \A j \in Requests(all) : \/ j \in Requests(lines) /\ all[j].idx = lines[j].idx
                                 \/ j > Len(lines) /\ all[j].idx = n + (j - Len(lines)) /\ j \in Int
                                    /\ j - Len(lines) \in 1..(m - n)
    <2> SUFFICES ASSUME NEW j \in Requests(all)
                 PROVE  \/ j \in Requests(lines) /\ all[j].idx = lines[j].idx
                        \/ j > Len(lines) /\ all[j].idx = n + (j - Len(lines)) /\ j \in Int
                           /\ j - Len(lines) \in 1..(m - n)
      OBVIOUS
    <2>1. CASE j <= Len(lines)
      BY <1>3, <1>4, <2>1 DEF Requests
    <2>2. CASE j > Len(lines)
      <3>1. j - Len(lines) \in 1..(m - n) /\ j \in Int /\ Len(lines) + (j - Len(lines)) = j
        BY <1>3, <1>4, <2>2 DEF Requests
      <3>2. all[j] = new[j - Len(lines)]
        BY <1>4, <3>1
      <3> QED
        BY <1>2, <2>2, <3>1, <3>2
    <2> QED
      BY <1>3, <1>4, <2>1, <2>2 DEF Requests
  <1>6. \A j \in Requests(lines) : j \in Requests(all) /\ all[j].idx = lines[j].idx
    BY <1>3, <1>4 DEF Requests
  <1>7. \A i \in 1..(m - n) : Len(lines) + i \in Requests(all) /\ all[Len(lines) + i].idx = n + i
    <2> SUFFICES ASSUME NEW i \in 1..(m - n)
                 PROVE  Len(lines) + i \in Requests(all) /\ all[Len(lines) + i].idx = n + i
      OBVIOUS
    <2>1. Len(lines) + i \in DOMAIN all
      BY <1>3, <1>4
    <2>2. all[Len(lines) + i] = new[i] /\ new[i].kind = "request" /\ new[i].idx = n + i
      BY <1>2, <1>4
    <2> QED
      BY <2>1, <2>2 DEF Requests
  <1>8. /\ \A j \in Requests(lines) : lines[j].idx \in 1..n
        /\ \A i \in 1..n : \E j \in Requests(lines) : lines[j].idx = i
        /\ \A j, k \in Requests(lines) : lines[j].idx = lines[k].idx => j = k
    BY DEF Numbers
  <1>9. \A j \in Requests(all) : all[j].idx \in 1..m
    BY <1>3, <1>5, <1>8
  <1>10. ASSUME NEW i \in 1..m PROVE \E j \in Requests(all) : all[j].idx = i
    <2>1. CASE i <= n
      BY <1>6, <1>8, <1>3, <2>1
    <2>2. CASE i > n
      <3>1. i - n \in 1..(m - n) /\ n + (i - n) = i
        BY <1>3, <2>2
      <3> QED
        BY <1>7, <3>1
    <2> QED
      BY <1>3, <2>1, <2>2
  <1>11. ASSUME NEW j \in Requests(all), NEW k \in Requests(all), all[j].idx = all[k].idx PROVE j = k
    BY <1>3, <1>5, <1>8, <1>11
  <1>12. Numbers(all, m)
    BY <1>9, <1>10, <1>11 DEF Numbers
  <1> QED
    BY <1>12 DEF all, new, m

-----------------------------------------------------------------------------
(* What a turn knows stays true while it is alone on its conversation *)

\* An id that is not in use has neither a saved vault nor a stored history.
Fresh == \A c \in Convs : c \notin born => saved[c] = None /\ acked[c] = 0

\* When the first read of save_vault shows no vault line, there is none.
VaultRead == \A t \in Tasks :
  pc[t] = "saveLock" /\ Exists(cid[t]) /\ seen[t].pre.vaults = <<>> => file[cid[t]].vaults = <<>>

\* The temporary file starts with the vault that is being saved.
VaultWritten == \A t \in Tasks : pc[t] = "rename" => tmp[cid[t]].vaults[1] = seen[t].vault

\* The file of a conversation holds the history that has been stored.
HistoryHeld == \A c \in Convs : Exists(c) => Holds(file[c].lines, acked[c])

\* What count_request_messages returned is still the number of request lines.
CountCurrent == \A t \in Tasks :
  pc[t] = "append" /\ Exists(cid[t]) => seen[t].count = Cardinality(RequestLines(file[cid[t]]))

\* So does the temporary file that is about to replace it.
RewriteHolds == \A t \in Tasks : pc[t] = "rename" => Holds(tmp[cid[t]].lines, acked[cid[t]])

AloneInv == Fresh /\ VaultRead /\ VaultWritten /\ LoadReturnsLastSave
            /\ HistoryHeld /\ CountCurrent /\ RewriteHolds

\* The phases in which a turn relies on what it has read.
Relying == {"append", "saveLock", "rename"}

\* A turn enters such a phase by reading, and keeps what it has read.
LEMMA RelyStep ==
  ASSUME StoreInv, [Next]_vars, NEW t \in Tasks, pc'[t] \in Relying
  PROVE  \/ CountRequestMessages(t)
         \/ \E v \in Vaults : SaveVaultRead(t, v)
         \/ SaveVaultRewrite(t)
         \/ pc'[t] = pc[t] /\ cid'[t] = cid[t] /\ seen'[t] = seen[t]
  <1> USE DEF Goto, Relying
  <1>1. /\ pc \in [Tasks -> Phases] /\ cid \in [Tasks -> Convs \cup {None}] /\ DOMAIN seen = Tasks
    BY DEF StoreInv, TypeOK
  <1>2. ASSUME NEW u \in Tasks, Turn(u), u # t
        PROVE  pc'[t] = pc[t] /\ cid'[t] = cid[t] /\ seen'[t] = seen[t]
    BY <1>1, <1>2 DEF Turn, Find, InsertConversation, CountRequestMessages, BatchInsertMessages,
       EmptyResponse, InsertMessage, SaveVaultRead, SaveVaultAppend, SaveVaultRewrite, SaveVaultRename, EndTurn
  <1>3. ASSUME Turn(t), ~CountRequestMessages(t), ~(\E v \in Vaults : SaveVaultRead(t, v)), ~SaveVaultRewrite(t)
        PROVE  FALSE
    BY <1>1, <1>3 DEF Turn, Find, InsertConversation, BatchInsertMessages,
       EmptyResponse, InsertMessage, SaveVaultAppend, SaveVaultRename
  <1>4. ASSUME Restart PROVE FALSE
    BY <1>4 DEF Restart
  <1> QED
    BY <1>2, <1>3, <1>4 DEF Next, vars, taskVars, InsertDetections, RotateStart,
       RotateDelete, RotateEnd, Midnight

\* While a turn relies on what it has read of a conversation and is alone on it, the
\* conversation's file is left, deleted, or gains a line that is not a request.
LEMMA OthersOnly ==
  ASSUME StoreInv, Alone, [Next]_vars, NEW t \in Tasks, pc[t] \in Relying, pc'[t] = pc[t]
  PROVE  LET c == cid[t] IN /\ c \in Convs /\ saved'[c] = saved[c] /\ acked'[c] = acked[c]
                            /\ Left(c) \/ Deleted(c) \/ Noted(c)
  <1> DEFINE c == cid[t]
  <1>1. c \in Convs /\ c \in born
    BY DEF StoreInv, TypeOK, TurnsHaveIds, Relying
  <1>2. c # None
    BY <1>1, NoneAssumption
  <1>3. \A u \in Tasks : cid[u] = c => u = t
    BY <1>2 DEF Alone
  <1>4. \A u \in Tasks : ~Batched(c, u) /\ ~Appended(c, u) /\ ~Renamed(c, u)
    BY <1>3 DEF Batched, Appended, Renamed
  <1> HIDE DEF c
  <1>5. Effect(c)
    BY <1>1, Effects
  <1>6. ~Created(c)
    BY <1>1 DEF Created
  <1> QED
    BY <1>1, <1>4, <1>5, <1>6 DEF Effect, c

\* A file of the store has lines and vault lines.
LEMMA FileParts ==
  ASSUME StoreInv, NEW c \in Convs, Exists(c)
  PROVE  file[c] \in File /\ file[c].lines \in Seq(Line) /\ file[c].vaults \in Seq(Vaults)
  <1>1. file[c] \in File
    BY DEF StoreInv, TypeOK, Exists
  <1> QED
    BY <1>1, FileUpdates

\* The initial state.
LEMMA AloneInit == Init => AloneInv
  <1> SUFFICES ASSUME Init PROVE AloneInv
    OBVIOUS
  <1>1. Fresh /\ \A c \in Convs : ~Exists(c)
    BY DEF Init, Fresh, Exists
  <1>2. \A t \in Tasks : pc[t] \notin Relying
    BY DEF Init, Relying
  <1> QED
    BY <1>1, <1>2 DEF AloneInv, VaultRead, VaultWritten, LoadReturnsLastSave, HistoryHeld, CountCurrent,
       RewriteHolds, Relying

\* Ids stay fresh until they are used.
LEMMA FreshStep ==
  ASSUME StoreInv, Fresh, [Next]_vars
  PROVE  Fresh'
  <1>1. born \subseteq born'
    BY DEF Next, Turn, vars, taskVars, Find, InsertConversation, CountRequestMessages,
       BatchInsertMessages, InsertDetections, EmptyResponse, InsertMessage, SaveVaultRead,
       SaveVaultAppend, SaveVaultRewrite, SaveVaultRename, RotateStart, RotateDelete, RotateEnd,
       Midnight, Restart
  <1>2. ASSUME NEW c \in Convs, c \notin born' PROVE saved'[c] = None /\ acked'[c] = 0
    <2>1. c \notin born /\ saved[c] = None /\ acked[c] = 0
      BY <1>1, <1>2 DEF Fresh
    <2>2. \A u \in Tasks : ~Batched(c, u) /\ ~Appended(c, u) /\ ~Renamed(c, u)
      BY <2>1 DEF Batched, Appended, Renamed, StoreInv, TurnsHaveIds
    <2>3. Effect(c)
      BY Effects
    <2> QED
      BY <2>1, <2>2, <2>3 DEF Effect
  <1> QED
    BY <1>2 DEF Fresh

\* What save_vault read before the lock still holds when it has the lock.
LEMMA VaultReadStep ==
  ASSUME StoreInv, Alone, VaultRead, [Next]_vars
  PROVE  VaultRead'
  <1> SUFFICES ASSUME NEW t \in Tasks, pc'[t] = "saveLock", file'[cid'[t]] # NoFile, seen'[t].pre.vaults = <<>>
               PROVE  file'[cid'[t]].vaults = <<>>
    BY DEF VaultRead, Exists
  <1>1. CASE \E v \in Vaults : SaveVaultRead(t, v)
    <2>1. PICK v \in Vaults : SaveVaultRead(t, v)
      BY <1>1
    <2>2. pc \in [Tasks -> Phases] /\ DOMAIN seen = Tasks
      BY DEF StoreInv, TypeOK
    <2>3. seen'[t].pre = file[cid[t]] /\ cid' = cid /\ file' = file
      BY <2>1, <2>2 DEF SaveVaultRead, Goto
    <2> QED
      BY <2>3
  <1>2. CASE pc'[t] = pc[t] /\ cid'[t] = cid[t] /\ seen'[t] = seen[t]
    <2> DEFINE c == cid[t]
    <2>1. c \in Convs /\ (Left(c) \/ Deleted(c) \/ Noted(c))
      BY <1>2, OthersOnly DEF Relying
    <2>2. Exists(c) /\ file'[c].vaults = file[c].vaults
      BY <1>2, <2>1 DEF Left, Deleted, Noted, Exists
    <2> QED
      BY <1>2, <2>2 DEF VaultRead
  <1>3. pc \in [Tasks -> Phases]
    BY DEF StoreInv, TypeOK
  <1>4. ~CountRequestMessages(t) /\ ~SaveVaultRewrite(t)
    BY <1>3 DEF CountRequestMessages, SaveVaultRewrite, Goto
  <1> QED
    BY <1>1, <1>2, <1>4, RelyStep DEF Relying

\* The rewrite replaces the first vault line of a file that exists.
LEMMA RewriteSaves ==
  ASSUME StoreInv, NEW t \in Tasks, SaveVaultRewrite(t)
  PROVE  LET c == cid[t] IN
         /\ c \in Convs /\ Exists(c) /\ cid' = cid /\ seen' = seen /\ file' = file
         /\ saved' = saved /\ acked' = acked
         /\ tmp'[c].lines = file[c].lines /\ tmp'[c].vaults[1] = seen[t].vault
  <1> DEFINE c == cid[t]
             f == LockedContent(t)
  <1>1. pc[t] = "saveLock" /\ f.vaults # <<>> /\ tmp' = [tmp EXCEPT ![c] = Rewritten(f, seen[t].vault)]
        /\ cid' = cid /\ seen' = seen /\ file' = file /\ saved' = saved /\ acked' = acked
    BY DEF SaveVaultRewrite, Goto, ghosts
  <1>2. c \in Convs /\ DOMAIN tmp = Convs
    BY <1>1 DEF StoreInv, TypeOK, TurnsHaveIds
  <1>3. f = file[c]
    BY <1>1 DEF LockedContent
  <1>4. Exists(c)
    BY <1>1, <1>3 DEF Exists, NoFile
  <1>5. f \in File /\ f.vaults \in Seq(Vaults) /\ f.vaults # <<>>
    BY <1>1, <1>2, <1>3, <1>4, FileParts
  <1>6. tmp'[c] = Rewritten(f, seen[t].vault)
    BY <1>1, <1>2
  <1> HIDE DEF f
  <1>7. 1 \in DOMAIN f.vaults
    BY <1>5
  <1>8. Rewritten(f, seen[t].vault).lines = f.lines /\ Rewritten(f, seen[t].vault).vaults[1] = seen[t].vault
    BY <1>5, <1>7 DEF Rewritten, File
  <1> QED
    BY <1>1, <1>2, <1>3, <1>4, <1>6, <1>8

\* The temporary file keeps the vault that is being saved.
LEMMA VaultWrittenStep ==
  ASSUME StoreInv, VaultWritten, [Next]_vars
  PROVE  VaultWritten'
  <1> SUFFICES ASSUME NEW t \in Tasks, pc'[t] = "rename"
               PROVE  tmp'[cid'[t]].vaults[1] = seen'[t].vault
    BY DEF VaultWritten
  <1>1. CASE SaveVaultRewrite(t)
    BY <1>1, RewriteSaves
  <1>2. CASE ~SaveVaultRewrite(t)
    <2>1. pc[t] = "rename" /\ cid'[t] = cid[t] /\ tmp'[cid[t]] = tmp[cid[t]]
      BY <1>2, RenameStep
    <2>2. ~CountRequestMessages(t) /\ ~\E v \in Vaults : SaveVaultRead(t, v)
      BY <2>1 DEF CountRequestMessages, SaveVaultRead, Goto
    <2>3. seen'[t] = seen[t]
      BY <1>2, <2>2, RelyStep DEF Relying
    <2> QED
      BY <2>1, <2>3 DEF VaultWritten
  <1> QED
    BY <1>1, <1>2

\* load_vault keeps returning the last vault that was saved.
LEMMA LoadStep ==
  ASSUME StoreInv, Alone, AloneInv, [Next]_vars
  PROVE  LoadReturnsLastSave'
  <1> SUFFICES ASSUME NEW c \in Convs, file'[c] # NoFile, saved'[c] # None
               PROVE  file'[c].vaults # <<>> /\ file'[c].vaults[1] = saved'[c]
    BY DEF LoadReturnsLastSave, LoadVault, Exists
  <1>1. ASSUME Exists(c), saved[c] # None PROVE file[c].vaults # <<>> /\ file[c].vaults[1] = saved[c]
    BY <1>1 DEF AloneInv, LoadReturnsLastSave, LoadVault
  <1>2. ASSUME Exists(c), file'[c].vaults = file[c].vaults, saved'[c] = saved[c]
        PROVE  file'[c].vaults # <<>> /\ file'[c].vaults[1] = saved'[c]
    BY <1>1, <1>2
  <1>3. CASE (Left(c) \/ Deleted(c) \/ Created(c) \/ Noted(c)) /\ saved'[c] = saved[c]
    <2>1. ~Deleted(c)
      BY DEF Deleted
    <2>2. ~Created(c)
      BY <1>3 DEF Created, AloneInv, Fresh
    <2> QED
      BY <1>2, <1>3, <2>1, <2>2 DEF Left, Noted, Exists
  <1>4. ASSUME NEW t \in Tasks, Batched(c, t), saved'[c] = saved[c]
        PROVE  file'[c].vaults # <<>> /\ file'[c].vaults[1] = saved'[c]
    BY <1>2, <1>4 DEF Batched
  <1>5. ASSUME NEW t \in Tasks, Appended(c, t)
        PROVE  file'[c].vaults # <<>> /\ file'[c].vaults[1] = saved'[c]
    <2>1. /\ pc[t] = "saveLock" /\ cid[t] = c /\ LockedContent(t).vaults = <<>> /\ Exists(c)
          /\ file'[c].vaults = Append(file[c].vaults, seen[t].vault) /\ saved'[c] = seen[t].vault
      BY <1>5 DEF Appended
    <2>2. file[c].vaults = <<>>
      BY <2>1 DEF LockedContent, AloneInv, VaultRead
    <2>3. seen[t].vault \in Vaults
      BY <2>1 DEF StoreInv, TurnsHaveIds
    <2>4. ASSUME NEW v PROVE Append(<<>>, v) # <<>> /\ Append(<<>>, v)[1] = v
      OBVIOUS
    <2> QED
      BY <2>1, <2>2, <2>4
  <1>6. ASSUME NEW t \in Tasks, Renamed(c, t)
        PROVE  file'[c].vaults # <<>> /\ file'[c].vaults[1] = saved'[c]
    BY <1>6 DEF Renamed, AloneInv, VaultWritten, StoreInv, RewriteIsCurrent
  <1>7. Effect(c)
    BY Effects
  <1> QED
    BY <1>3, <1>4, <1>5, <1>6, <1>7 DEF Effect

\* A line that is not a request keeps the history that a file holds.
LEMMA HoldsNoted ==
  ASSUME NEW lines \in Seq(Line), NEW l \in Line, l.kind # "request", NEW a \in Nat, Holds(lines, a)
  PROVE  Holds(Append(lines, l), a)
  <1>1. PICK n \in Nat : n >= a /\ Numbers(lines, n)
    BY DEF Holds
  <1>2. Numbers(Append(lines, l), n)
    BY <1>1, NumbersNoted
  <1> QED
    BY <1>1, <1>2 DEF Holds

\* A batch that starts at the current count completes the history of its request.
LEMMA HoldsMore ==
  ASSUME NEW lines \in Seq(Line), NEW a \in Nat, Holds(lines, a), NEW len \in Nat
  PROVE  Holds(lines \o NewLines(Cardinality(Requests(lines)), len), IF len > a THEN len ELSE a)
  <1> DEFINE k == Cardinality(Requests(lines))
  <1>1. PICK n \in Nat : n >= a /\ Numbers(lines, n)
    BY DEF Holds
  <1>2. k = n
    BY <1>1, NumbersCount
  <1> HIDE DEF k
  <1>3. Numbers(lines \o NewLines(k, len), IF len > n THEN len ELSE n)
    BY <1>1, <1>2, NumbersMore
  <1>4. (IF len > n THEN len ELSE n) \in Nat /\ (IF len > n THEN len ELSE n) >= (IF len > a THEN len ELSE a)
    BY <1>1
  <1>5. Holds(lines \o NewLines(k, len), IF len > a THEN len ELSE a)
    BY <1>3, <1>4 DEF Holds
  <1> QED
    BY <1>5 DEF k

\* An empty file holds the empty history.
LEMMA HoldsNothing == Holds(<<>>, 0)
  <1>1. DOMAIN <<>> = {}
    OBVIOUS
  <1>2. Requests(<<>>) = {}
    BY <1>1 DEF Requests
  <1>3. Numbers(<<>>, 0)
    BY <1>2 DEF Numbers
  <1> QED
    BY <1>3 DEF Holds

\* The count stays current until the batch is written.
LEMMA CountStep ==
  ASSUME StoreInv, Alone, CountCurrent, [Next]_vars
  PROVE  CountCurrent'
  <1> SUFFICES ASSUME NEW t \in Tasks, pc'[t] = "append", file'[cid'[t]] # NoFile
               PROVE  seen'[t].count = Cardinality(Requests(file'[cid'[t]].lines))
    BY DEF CountCurrent, Exists, RequestLines, Requests
  <1>0. pc \in [Tasks -> Phases] /\ seen \in [Tasks -> [count : Nat, pre : File \cup {NoFile}, vault : Vaults \cup {None}]]
    BY DEF StoreInv, TypeOK
  <1>1. CASE CountRequestMessages(t)
    <2>1. /\ seen' = [seen EXCEPT ![t].count = Cardinality(RequestLines(file[cid[t]]))]
          /\ cid' = cid /\ file' = file
      BY <1>1 DEF CountRequestMessages
    <2>2. seen'[t].count = Cardinality(RequestLines(file[cid[t]]))
      BY <1>0, <2>1
    <2> QED
      BY <2>1, <2>2 DEF RequestLines, Requests
  <1>2. CASE pc'[t] = pc[t] /\ cid'[t] = cid[t] /\ seen'[t] = seen[t]
    <2> DEFINE c == cid[t]
    <2>1. c \in Convs /\ (Left(c) \/ Deleted(c) \/ Noted(c))
      BY <1>2, OthersOnly DEF Relying
    <2>2. Exists(c)
      BY <1>2, <2>1 DEF Left, Deleted, Noted, Exists
    <2>3. seen[t].count = Cardinality(Requests(file[c].lines))
      BY <1>2, <2>2 DEF CountCurrent, RequestLines, Requests
    <2>4. Requests(file'[c].lines) = Requests(file[c].lines)
      <3>1. CASE Left(c)
        BY <3>1 DEF Left
      <3>2. CASE Noted(c)
        <4>1. PICK l \in Line : l.kind # "request" /\ file'[c].lines = Append(file[c].lines, l)
          BY <3>2 DEF Noted
        <4>2. file[c].lines \in Seq(Line)
          BY <2>1, <2>2, FileParts
        <4> QED
          BY <4>1, <4>2, RequestsNoted
      <3>3. ~Deleted(c)
        BY <1>2 DEF Deleted
      <3> QED
        BY <2>1, <3>1, <3>2, <3>3
    <2> QED
      BY <1>2, <2>3, <2>4
  <1>3. ~SaveVaultRewrite(t) /\ ~\E v \in Vaults : SaveVaultRead(t, v)
    BY <1>0 DEF SaveVaultRewrite, SaveVaultRead, Goto
  <1> QED
    BY <1>1, <1>2, <1>3, RelyStep DEF Relying

\* The temporary file holds the stored history until it is renamed.
LEMMA RewriteHoldsStep ==
  ASSUME StoreInv, Alone, HistoryHeld, RewriteHolds, [Next]_vars
  PROVE  RewriteHolds'
  <1> SUFFICES ASSUME NEW t \in Tasks, pc'[t] = "rename"
               PROVE  Holds(tmp'[cid'[t]].lines, acked'[cid'[t]])
    BY DEF RewriteHolds
  <1>1. CASE SaveVaultRewrite(t)
    <2> DEFINE c == cid[t]
    <2>1. c \in Convs /\ Exists(c) /\ cid' = cid /\ acked' = acked /\ tmp'[c].lines = file[c].lines
      BY <1>1, RewriteSaves
    <2>2. Holds(file[c].lines, acked[c])
      BY <2>1 DEF HistoryHeld
    <2> QED
      BY <2>1, <2>2
  <1>2. CASE ~SaveVaultRewrite(t)
    <2>1. pc[t] = "rename" /\ cid'[t] = cid[t] /\ tmp'[cid[t]] = tmp[cid[t]]
      BY <1>2, RenameStep
    <2>2. acked'[cid[t]] = acked[cid[t]]
      BY <2>1, OthersOnly DEF Relying
    <2>3. Holds(tmp[cid[t]].lines, acked[cid[t]])
      BY <2>1 DEF RewriteHolds
    <2> QED
      BY <2>1, <2>2, <2>3
  <1> QED
    BY <1>1, <1>2

\* Every file keeps holding the stored history.
LEMMA HistoryStep ==
  ASSUME StoreInv, AloneInv, [Next]_vars
  PROVE  HistoryHeld'
  <1> SUFFICES ASSUME NEW c \in Convs, file'[c] # NoFile
               PROVE  Holds(file'[c].lines, acked'[c])
    BY DEF HistoryHeld, Exists
  <1>0. acked[c] \in Nat
    BY DEF StoreInv, TypeOK
  <1>1. ASSUME Exists(c) PROVE file[c].lines \in Seq(Line) /\ Holds(file[c].lines, acked[c])
    BY <1>1, FileParts DEF AloneInv, HistoryHeld
  <1>2. CASE (Left(c) \/ Deleted(c) \/ Created(c) \/ Noted(c)) /\ acked'[c] = acked[c]
    <2>1. CASE Left(c)
      BY <1>1, <1>2, <2>1 DEF Left, Exists
    <2>2. CASE Deleted(c)
      BY <2>2 DEF Deleted
    <2>3. CASE Created(c)
      BY <1>2, <2>3, HoldsNothing DEF Created, AloneInv, Fresh
    <2>4. CASE Noted(c)
      <3>1. PICK l \in Line : l.kind # "request" /\ file'[c].lines = Append(file[c].lines, l)
        BY <2>4 DEF Noted
      <3>2. Exists(c)
        BY <2>4 DEF Noted
      <3>3. Holds(Append(file[c].lines, l), acked[c])
        BY <1>0, <1>1, <3>1, <3>2, HoldsNoted
      <3> QED
        BY <1>2, <3>1, <3>3
    <2> QED
      BY <1>2, <2>1, <2>2, <2>3, <2>4
  <1>3. ASSUME NEW t \in Tasks, Batched(c, t) PROVE Holds(file'[c].lines, acked'[c])
    <2>1. /\ pc[t] = "append" /\ cid[t] = c /\ Exists(c)
          /\ file'[c].lines = file[c].lines \o NewLines(seen[t].count, req[t].len)
          /\ acked'[c] = IF req[t].len > acked[c] THEN req[t].len ELSE acked[c]
      BY <1>3 DEF Batched
    <2>2. seen[t].count = Cardinality(Requests(file[c].lines))
      BY <2>1 DEF AloneInv, CountCurrent, RequestLines, Requests
    <2>3. req[t].len \in Nat
      BY <2>1 DEF StoreInv, TurnsHaveIds, Request
    <2>4. Holds(file[c].lines \o NewLines(Cardinality(Requests(file[c].lines)), req[t].len),
                IF req[t].len > acked[c] THEN req[t].len ELSE acked[c])
      BY <1>0, <1>1, <2>1, <2>3, HoldsMore
    <2> QED
      BY <2>1, <2>2, <2>4
  <1>4. ASSUME NEW t \in Tasks, Appended(c, t), acked'[c] = acked[c] PROVE Holds(file'[c].lines, acked'[c])
    BY <1>1, <1>4 DEF Appended
  <1>5. ASSUME NEW t \in Tasks, Renamed(c, t), acked'[c] = acked[c] PROVE Holds(file'[c].lines, acked'[c])
    BY <1>5 DEF Renamed, AloneInv, RewriteHolds
  <1>6. Effect(c)
    BY Effects
  <1> QED
    BY <1>2, <1>3, <1>4, <1>5, <1>6 DEF Effect

\* When no two turns are on one conversation at a time, what a turn has read before it takes
\* write_lock is still true when it holds it.
THEOREM AloneInvariant == Spec /\ []Alone => []AloneInv
  <1>1. StoreInv /\ Alone /\ AloneInv /\ [Next]_vars => AloneInv'
    BY FreshStep, VaultReadStep, VaultWrittenStep, LoadStep, HistoryStep, CountStep, RewriteHoldsStep
       DEF AloneInv
  <1> QED
    BY <1>1, AloneInit, StoreInvariant, PTL DEF Spec

\* load_vault returns the vault of the last save_vault that succeeded, across rotation and
\* restarts, when no two turns are on one conversation at a time.
THEOREM LoadReturnsLastSaveAlone == Spec /\ []Alone => []LoadReturnsLastSave
  <1>1. AloneInv => LoadReturnsLastSave
    BY DEF AloneInv
  <1> QED
    BY <1>1, AloneInvariant, PTL

\* The messages of every history that was stored are in the file, each in one request line,
\* when no two turns are on one conversation at a time.
THEOREM HistoryStoredOnceAlone == Spec /\ []Alone => []HistoryStoredOnce
  <1>1. StoreInv /\ AloneInv => HistoryStoredOnce
    <2> SUFFICES ASSUME StoreInv, AloneInv, NEW c \in Convs, Exists(c), NEW i \in 1..acked[c]
                 PROVE  Cardinality({j \in Requests(file[c].lines) : file[c].lines[j].idx = i}) = 1
      BY DEF HistoryStoredOnce, RequestLines, Requests
    <2>1. PICK n \in Nat : n >= acked[c] /\ Numbers(file[c].lines, n)
      BY DEF AloneInv, HistoryHeld, Holds
    <2>2. i \in 1..n
      BY <2>1 DEF StoreInv, TypeOK
    <2> QED
      BY <2>1, <2>2, NumbersOnce
  <1> QED
    BY <1>1, AloneInvariant, StoreInvariant, PTL
=============================================================================
