--------------------------- MODULE VaultRegistry ---------------------------
(***************************************************************************)
(* The registry of PII vaults (src/src/pii/vault.rs, VaultRegistry) as the *)
(* connections of the proxy use it.  A connection runs one turn at a time: *)
(* it resolves the key of the turn's vault, merges a vault it kept under   *)
(* its own session id, obtains a handle, lets the PII pipeline add         *)
(* mappings, forwards the request, and saves the vault when the response   *)
(* has been streamed.  The registry's mutex covers MergeInto, Lookup,      *)
(* Insert and EvictExpired; the load from storage between Lookup and       *)
(* Insert, and the save, run outside it.                                   *)
(*                                                                         *)
(* A vault is abstracted to the set of original values it can reverse.  A  *)
(* handle (Arc<RwLock<PiiVault>>) that neither the map nor a turn refers   *)
(* to has been dropped, and may stand for a later allocation.              *)
(***************************************************************************)
EXTENDS Naturals, FiniteSets

CONSTANTS
  Conns,         \* client connections; each is also its own session_uuid
  Convs,         \* conversation ids
  Handles,       \* vault allocations
  Originals,     \* PII values that clients send
  None,          \* no handle / no conversation
  TTLCoversTurn  \* TRUE: a turn ends before its vault's TTL does

Keys == Conns \cup Convs

ASSUME KeysAssumption == Conns \cap Convs = {}
ASSUME NoneAssumption == None \notin Handles /\ None \notin Keys
ASSUME TTLAssumption  == TTLCoversTurn \in BOOLEAN

VARIABLES
  map,       \* registry: key -> handle
  heap,      \* handle -> contents of the vault it points to
  disk,      \* conversation -> contents of its persisted vault line
  pc,        \* where each connection's turn is
  key,       \* the key of the turn's vault (pii_cid)
  conv,      \* shared_conv_id: the last conversation the connection resolved
  held,      \* the turn's handle
  buf,       \* contents read from disk (load), or snapshot to be saved (save)
  sent       \* originals whose synthetics this turn has forwarded

vars == <<map, heap, disk, pc, key, conv, held, buf, sent>>

Phases == {"idle", "merge", "lookup", "load", "insert", "pipeline", "streaming", "save"}

TypeOK ==
  /\ map  \in [Keys -> Handles \cup {None}]
  /\ heap \in [Handles -> SUBSET Originals]
  /\ disk \in [Convs -> SUBSET Originals]
  /\ pc   \in [Conns -> Phases]
  /\ key  \in [Conns -> Keys]
  /\ conv \in [Conns -> Convs \cup {None}]
  /\ held \in [Conns -> Handles \cup {None}]
  /\ buf  \in [Conns -> SUBSET Originals]
  /\ sent \in [Conns -> SUBSET Originals]

Init ==
  /\ map  = [k \in Keys |-> None]
  /\ heap = [h \in Handles |-> {}]
  /\ disk = [k \in Convs |-> {}]
  /\ pc   = [c \in Conns |-> "idle"]
  /\ key  = [c \in Conns |-> c]
  /\ conv = [c \in Conns |-> None]
  /\ held = [c \in Conns |-> None]
  /\ buf  = [c \in Conns |-> {}]
  /\ sent = [c \in Conns |-> {}]

Goto(c, from, to) ==
  /\ pc[c] = from
  /\ pc' = [pc EXCEPT ![c] = to]

\* What the conversation file (none for a session key) yields to load_or_create.
Persisted(k) == IF k \in Convs THEN disk[k] ELSE {}

\* An allocation that nothing refers to.
Fresh(h) == h \in Handles /\ (\A k \in Keys : map[k] # h) /\ (\A c \in Conns : held[c] # h)

-----------------------------------------------------------------------------
(* A turn, step by step *)

\* Phase A resolved the request to conversation k (c2u.rs).
TurnOfConversation(c, k) ==
  /\ Goto(c, "idle", "merge")
  /\ key'  = [key EXCEPT ![c] = k]
  /\ conv' = [conv EXCEPT ![c] = k]
  /\ UNCHANGED <<map, heap, disk, held, buf, sent>>

\* Phase A failed: fall back to the last conversation, or to the session id.
TurnWithoutConversation(c) ==
  /\ Goto(c, "idle", "lookup")
  /\ key' = [key EXCEPT ![c] = IF conv[c] # None THEN conv[c] ELSE c]
  /\ UNCHANGED <<map, heap, disk, conv, held, buf, sent>>

\* Mutants: the merge puts the session's vault in place of the conversation's;
\* the merge leaves the session's entry behind.
MergeIntoRekeys(c) ==
  /\ Goto(c, "merge", "lookup")
  /\ map' = IF map[c] = None THEN map ELSE [map EXCEPT ![c] = None, ![key[c]] = map[c]]
  /\ UNCHANGED <<heap, disk, key, conv, held, buf, sent>>
MergeIntoKeepsEntry(c) ==
  /\ Goto(c, "merge", "lookup")
  /\ map' = IF map[c] = None \/ map[key[c]] # None THEN map ELSE [map EXCEPT ![key[c]] = map[c]]
  /\ UNCHANGED <<heap, disk, key, conv, held, buf, sent>>

\* merge_into(session_uuid, real_cid), one critical section.
MergeInto(c) ==
  /\ Goto(c, "merge", "lookup")
  /\ LET into == key[c] IN
     \/ /\ map[c] = None
        /\ UNCHANGED <<map, heap>>
     \/ /\ map[c] # None /\ map[into] # None
        /\ map'  = [map EXCEPT ![c] = None]
        /\ heap' = [heap EXCEPT ![map[into]] = @ \cup heap[map[c]]]
     \/ /\ map[c] # None /\ map[into] = None /\ Persisted(into) = {}
        /\ map' = [map EXCEPT ![c] = None, ![into] = map[c]]
        /\ UNCHANGED heap
     \/ /\ map[c] # None /\ map[into] = None /\ Persisted(into) # {}
        /\ \E h \in Handles :
             /\ Fresh(h)
             /\ map'  = [map EXCEPT ![c] = None, ![into] = h]
             /\ heap' = [heap EXCEPT ![h] = Persisted(into) \cup heap[map[c]]]
  /\ UNCHANGED <<disk, key, conv, held, buf, sent>>

\* get_or_create_with_store, first critical section: hit, or go and load.
Lookup(c) ==
  /\ \/ /\ map[key[c]] # None
        /\ Goto(c, "lookup", "pipeline")
        /\ held' = [held EXCEPT ![c] = map[key[c]]]
     \/ /\ map[key[c]] = None
        /\ Goto(c, "lookup", "load")
        /\ UNCHANGED held
  /\ UNCHANGED <<map, heap, disk, key, conv, buf, sent>>

\* load_or_create, outside the lock.
Load(c) ==
  /\ Goto(c, "load", "insert")
  /\ buf' = [buf EXCEPT ![c] = Persisted(key[c])]
  /\ UNCHANGED <<map, heap, disk, key, conv, held, sent>>

\* A new vault with what was loaded is registered.
Register(c) ==
  \E h \in Handles :
    /\ Fresh(h)
    /\ map'  = [map EXCEPT ![key[c]] = h]
    /\ heap' = [heap EXCEPT ![h] = buf[c]]
    /\ held' = [held EXCEPT ![c] = h]

\* Mutant: no second look at the registry after the load.
InsertUnchecked(c) ==
  /\ Goto(c, "insert", "pipeline")
  /\ Register(c)
  /\ buf' = [buf EXCEPT ![c] = {}]
  /\ UNCHANGED <<disk, key, conv, sent>>

\* get_or_create_with_store, second critical section: the double check.
Insert(c) ==
  /\ Goto(c, "insert", "pipeline")
  /\ \/ /\ map[key[c]] # None
        /\ held' = [held EXCEPT ![c] = map[key[c]]]
        /\ UNCHANGED <<map, heap>>
     \/ /\ map[key[c]] = None
        /\ Register(c)
  /\ buf' = [buf EXCEPT ![c] = {}]
  /\ UNCHANGED <<disk, key, conv, sent>>

\* process_request_body_async maps the request's PII under the vault's write
\* lock; the request is then forwarded with the synthetics.
Pipeline(c, S) ==
  /\ Goto(c, "pipeline", "streaming")
  /\ heap' = [heap EXCEPT ![held[c]] = @ \cup S]
  /\ sent' = [sent EXCEPT ![c] = S]
  /\ UNCHANGED <<map, disk, key, conv, held, buf>>

\* The turn ends: its handle and what it promised are dropped.
EndTurn(c) ==
  /\ held' = [held EXCEPT ![c] = None]
  /\ sent' = [sent EXCEPT ![c] = {}]
  /\ buf'  = [buf  EXCEPT ![c] = {}]

\* finalize_response with text: the vault is copied under its read lock.
Snapshot(c) ==
  /\ Goto(c, "streaming", "save")
  /\ conv[c] # None
  /\ heap[held[c]] # {}
  /\ buf' = [buf EXCEPT ![c] = heap[held[c]]]
  /\ UNCHANGED <<map, heap, disk, key, conv, held, sent>>

\* save_vault writes the copy to the conversation's file.
Save(c) ==
  /\ Goto(c, "save", "idle")
  /\ disk' = [disk EXCEPT ![conv[c]] = buf[c]]
  /\ EndTurn(c)
  /\ UNCHANGED <<map, heap, key, conv>>

\* finalize_response that returns early (no conversation, no text, an empty
\* vault), or a turn that failed: nothing is saved.
EndWithoutSave(c) ==
  /\ Goto(c, "streaming", "idle")
  /\ EndTurn(c)
  /\ UNCHANGED <<map, heap, disk, key, conv>>

-----------------------------------------------------------------------------
(* The registry's housekeeping, and the process *)

\* Mutant: getting a handle does not refresh last_accessed.
EvictAnytime(k) ==
  /\ map[k] # None
  /\ map' = [map EXCEPT ![k] = None]
  /\ UNCHANGED <<heap, disk, pc, key, conv, held, buf, sent>>

\* evict_expired drops an entry whose TTL has passed; the handles that
\* connections hold stay alive.  Getting a handle refreshes last_accessed, so
\* a TTL that covers a turn spares the entry a turn has its handle from.
EvictExpired(k) ==
  /\ map[k] # None
  /\ TTLCoversTurn => \A c \in Conns : held[c] # None => key[c] # k
  /\ map' = [map EXCEPT ![k] = None]
  /\ UNCHANGED <<heap, disk, pc, key, conv, held, buf, sent>>

\* The process stops and starts again: only the disk survives.
Restart ==
  /\ map'  = [k \in Keys |-> None]
  /\ heap' = [h \in Handles |-> {}]
  /\ pc'   = [c \in Conns |-> "idle"]
  /\ key'  = [c \in Conns |-> c]
  /\ conv' = [c \in Conns |-> None]
  /\ held' = [c \in Conns |-> None]
  /\ buf'  = [c \in Conns |-> {}]
  /\ sent' = [c \in Conns |-> {}]
  /\ UNCHANGED disk

Turn(c) ==
  \/ \E k \in Convs : TurnOfConversation(c, k)
  \/ TurnWithoutConversation(c)
  \/ MergeInto(c)
  \/ Lookup(c)
  \/ Load(c)
  \/ Insert(c)
  \/ \E S \in SUBSET Originals : Pipeline(c, S)
  \/ Snapshot(c)
  \/ Save(c)
  \/ EndWithoutSave(c)

Next ==
  \/ \E c \in Conns : Turn(c)
  \/ \E k \in Keys : EvictExpired(k)
  \/ Restart

Spec == Init /\ [][Next]_vars

-----------------------------------------------------------------------------
(* Properties *)

\* What a request for key k would find: the registered vault, or the disk.
Visible(k) == IF map[k] # None THEN heap[map[k]] ELSE Persisted(k)

\* Two connections that are in a turn of the same conversation share one vault
\* instance: the double check of get_or_create_with_store and the single
\* critical section of merge_into never let a second instance in.
OneVaultPerKey ==
  \A c, d \in Conns :
    (held[c] # None /\ held[d] # None /\ key[c] = key[d]) => held[c] = held[d]

\* No vault is registered under two keys, so merging a session's vault never
\* leaves its mappings reachable from a second conversation, and merge_into
\* never write-locks the vault it is reading.
NoSharedVault ==
  \A k, l \in Keys : (map[k] # None /\ map[k] = map[l]) => k = l

\* Until the response of a turn has been handled, every original the turn
\* replaced can be reversed by the instance the turn holds and by whatever
\* another request of the conversation would get from the registry.
MappingsReachable ==
  \A c \in Conns : pc[c] \in {"streaming", "save"} =>
    sent[c] \subseteq heap[held[c]] /\ sent[c] \subseteq Visible(key[c])

\* A save never takes a mapping out of a conversation's persisted vault.
PersistedVaultGrows ==
  [][\A k \in Convs : disk[k] \subseteq disk'[k]]_disk

-----------------------------------------------------------------------------
(* The inductive invariant behind OneVaultPerKey and MappingsReachable *)

\* A turn holds a handle from Lookup or Insert on, and not before.
HeldPhases == \A c \in Conns : held[c] # None <=> pc[c] \in {"pipeline", "streaming", "save"}

\* Only a connection's own turns use its session id as a key, and a merge
\* always goes into a conversation.
SessionKeysPrivate ==
  \A c \in Conns : /\ key[c] \in Conns => key[c] = c
                   /\ pc[c] = "merge" => key[c] \in Convs

\* A turn's handle is the registered one as long as its key is not evicted.
HeldIsRegistered ==
  TTLCoversTurn => \A c \in Conns : held[c] # None => map[key[c]] = held[c]

\* Vaults only grow while a turn holds them.
SentIsMapped ==
  \A c \in Conns : pc[c] \in {"streaming", "save"} => sent[c] \subseteq heap[held[c]]

RegistryInv ==
  TypeOK /\ HeldPhases /\ SessionKeysPrivate /\ NoSharedVault /\ HeldIsRegistered /\ SentIsMapped
=============================================================================
