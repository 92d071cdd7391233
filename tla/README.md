# Privacyclaw in TLA+

Privacyclaw is a local proxy between a program and the APIs of language models.
It terminates TLS with a certificate authority of its own, replaces personal data
(PII) in requests by synthetic values, reverses the replacement in the streamed
responses, and keeps a log of the conversations. This directory holds TLA+
specifications of its core, the TLC configurations that check them and TLAPS
proofs. Source paths are relative to the repository's `src/`.

A `V` before a run in the tables below marks a run that TLC must find violated:
it shows a statement of the repository's documentation that the code does not keep.

## 1. Inventory

| Part | State | Operations | Talks to | What is hard, and what makes it correct |
|---|---|---|---|---|
| Connection set-up (`proxy/{mod,connect,network,passthrough}.rs`) | per connection: name, upstream link, client's TLS | accept, read the CONNECT line or peek at the hello, resolve past `/etc/hosts`, connect, answer, accept TLS | certificate cache, session, and itself through the redirect | time limits on some waits and none on others; the proxy's own upstream connections may come back to it. A client is told of a tunnel only when it stands, exactly the configured names are intercepted, and set-up ends |
| Session (`proxy/intercept/{mod,c2u,u2c,pii_sse,backoff}.rs`) | `shared_conv_id`, `shared_vault`, `upstream_gone`, two one-shot signals; framing state, `ReplacementBuffer`, `accumulated` per response | read, find conversation, mask, forward; read, unmask, accumulate, finalize, close | store, registry, pipeline, buffer | two tasks share mutable state across keep-alive turns; each may fail alone. The client's stream must be well framed, unmasked with the right vault, stored under the right conversation, and both tasks must end |
| HTTP framing and SSE (`framing.rs`, `parser/`) | decoder and parser buffers | push bytes, get events | session | cuts at any byte; the incremental result must equal the one-shot result |
| Pipeline (`pii/mod.rs`, `synth.rs`, tiers) | none of its own | process a request body | vault, sidecar | waits for detectors without the vault's lock; what it writes must be reversible |
| Vault (`pii/vault.rs`, `PiiVault`) | original/synthetic rows, three index maps, automaton | add mapping, replace synthetics, to and from records | pipeline, buffer | the maps must agree with each other |
| Vault registry (`pii/vault.rs`, `VaultRegistry`) | map of keys to shared handles | get or create, merge, evict | sessions, store | load outside the lock, merge, eviction. One vault per conversation; nothing a turn replaced gets lost |
| Replacement buffer (`pii/buffer.rs`) | text held back | process delta, flush | vault | synthetics cut by deltas. Streaming must equal replacing the whole |
| Store (`storage/mod.rs`) | a file per conversation, path cache, `write_lock` | insert, append, save and load vault, rotate | sessions, rotation loop, dashboard | reads before the lock, rename, rotation without the lock, crashes. No line may get lost |
| CA and certificate cache (`ca/`) | key pair in two files, two caches with a mutex each | load, generate, delete; get or create an acceptor or a key | listeners, `init`, `reset-ca` | two files written one after the other; two caches locked in turn. The pair must match, a name must have one key |
| Life cycle (`main.rs`, `pid.rs`, `uninstall.rs`) | PID file, ports, rotation timer | start, stop, init, reset-ca, uninstall, rotate at midnight | everything | signals that run no destructor; commands that act on another process; a PID file with several writers |
| Tray and routing (`tray.rs`, `network_helper.rs`) | menu flags, task handles, `/etc/hosts`, `pf.conf` and its backup | start, stop, toggles, poll, quit; enable, disable | dashboard, listeners | threads that rewrite system files from what they read before a dialog; flags that lag behind the files. Other programs' lines must survive, a stopped proxy must not leave traffic routed to it |
| Configuration (`config.rs`, `cmd_config.rs`) | `config.toml`, `ConfigManager` | load, patch, validate, save; protection levels, wizard | dashboard, tray, start | two processes with a copy each; patch and save are two steps. Tiers must fit together, the file must follow memory |
| Dashboard, model downloads, sidecar (`dashboard/mod.rs`, `models/mod.rs`, `SidecarProcess` in `pii/tier3.rs`) | download tracker, model files, `SidecarHandle` | patch, download, cancel, activate, deactivate, delete, stop | configuration, sidecar | handlers run concurrently; cancel and restart against the old task's clean-up; children that outlive their owner |

A request takes this way: the session's task `c2u` reads it, resolves its
conversation in the store, merges and obtains the conversation's vault from the
registry, lets the pipeline mask the body, stores the messages, shares the vault
with `u2c` and forwards. `u2c` reads the response, passes text through the
replacement buffer, writes it to the client, and at the end of the response stores
the text and saves the vault.

## 2. Modules

| Module | Models | Proofs |
|---|---|---|
| `VaultRegistry` | registry, as the turns of several connections use it; eviction, restart | `VaultProofs` |
| `Store` | conversation files, `save_vault`, rotation, midnight, restart | `StoreProofs` |
| `Session` | one connection: both tasks, client, upstream | `SessionProofs` |
| `Framing` | header scan, chunk decoders, SSE parser over bytes, in the read loops of both tasks | `ConnectionProofs` |
| `ReplacementBuffer` | streaming reverse replacement over characters | `VaultProofs` |
| `PiiPipeline` | `process_request_body_async` on a shared vault | `PiiPipelineProofs` |
| `Tunnel` | abstract: what a listener promises the client of a connection | - |
| `Connect` | both listeners, resolver, TLS on both sides, certificate cache; implements `Tunnel` | `ConnectionProofs` |
| `Routing` | `/etc/hosts`, `pf.conf`, packet filter rules; `enable` and `disable` as jobs | - |
| `Service` | tray, `start` process, commands, PID file, CA files; composes `Routing` | `ServiceProofs` |
| `Subsequences` | the elements of a sequence at a set of positions, in order; used by `Session`, `Routing` and `PiiPipeline` | `SubsequenceProofs` |
| `Settings` | the configuration as a value: defaults, merge, validation, levels | - |
| `Control` | dashboard handlers, downloads, sidecars, `config` command; composes `Settings` | `ControlProofs` |

`MC*` modules instantiate them for TLC and only define constants and symmetry.
Operators whose comment says *Mutant* are variations of a definition with a
plausible mistake; TLC must find the property they are listed with (`PROJECT.json`,
`mutants`) violated when they are put in the definition's place.

The modules fit together where one abstracts what another details. A vault is a
set of originals in `VaultRegistry`, a key in `Session`, an opaque value in
`Store`, and has its rows and maps in `PiiPipeline`. A turn is a sequence of
registry steps in `VaultRegistry`, of store steps in `Store`, and of reads and
writes in `Session`, which names the same points of the code: `PhaseA`,
`ShareVault`, `FinalizeResponse`, `SaveVault`. `Connect` ends where `Session` begins.
`Service` and `Control` share the process life cycle: `Service` has the processes,
ports and system files, and leaves out the configuration except for the flag of the
network listener; `Control` has the configuration and what handlers and downloads
do with it, and sees of the life cycle that a server starts, exits or is killed.

### VaultRegistry

`map` is the registry, `heap` the contents of the vaults, `disk` the persisted vault
lines; `pc`, `key`, `conv`, `held`, `buf` belong to a connection's turn. The actions
are cut where the code gives up a lock: `Lookup` and `Insert` are the two critical
sections of `get_or_create_with_store`, `Load` lies between them; `MergeInto` is one
section with the four cases of the code; `Snapshot` and `Save` are the copy under
the vault's lock and the write after it. `Pipeline` is one step, since the vault is
written under one lock. A handle that nothing refers to may be used for a new
vault, so `Handles` bounds what is alive and not what was ever allocated.
`Restart` may come at any time.

`TTLCoversTurn` says whether a turn ends before its entry expires. The code resets
`last_accessed` when a handle is obtained and not while a response is streamed, so
this is an assumption on the configuration. With `TTLCoversTurn = FALSE`
`MappingsReachable` is violated.

### Store

A task runs the store operations of a turn in the order of `c2u.rs` and `u2c.rs`.
Everything under `write_lock` is one step except the vault rewrite, whose temporary
file and rename are two, with the lock held between them. The first read of
`save_vault`, the count of stored messages, the search by fingerprint, the creation
of a file and every step of `rotate_old` run without it. `Restart` keeps the files,
temporary ones too. An append is one `write_all` and is taken to be atomic.
`acked` and `saved` are history variables.

### Session

Responses are units of their framing (header, text event, sentinel, last chunk;
header and body) and a read returns any nonempty run of them. The client does not
pipeline. The upstream answers a request as soon as it has it and may close at any
time, cleanly or with a reset; the client may close at any time, after which any
write to it may fail. Timeouts (50 ms of polling, 30 s of a stalled write, 120 s
without data) are choices: each may happen whenever its cause is there. `mode` is
`off` (`handle_c2u_passthrough`), `detect` or `replace` (`handle_c2u_pii`).
`Provider`, `SplitTerminator` and `Bodyless` select what the two sides may do.

### Framing

A behaviour is one direction of a connection: up to two requests, read by
`handle_c2u_passthrough` or `handle_c2u_pii`, or one response, read by `handle_u2c`
with or without rewriting. Bytes are integers; the digits of a number are one byte, zero or more, and
a field name and a header line are one negative byte each, since the code never looks for a cut inside
of them. `Encoded` is what a peer writes, `Due` what the other side has to
get, `Told` what has to be logged or handled; they are defined from the message and
not with the code's operators. `ReadRequest` and the two `ReadResponse` actions take
any number of bytes. `pii_mode` says which of the two request handlers runs and whether `u2c` rewrites. `place` names the place in the loop: `header`, `body`, `complete`
in `c2u`; `header`, `decode`, `parse`, `end` in `u2c`, with a step per round of
`ChunkedDecoder::push` and of `SseParser::push`. What follows the end of a response
on a connection is in `Session`. What the code does in a loop over a whole buffer is a function of the position in it
(`LinesFrom`, `DecodedFrom`). `IsResponse` and `IsScript` describe the responses and the sequences of requests that the handlers are written for; section 4 says
what they ask for and why.

### ReplacementBuffer

Texts are sequences of characters, `<p` stands for `<pii id="` and `/` for `</pii>`,
the first character of a token's body for its id. A delta is any text and may end
anywhere, between `<` and `p` too. The cascade's levels, the leftmost-longest matching, the two-byte
trigger and the window of `max_key_len` are those of the code. Both scans are functions of the position
(`ReplacedFrom`, `CascadeFrom`). `mark` is a history variable: where the input and the output were when an
opening was last cut in two, with its `<` gone out before its `p` came in (`CutsOpen`). `StreamingEqualsOneShot` is about the part of the answer from
there on (all of it where nothing was cut so): it comes out as one replacement of this part. `Apart`, `Nested` and
`TokensSettled` say in the property, and in no action, which vaults and texts it is about; section 5 has what happens to the others.

### PiiPipeline

Texts are sequences of cells (a word, a value, or the three cells of a token), so
that tokens are longer than what they replace and offsets shift as they do in the
code. What the detectors find is any set of values, what the sidecar replies any
assignment of display values, any number of them. A new display value is any value, used before or not:
`synth.rs` draws from small tables, returns constants for some types and asks nobody. Requests overlap as they like, with and
without the sidecar. `given` is a history of which original had which synthetic, and `Sole` says of a synthetic that it stood for one original only; the
properties are about those, and say what happens around the others. What the
code does in a loop is a function of the number of rounds (`RestoredTo`, `WrittenTo`,
`AppliedTo`, `UnmaskedEnds`), so that it can be reasoned about one round at a time.

### Connect and Tunnel

A connection's task is at `pc`, and every await of `connect.rs` and `network.rs` is a
place of its own. A CONNECT goes line, headers, dispatch, resolve (two servers), tcp,
utls, reply, told, acceptor, key, build, install, ctls, session; a pass-through leaves out
the TLS of both sides and ends in `bridge`; the transparent listener peeks, makes the
key, accepts the client's TLS and only then looks for the upstream. `get_or_create`
keeps the lock of `acceptor_cache` while `get_or_create_key_inner` takes the one of
`key_cache`; a failed build releases both. An upstream address that is loopback leads
back to the transparent listener (`backlog`, `peer`), as the redirect of port 443 does.
`ClientCloses` may come anywhere; a closed client is noticed by the next read or
write. A timeout is two steps: `Tick`, by which the time of the current wait runs out (`due`), and `Timeout`; any progress in
between begins a new wait, as each header line does with the 30 s of its `read_line` (`DrainHeader`). The write of the 200 (`Reply`) and
the client's TLS handshake (`AcceptTls`) have no timeout and are not in `TimedStates`. `resolve_bypass_hosts` may get an answer, time out, or fail at
once where `bind` or `send_to` does. DNS answers are sequences of records, so that the choice of the first A
record is the code's.

What the code does here and the properties do not speak of: bytes that a client sends
behind the CONNECT head without waiting are lost with the `BufReader`
(`connect.rs:63`); a hello in two segments is seen by one `peek` only, and its
connection is closed; the transparent listener
has no timeouts; its intercepting path has no check for loopback; `is_intercepted`
compares exactly, with case.

`Tunnel` says the same in terms of a client: `phase`, `target`, `linked`, `asks`, `told`,
`shown`. The mapping is at the end of `Connect`: an upstream stands when it has
TLS, or TCP where no TLS is due; what a client was shown is the name of the
certificate its acceptor has.

### Routing and Service

`Routing` has the two files as sequences of lines, tagged or not, and a routing job in
three steps: what `enable` and `disable` compute from the files, the script behind the
administrator's dialog (run or denied), and what follows (the backups, the environment of Node). The script is one step, of which the parts joined by `&&` and `;` may
fail separately: `pf.conf` may be written and the rules not loaded, or the reverse, and `/etc/hosts` is written in any case. It writes a file with `printf '<content>'`, so
that a line with a percent sign comes out changed (`Printed`). Each domain has one tagged line.

`Service` runs jobs in the tray's threads and in commands. The tray handles one event at
a time; its listeners are tasks that bind later than they are spawned (`pending`) and
keep their port after they are aborted (`dying`). `fetch_config_state` clears the check
mark in any case, since the answer has no such key. `excuses` records what may let
routing outlive the proxy and is read by properties only. Another program may add a line to either file at any time (`EditHosts`, `EditPfConf`), while a dialog is open too.
`theirs` and `their_pf` are histories of the foreign lines; `safe` and `safe_pf` are those of them that came while no job held a copy of the file that it
was going to write. A CA file is created empty and then filled, as `fs::write` does, so that a command may die between any two of these steps
(`Empty`). `load_ca` parses the certificate only, so that an empty key is accepted. `uninstall` is a step per step of the code; each of them but the first may
fail, and the next one runs in any case.

Known from the code: a second `start` removes the first one's PID file when it fails; `POST
/api/proxy/stop` is ignored by a tray but removes its PID file; SIGTERM leaves the routing
in place; two commands on the CA at a time, or two crashes, leave a pair that does
not match; `uninstall` does not unset `NODE_EXTRA_CA_CERTS`.

### Settings and Control

`Settings` has a configuration as a record of the keys that are read somewhere, a patch as
a function on some of them, and `Bad` for a value that does not deserialise. In `Control`
a handler's step ends where the code gives up a lock: patch and save are two steps,
as are the check and the registration of a download, and the drop of the old
sidecar, the start of the new one and its storing in the handle. `config.toml` is at first absent or any of `UserFiles`, valid or not, and `UserWrites` puts
one of them there at any time: `load` validates nothing. `author` is a history of who wrote the file last (the user, the program, or the level that a command
has set), `origin` of what the server started from. Whether the Tier 2 model is installed (`Ner`) may change, and `load` looks at it. The `config` command is
a process that loads, may download, and writes what it loaded with its patch. A
child listens on the port or finds it taken and ends; `ServerKilled` leaves children
behind.

Known from the code: downloads write under the name of their URL, while
`is_downloaded` and the clean-up look for `{id}.gguf` and `{id}.onnx`, so that a partial
file stays (`models/mod.rs:180` says it is deleted), each start downloads the automatic
model again, and the clean-up may delete a file that was copied by hand or is
active; a download that is cancelled and started again, and two that are posted at
once, cancel each other; the checksums of three of the four SLMs have 40 digits and never match a
SHA-256, so that their downloads fail; that of the first one, which `ensure_slm_model` takes, has 64 (`models/mod.rs:82`), and both of its branches are possible; of two concurrent activations
the configuration may keep one model and the handle the other; a delete that was
checked before an activation removes the active model; `ensure_slm_model`
starts no sidecar for a model that is there, though `cmd_config` says that `privacyclaw
start` will; the command line and the dashboard overwrite each other's `config.toml`
(`foreign`); the tray's `detect-only` is no level of `protection_level_to_patch`; Tier 3 with
Tier 1 alone is accepted and shown as off; a Tier 2 that `load` has switched off for
want of its model is written back so by the next save; `requires_restart` compares with
the previous configuration and not with the running one.

## 3. Runs

| Run | Configuration | Properties | Shows |
|---|---|---|---|
| `registry` | `MCVaultRegistry.cfg` | `RegistryInv`, `OneVaultPerKey`, `NoSharedVault`, `MappingsReachable` | turns of a conversation share one vault; what a turn replaced stays reversible for it and for others until its response is handled |
| `store` | `MCStore.cfg` | `StoreInv`, `LinesNeverLost`, `VaultLineStays` | two tasks, rotation and restarts lose no line and no vault line |
| `store_single` | `MCStoreSingle.cfg` | `LoadReturnsLastSave`, `HistoryStoredOnce` | turn by turn, with restarts inside of turns, what is loaded is what was saved, and histories are stored once |
| `session_replace` | `MCSessionReplace.cfg` | `ResponseWellFramed`, `TextReversed`, `StoredUnderOwnConversation`, `VaultSavedWithItsConversation`, `StoredBeforeComplete`, `NothingWithheld` | three keep-alive turns in replace mode with closes and failures anywhere |
| `session_live` | `MCSessionLive.cfg` | `ResponseWellFramed`, `NothingWithheld`, `ClientCloseEndsSession`, `UpstreamLossEndsSession` | the three modes under fairness: framing, and both tasks end |
| `framing` | `MCFraming.cfg` | `OutputExact`, `ObservedExact`, `CompleteExactly` | wherever reads and chunks end, requests and responses arrive as they were sent, the bodies and events found are the right ones, and messages end where they end |
| `buffer` | `MCReplacementBuffer.cfg` | `StreamingEqualsOneShot`, `HoldbackBounded` | all texts of up to six characters over two synthetics, a token and stray characters of tags, cut in all ways, inside of a tag too |
| `pipeline` | `MCPiiPipeline.cfg` | `EchoRestored`, `FoundIsReplaced`, `VaultSound` | overlapping requests, repeated synthetics, any replies of the sidecar: a text comes back if its synthetics stood for one original each and the vault has its token; what was found is replaced outside of misplaced zones; the vault's maps agree |
| `connect` | `MCConnect.cfg` | `OneKeyPerHost`, `NoRedirectLoop`, `ImplementsTunnel`, `SetupEnds` | two connections, three names, both listeners: one certificate per name, no loop through the redirect, both listeners implement `Tunnel`, only a client that is there can keep a CONNECT's set-up from ending |
| `service` | `MCService.cfg` | `ForeignLinesKept`, `StopUnroutes`, `UninstallUnroutes`, `CaPairMatches` | any four clicks and commands with overlapping jobs, denials, edits and a death: only lines that came during a dialog get lost, and only those with a percent sign change; stop and uninstall take the routing away, the CA's files match or the key is empty |
| `control` | `MCControl.cfg` | `DiskIsMemory`, `TiersValid`, `NoOrphanSidecar`, `TrackedIsRunning`, `LevelShown` | concurrent handlers, downloads, sidecars, a `config` command and a killed server: the file follows memory, tiers that do not fit come from the user's own file only and end with the first accepted patch, no child or registration is forgotten, and the tray of a server that starts from the file of a `config` command marks its level, or the one that is left of it without the Tier 2 model |
| V `pipeline_two_replies` | `MCPiiPipelineTwoReplies.cfg` | `SlmTokensKnown` | two sidecar replacements in a text get tokens that the vault does not have, and an echo of them comes back swapped |

Deadlock is checked everywhere except in `framing` and `buffer`, where a stream ends,
and in `service` and `control`, where the user may stop giving commands. `Session` has a
step `Over` for a session whose tasks have both ended, `Connect` one for connections that
are all closed.

### Bounds, and why they are enough

- Registry: two connections and one conversation are what a race for a key needs;
  both also have a session key, so merges meet lookups and evictions. Five handles
  are enough that an allocation never has to wait. Two originals tell the union
  of two vaults from either. The theorems lift all of these bounds.
- Store: two tasks, three turns, two conversation ids, two days: a save can find
  the line of an earlier one, and rotation falls anywhere between. `store_single`
  has two vault contents and histories of two messages, so that a second turn has
  a tail to append. The theorems lift the bounds of both; `store_single`'s one task becomes
  the hypothesis `Alone`.
- Session: three turns let state of the first leak into the third past a request
  that does not parse; two text events let one be held back while the next
  arrives; `MaxBuffer = 0` stops accumulation after the first. With fairness two turns are
  used: the end of a session depends on the turn at which it comes only through
  the state that one earlier turn leaves behind. `SessionProofs` lifts the bounds for the
  safety properties.
- Framing: bodies of up to four bytes with digits and line feeds where they can be
  taken for framing, in up to three chunks; two events in LF and CRLF form, in up to
  three chunks that end anywhere; two requests on a connection with every pair of
  framings, the second also early where the first is held back. `ConnectionProofs` lifts these bounds.
- Buffer: keys of two and three characters, one of which ends as the other begins, and a token of four, each cut everywhere, with
  characters before or after (151,641 states). `VaultProofs` lifts these bounds.
- Pipeline: two originals, two requests at a time, texts of together three cells over all requests, so that a text may have two
  replies of the sidecar and something behind them, or two requests one each: the second meets a vault the first has filled, or one loaded from disk
  with or without an id. Three display values are fewer than the requests may ask for, so that they repeat (299,118 states). `PiiPipelineProofs` lifts these
  bounds.
- Connect: two connections race for the locks of one name and are enough for a
  connection that is the other's upstream; a third would have to be the upstream of
  a connection that is itself one, which `NoRedirectLoop` excludes. The three names
  are an intercepted one, one that only a stale `/etc/hosts` maps to loopback, and one whose
  public answer is loopback. Header lines are not counted, so that a client may send them without end (31,347 states). `ConnectionProofs` lifts these bounds for the three safety properties.
- Service: two jobs overlap; four commands are a start, two toggles and a stop, or
  a start, a toggle, an edit and an uninstall; one death. One domain; foreign
  lines in each file, one of them with a percent sign, and edits beside them: the script writes whole files (2,557,165 states). `ServiceProofs` lifts all of these bounds.
- Control: two handlers, two downloads, three children (one stored, one about to be, one
  of the wizard), three requests, one command, one death. The patches meet in
  the tiers: neither breaks `validate_pii_tiers` by itself, both together do; one of the user's files fits and one does not; the level set is three, the one
  that `load` changes most (4,104,672 states). `ControlProofs`
  lifts all of these bounds.

### Fairness

`LiveSpec` has weak fairness for `C2u`, `U2c` and `SendPart`. The first two are
tasks of a multi-threaded runtime that polls what is ready, and every wait of
theirs that is not for a peer has a time limit. The third says that a client that
has begun a request goes on with it or closes. Nothing is assumed of when a
client or an upstream closes.

`LiveSpec` of `Connect` has weak fairness for a task's own steps (`OwnStep`), for `Tick` and `Timeout`, for
`resolve_bypass_hosts`, which has a timeout of its own, and for the failure of a `Reply` or an `AcceptTls` whose client is gone: the runtime polls tasks
that are ready and fires timers, and a write or a read on a closed connection returns. Nothing is assumed of a client or of an upstream. So a
client that is there may keep its task for ever in three ways, and `SetupEnds` says that there are no others: a header line in every 30 s, each of which restarts the timer (`connect.rs:42-55`), not
reading the 200 (`:85`, `:144`), and not going on with the TLS handshake (`:150`). A lock is waited for with weak fairness only: its holder
never waits for a peer. `Service` and `Control` have no fairness, as nothing obliges a
user to click.

## 4. Proofs

All proofs are checked by TLAPS for any values of the constants that satisfy the
named assumptions (`KeysAssumption`, `NoneAssumption`, `TTLAssumption`;
`NoneAssumption`, `BoundAssumption` of `Store`; `HostAssumption` of
`Connect`; `SettingsAssumption`, `ControlAssumption`; those of `Session`, `Routing` and
`Service`; `CellAssumption`, `PipelineBounds`; `VaultAssumption`, `BufferBounds` of `ReplacementBuffer`). Where a theorem has a hypothesis of its own, the
text says which, and what happens without it.

Induction over data is done with sets: `NatInductionSet` in `SubsequenceProofs` says that a set
of numbers that has 0 and with every number the next is all of `Nat`. It has no operator
as a parameter, so it can be cited; a recursive function is first shown to satisfy its equation
(`PickedToDef`, `RestoredToDef`, `WrittenToDef`, `UnmaskedEndsDef`), and the set of lengths for which the claim
holds is then shown to be inductive. A scan that jumps ahead by what it finds is defined by its value at later positions;
`ScanExists` says that such equations have a solution, and `StrongInductionSet` serves for claims about it.

**VaultProofs.** The registry: `RegistryInvariant` (`Spec => []RegistryInv`),
`OneVaultPerKeyHolds`, `NoSharedVaultHolds`, `MappingsReachableHolds`. The properties are not
inductive: that two turns hold the same vault follows from both holding the
registered one (`HeldIsRegistered`). This survives a `MergeInto` of another connection
because session keys are private (`SessionKeysPrivate`) and no vault is registered
twice (`NoSharedVault`), and an eviction because of `TTLCoversTurn`. That mappings are
reachable needs in addition that vaults only grow while they are held
(`SentIsMapped`), for which a handle in use is never taken for a new vault
(`HeldPhases`). `OneVaultPerKey` and `MappingsReachable` are proved under
`TTLCoversTurn`; the rest without it.

The buffer: `StreamingHolds`, `HoldbackBoundedHolds`, for texts of any length, any cuts, any number of synthetics. `HoldbackBounded` needs no
hypothesis. For the other one `StreamInv` has to speak of the future: for *every* continuation `w` of the answer, what is out and the result of
the cascade on the held back text with `w` are the result for the whole (`Ahead`). It is kept because a scan
that has been run on a prefix can be taken up again: at each position of the text the scan either takes a block that no continuation can change
(`BlockStep`), or copies a character (`CharStep`), or stands where a synthetic may be beginning (`WaitStep`); `Shape` says that there is no fourth case, and
`Cuts` that what was replaced once and is scanned again comes out the same, so that it does not matter where `SafeFlushLen` cuts, as long as
nothing is beginning to the left of the cut (`Settles`). An unfinished token is held back as a whole (`Unfinished`). Where a delta ends behind the `<` of an opening, the
argument begins anew with the `p`, on an empty buffer. The theorem has no hypothesis; the property itself is about the vaults and texts of which the code keeps it, and section 5 has a
row for each of the others: `Apart`, no original overlaps a synthetic (`ChainedKey`) and no synthetic is found inside of another before its last
character (`PrefixKeys`); and, of the text, no tag in a tag (`Nested`) and `TokensSettled`: a token that resolves to nothing has no
synthetic in it. `TwoKeysApart` has TLC confirm that the run's vault is one of these.

**StoreProofs.** `StoreInvariant` (`Spec => []StoreInv`), `LinesNeverLostHolds`,
`VaultLineStaysHolds`. The danger is the rename: it replaces a file by a copy that was
made earlier. `RewriteIsCurrent` says that the copy still has all the lines of the
file. It is kept because every append needs `write_lock`, which the renaming task
holds (`LockDiscipline`); because a new conversation has a new id (`FilesHaveIds`); and
because each turn knows its conversation (`TurnsHaveIds`). `FileSteps` sums up all
the ways a step may change a file; the two action properties follow from it.

`LoadReturnsLastSaveAlone` and `HistoryStoredOnceAlone` hold of behaviours in which no two tasks are on
one conversation at a time (`[]Alone`); `OneVaultLine` and `HistoryStored` in section 5 show what two do. `AloneInv` says that
what a task has read without the lock is still true when it relies on it: the vault
lines it saw (`VaultRead`), the count of stored messages (`CountCurrent`), the copy it is about to
rename (`VaultWritten`, `RewriteHolds`), and that a history's messages are in the file once (`HistoryHeld`).
`Effect` lists what a step may do to one conversation's file; each part of the invariant
goes through that list and not through the actions. A client that waits for its answer before it
goes on keeps to `Alone` where `StoredBeforeComplete` of `Session` holds: the store's work of a turn is
done when the client sees the end.

**ConnectionProofs.** The set-up: `ConnectInvariant` (`Spec => []ConnectInv`), `OneKeyPerHostHolds`,
`TunnelImplemented` (`Spec => ImplementsTunnel`). Neither property is inductive. `ConnectInv` has
three parts beside the types: `Progress` says for each place of a task what its connection
has got so far, such as that a CONNECT that is about to be answered has its upstream and that
a transparent one that is about to connect has shown its certificate; `BuildsLocked`, that a key is
built under `key_lock` for a name that has none; `KeysAgree`, that whatever was shown or
captured by an acceptor is the key of its name. One key per name follows from the
last. For the refinement every action is a step of `Tunnel` or invisible to it; the lemmas
`Opens`, `Names`, `Connects`, `Shows`, `Begins`, `Closes` and `Stutters` say which, from the
change of `pc` and from `Progress`, and `TunnelStep` goes through the actions. A certificate
record is assumed to differ from `None` (`HostAssumption`).

`NoRedirectLoopHolds` assumes `PublicAnswers`: no public answer for an intercepted name is loopback, which the intercepting
path does not check. `LoopInv` follows an address to the connection it makes: only a CONNECT is about to
connect to loopback, waits in the backlog, or is the peer of an accepted connection.

The messages on it: `MessagesExact`, `BodiesExact`, `MessagesComplete`, the three properties of `framing`, for any number of requests, and for
messages with any number of chunks and events of any length, and any split of the reads. Each direction has an invariant of its own.

The one of a response (`ResponseInv`) has a disjunct per phase: nothing was sent
(`NothingSent`), the header arrives (`InHeader`), a document is copied (`Document`), an event stream is copied or rewritten (`Streaming`). The last one says where
everything is: of the stream's blocks the first `e` have been handled, the parser's buffer is the beginning of the rest, and `v` is what has not
reached the parser yet. While a stream is copied `v` is what is on the wire. While it is rewritten `v` is what the decoder will make of its buffer
and the wire (`DecoderAt`): a place in the chunks, with a size line, a part of a chunk or the CRLF behind it still to come. One lemma per arm of
`ChunkedDecoder::push` (`SizeStep`, `BodyStep`, `TrailStep`) says that the place moves on and the bytes stay the same; `HeaderArrives` that the header ends where it ends and not
earlier; `DocumentEnds` the same for a body; `EventShown` that a block is found as soon as it is there and gives its event. The hypothesis `ResponsesProper` says that the responses are as the handlers
expect them (`IsResponse`); every part of it is one that the code needs: an event stream that is rewritten is chunked (`UnchunkedResponses` in section 5) and has one
data line per event (`TwoLineResponses`); one that is not has its chunk sizes outside of its events (`CutResponses`); only the last event
ends the response; no chunk of a document looks like the last one. `ProperResponses` has TLC confirm it for the responses of the run.

The one of the requests (`RequestInv`) counts: `k` requests have been taken out of `raw` and logged (`Taken`), and what is in `raw` and on the wire is
what was sent behind them (`Ahead(k)`). Either the header of the next one is not there (`Waiting`), or it is (`Begun`), and then the handler has either
kept the request back (`Kept`: all of it in replacement, a chunked one in passthrough) or forwarded the first `f` bytes of it (`Passed`). `Chain` says that whatever was sent
while a request was being read follows one that passthrough keeps back, which is why nothing behind a request is forwarded with it. One lemma
per action shows that a step goes on with the same request or with the next; the ones that complete a request meet in `RequestTaken`. They rest on three facts
about the scans, for bodies of any length: `BodyEnds`, the end of a chunked body is found when all of it is there and not before, whatever comes behind a body that has chunks;
`BodyDecoded`, `decode_chunked_body` gives the chunks in a row; `RebuiltIs`, `rebuild_request_with_content_length` replaces the framing lines and keeps the
rest. `NothingLeft` says what remains once everything has been read: nothing, or a last request without a length, all of it forwarded.
The hypothesis `RequestsProper` (`IsScript`) has again only parts that the code needs: no chunk looks like the last one (`LastChunkInside` in section 5); in passthrough a request
without a length is the last (`BodylessFirst`); a client sends early only behind a chunked request with a body in passthrough (`Pipelined`, `BehindEmpty`). `ProperScripts` has TLC confirm
it for the requests of the run. The proof found two arms of the `CASE` in `Due` that overlapped for a chunked request in replacement, so that the formula left open which
one is meant; they are now exclusive.

**ControlProofs.** `ControlInvariant` (`Spec => []ControlInv`), `DiskIsMemoryHolds`, `TiersValidHolds`,
`NoOrphanSidecarHolds`, `TrackedIsRunningHolds`, `LevelShownHolds`: all properties of the run `control`, for any
models, handlers, downloads, children and patches. `TiersValid` makes an exception of what comes from the user's own file, since `load`
validates nothing; it is inductive together with the types and `SavesPatched`: what a patch has put into memory was merged and then validated, only a handler that has patched
saves, and `load` and a failed download only take tiers away. `NoOrphanSidecar` needs `ChildrenInHand`: outside of the step from
start to store a handler has no child, so that its end loses none, and a server that is not up has
neither handle nor handlers. `TrackedIsRunning` needs `SendersLive`, the same for every registered model,
and that a begun download has a model (`BegunHasModel`). `DiskIsMemory` needs `FileFollows`, which is the
same from the load of the file on. `LevelShown` needs `LevelCarried`, which follows a level from the
command's patch to the file and from the file through `load` to a server's memory.

**ServiceProofs.** `TypeCorrect`, `StopUnroutesAlways`, `UninstallUnroutesAlways`, `ForeignLinesKeptAlways`, `CaPairMatchesAlways`: all
properties of the run `service`, for files of any length and any number of jobs, commands and deaths. The
actions are first reduced to a few effects on what a property reads (`Effect`, `CaEffect`). `StopInv` says why a stopped
proxy ends without routing: without an excuse nobody enables any more, and as long as `/etc/hosts`
has a tagged line some disable has yet to write; what it will write is clean (`DisablesClean`). The
theorem assumes a hosts file that was clean at first. `UninstallInv` is the same for the job that
uninstall waits for, with `un_failed` as the way out. `ForeignInv` says of every job behind a dialog that
what it is about to write has all the foreign lines of `safe` and no others than those of `theirs`, in order, as `printf` leaves them; that `enable` and `disable` leave
them alone is shown with the lemmas on `Picked`. It has no hypothesis: edits during a dialog and percent signs are in the specification, and the property says what becomes
of these lines. `CaInv` follows the two files through the six steps of a reset: with no death
each half-way state has no certificate or an empty one, or no key or an empty one, and one death leaves at most one such state.

**SessionProofs.** `TypeInvariant`, `TypeCorrect`, `FlowInvariant`, `RewrittenInvariant`, `AccountedInvariant`, and from them the six safety
properties of the run `session_replace`, for any number of turns, text events and conversations, and any way in
which reads split a response. `Flow` says that what the client has, what `u2c` has read and what is on the wire are
consecutive pieces of the response to the current turn; `Middle` relates this to the place of `u2c`, and `Whole` says
that the last piece is the end unless the upstream is gone. `ResponseWellFramed` and `NothingWithheld` follow. `Shared` and
`Rewritten` add the vault: `c2u` shares it before it forwards, and cannot touch it again before the client
has the whole response, since the client does not pipeline. `Accounted` adds the text: at each place of `u2c` what was written is
in `acc`, or stored, or past the limit. `Scope` is what these theorems assume: not Google's streams, and where
responses are rewritten Anthropic's, with the last chunk in the read of the sentinel; section 5 has what happens
otherwise. `StoredUnderOwnConversationAlways` is about replace mode: in passthrough the id of the
previous turn may be taken (section 5).

**PiiPipelineProofs.** `PairsInvariant`, `TextInvariant`, `VaultSoundAlways`, `FoundIsReplacedAlways`, `EchoRestoredAlways`: all properties of the run `pipeline`, for
texts of any length, any number of texts, requests, originals and display values, any generator, any number of replies and any overlap, without hypotheses.
The argument for `VaultSound` is about pairs of an original and a display value. `PairsInv` says that everything in
the vault's rows and maps is a pair that was given out (`PairsWithin`, `given`); as every write is of such a pair,
whatever the order and the ids, the maps cannot disagree on a display value that is in one pair only (`Sole`).
`FoundIsReplaced` and `EchoRestored` need to know where cells go when tokens are put in: `Placed` gives the position of each
cell of a text in the tokenised one. For the first, the cells that hold an original are counted on
both sides (`TokenisedOccurrences`); a span is dropped where a zone covers it, and of the zones the first is exactly the place of its token, the others are where theirs
was before the text grew (`SlmNoted`), which is what `Shadow` says. For the second, `Decodes` says that each cell of the client's text is shown in the
forwarded one, as itself or as a token that the vault's first index resolves to it (`Shown`), and
`UnmaskPlain` that the cascade then gives the text back. `TextInv` says of each text of a request what was noted of it (`Noted`) and that it was forwarded with tokens that the vault has,
and had for the pairs given out (`ForwardOK`); it stays so while other requests write the vault, which only grows. What the sidecar's token was numbered from plays no part: if the vault has the token
(`Known`) and its display value was `Sole`, it resolves to the right original (`FullIs`). Where it does not have it, `pipeline_two_replies` and the rows of section 5 show what happens.

Only model-checked: liveness and everything about fairness (`ClientCloseEndsSession`, `UpstreamLossEndsSession`, `SetupEnds`), which the
prover has no rules for. Every invariant that a passing run checks is proved, those of `Store` turn by turn, of `Session`, `Framing`, `NoRedirectLoop` and the two with `TTLCoversTurn` under the hypotheses named above. The invariants `ConnectInv` and `ControlInv` and the type
invariants of `Session` and `Service` are in no run; TLC confirms each with the constants of the module's run.

## 5. Where the code and its documentation disagree

The `V` run, with quotes, is listed under `findings` in `PROJECT.json`.
These disagreements were met as well; each is reproduced by the change of
constants given, from the configuration named.

`Turn1` stands for `MCSessionLive.cfg` with `SPECIFICATION Spec`, `Modes = {"replace"}`,
`MaxTurns = 1`.

| Statement | Reproduce | What happens |
|---|---|---|
| `openspec/specs/pii-vault/spec.md:98` of two concurrent requests "neither mapping is lost" | `PersistedVaultGrows`, `MCVaultRegistry.cfg`, `Handles = {h1, h2, h3}`, no symmetry | the copy is made under the vault's lock and written after it (`u2c.rs:427`); a late save replaces a newer vault line by an older copy |
| `openspec/specs/mitm-proxy/spec.md:201` when the client drops, u2c drains the upstream "and the accumulated content is stored" | `AccumulatedTextStored`, `Turn1` | a failed write to the client returns before the response is finalized (`u2c.rs:200`); the text goes with it |
| `src/pii/buffer.rs:293` "split XML tokens are never flushed" | `StreamedIsReplaced`, `MCReplacementBuffer.cfg` | a delta that ends inside of `<pii` lets its beginning out: `:322` looks for the whole of `<pii`. The token then reaches the client as it is, its display value replaced or not; `StreamingEqualsOneShot` says what the rest of the text becomes |
| `openspec/changes/add-macos-packaging/specs/pii-configuration-testing/spec.md:30` a change of the mode "takes effect on next request" | `HotReload`, `MCControl.cfg`, `Patches <- ModePatches` | the pipeline is built once, by `cmd_start`; the status shows the patched mode |
| `openspec/specs/storage/spec.md:61` a second `save_vault` does not "append a duplicate" | `OneVaultLine`, `MCStore.cfg`, `MaxTurns = 2`, no symmetry | `save_vault` reads again under the lock only if its first read showed a vault line; two first saves both append |
| `src/storage/mod.rs:95` "the cache never goes stale" | `CacheNeverStale`, same | rotation deletes files and leaves `path_cache` alone |
| `src/storage/mod.rs:350` "Delete all log files not belonging to today" | `NothingOldAfterRotation`, same, one task | a vault rewrite renames its file after the deletion and brings it back |
| `openspec/specs/mitm-proxy/spec.md:213` two sessions with one fingerprint "both resolve to the same conv_id" | `OneConversationPerFingerprint`, same | find and insert are separate steps; both insert |
| `openspec/specs/storage/spec.md:17` every request message is stored | `HistoryStored`, same, `MaxTurns = 3`, `MaxHistory = 2` | two turns count 0 and append the same message twice; the count then skips one that is nowhere |
| `openspec/specs/mitm-proxy/spec.md:173` the second response "is received correctly" | `ResponseWellFramed`, `Turn1`, `SplitTerminator = TRUE` | the upstream's last chunk, read after the sentinel, is forwarded as a header behind the proxy's own last chunk |
| `src/proxy/intercept/pii_sse.rs:184` trailing text is sent before the stream's end | `ResponseWellFramed`, `Turn1`, `Provider = "openai"` | `[DONE]` does not flush the buffer |
| `openspec/specs/mitm-proxy/spec.md:53` chunks are forwarded immediately | `NothingWithheld`, `Turn1`, `Provider = "google"` | no sentinel ends the stream, the decoder swallows the last chunk, the client waits for the idle timeout |
| `src/proxy/intercept/backoff.rs:35` waits for the id set for this request | `StoredUnderOwnConversation`, `Turn1`, `Modes = {"off"}`, `MaxTurns = 2` | the id of the previous turn is there and is taken |
| `src/proxy/intercept/c2u.rs:89` "so we don't block indefinitely" | `UpstreamLossEndsSession`, `MCSessionLive.cfg`, `Modes = {"off"}`, `Bodyless = TRUE` | a request without a body is never taken out of the buffer, so the signal is not watched |
| `openspec/specs/llm-parser/spec.md:65` each delta "is extracted and accumulated" | `ObservedExact`, `MCFraming.cfg`, `Responses <- CutResponses` | outside of replace mode the parser gets chunk sizes with the events; one inside of an event loses its data |
| `src/proxy/intercept/c2u.rs:57` "multiple requests on the same connection are parsed independently" | `OutputExact`, same, `Scripts <- Pipelined` | a request sent before the answer is forwarded twice in passthrough, and waits for one more read otherwise; behind an empty chunked body (`BehindEmpty`) it is taken for a part of that body and lost |
| same | `ObservedExact`, same, `Scripts <- BodylessFirst` | behind a request without a length, passthrough forwards everything and logs nothing |
| `src/proxy/intercept/framing.rs:79` the end of a chunked body is found | `CompleteExactly`, same, `Scripts <- LastChunkInside`; `OutputExact`, `Scripts <- WithTrailer` | a chunk that looks like the last one makes `decode_chunked_body` index past its slice; a body with a trailer never ends |
| `src/proxy/intercept/framing.rs:147` chunks "maintain the `Transfer-Encoding: chunked` framing the upstream sent" | `OutputExact`, same, `Responses <- UnchunkedResponses` | they are written as well under a header without it |
| `openspec/specs/sse-parser/spec.md:21` data lines are joined with a newline | `OutputExact`, same, `Responses <- TwoLineResponses` | the joined data is written behind one `data:`, so that its second line is no field |
| `openspec/specs/pii-pipeline/spec.md:146` a prefix of a longer synthetic is held | `StreamedIsReplaced`, `MCReplacementBuffer.cfg`, `Display <- PrefixKeys`, `Chars = {"a", "b", "1"}` | it is replaced as soon as it is complete |
| `src/pii/buffer.rs:163` no double processing | same, `Display <- ChainedKey`, `Chars = {"a", "b"}` | an original held back is scanned again |
| `src/pii/buffer.rs:158` "no match — log WARN and pass token through unchanged" | `StreamingEqualsOneShot` without `TokensSettled`, `MCReplacementBuffer.cfg` | the end of such a token is held back, scanned again without its beginning, and a synthetic in it replaced |
| `src/pii/mod.rs:245` zones are "the positions of the xml tokens in the result text" | `NoFoundInClear`, `MCPiiPipeline.cfg` | zones are not shifted by tokens to their left; a found value behind a token stays in clear. `FoundIsReplaced` says which: those in the `Shadow` |
| `src/pii/mod.rs:162` indices are assigned before any vault write | `EchoRestored` without `Known`, `MCPiiPipeline.cfg` | two requests read the same `mapping_count` before they wait for the sidecar; the one that comes second has a token in its text that the vault does not have, and its id gives the other's original |
| `openspec/specs/pii-vault/spec.md:32` "each synthetic value maps back to exactly one original", `:43` "MUST receive different synthetic values" | `SyntheticsUnique`, `MCPiiPipeline.cfg` | `synth.rs:73` and `:151-156` return constants for private keys and connection strings, and nobody looks whether a value is in use; the display maps then give the original that came last |
| `openspec/specs/mitm-proxy/spec.md:237-239` a client that never completes the CONNECT handshake is dropped after 30 seconds | `SetupEnds` without its first disjunct, `MCConnect.cfg` | every header line has 30 s of its own (`connect.rs:42-55`), the writes of the 200 (`:85`, `:144`) and the client's TLS handshake (`:150`) have no timeout |
| `src/network_helper.rs:229` `disable` will "restore pf.conf, and remove /etc/hosts entries" | `ForeignLinesKept` with `theirs` for `safe`, `MCService.cfg` | the script writes back what was read before the administrator's dialog, and a line that came meanwhile is lost; `printf` interprets the percent signs of the others (`network_helper.rs:214`, `:239`, `:242`) |
| `src/config.rs:414` "Tier 2 (NER) always requires Tier 1 (regex)" | `TiersValid` with the user's files not excepted, `MCControl.cfg` | `load` (`:214-232`) validates nothing, and `docs/PII-SETUP.md` tells users to write the file: Tier 2 without Tier 1 is loaded and run. Every patch that does not repair it is then refused, that of `deactivate` too, which has killed the sidecar by then, and the model that `ensure_slm_model` has downloaded is not saved |

Visible in the code without a model: level three without the Tier 2 model, and Tier 3 with Tier 1 alone, are shown as off by the tray while both tiers work; the save of a running
server overwrites the level that a `config` command has written meanwhile; an unreadable `/etc/hosts` or `pf.conf`, or one that is not UTF-8, is read as empty and written back so (`network_helper.rs`); a certificate
file that a death has left empty makes `load_ca` fail, and with it every `init`, until `reset-ca`; and
`collect_message_texts` looks for `content`, which Google's `contents` entries do not
have, so that nothing of them is masked.

## 6. What is left out

- Detectors (regular expressions, an ONNX model, the sidecar): any answer is
  allowed, and so is any value of the generator of synthetics.
- Bytes are units of framing in `Session`, and single bytes in `Framing` only, which
  ends with one response. Headers and events that are not UTF-8.
- Torn appends after a power failure, a full disk, and I/O errors other than a
  missing file.
- Non-SSE chunked responses are in `Framing` only: in `Session` they are no
  different from a response with a length.
- Certificates are names and numbers; validity, chains and pinning are left out.
- `load_ca` is one step, so that a `reset-ca` between its two reads is left out; a routing script is one step, with
  parts that may fail, except for the write of `/etc/hosts`, its last command. The launch agent's own process, which launchd keeps alive.
- A `config.toml` that does not parse: every command ends with an error.

### Not modelled

- Provider parsers (`parser/{anthropic,openai,google}.rs`): they pick fields out of one JSON
  value and keep no state.
- The detectors' own work (`tier1.rs`, `tier2.rs`, the requests of `tier3.rs`, `locale.rs`) and
  `merge_spans`: regular expressions, an ONNX model, an HTTP service. `PiiPipeline` lets them
  find anything, which covers whatever they do find.
- The arithmetic of `rotation_loop`: in `Store` a rotation may come at any time.
- Queries and the WebSocket feed of the dashboard, `models install`, a model given as
  a path, icons, dialogs, logging, help texts: they read, or write what nothing else reads.

## 7. Plan

The order follows what is most likely to be wrong and least likely to be tested.
The first fourteen rows are done.

| Step | Module | Contents | Checks and proofs |
|---|---|---|---|
| 1 | `VaultRegistry`, `VaultProofs` | registry | runs, inductive invariant proved |
| 2 | `Store`, `StoreProofs` | files, lock, rotation | runs, inductive invariant proved |
| 3 | `Session` | the two tasks | safety and liveness runs |
| 4 | `ReplacementBuffer` | streaming | exhaustive comparison with the one-shot result |
| 5 | `PiiPipeline` | masking on a shared vault | runs |
| 6 | `Framing` | `ChunkedDecoder`, `SseParser`, header scan | all cuts |
| 7 | `Tunnel`, `Connect`, `ConnectionProofs` | set-up of connections, certificate cache | refinement checked and proved, liveness |
| 8 | `Routing`, `Service` | tray, `network_helper`, life cycle, CA files | files restored after any sequence of clicks, denials and deaths |
| 9 | `Settings`, `Control` | configuration, dashboard, downloads, sidecars | concurrent handlers against one file, one tracker, one handle |
| 10 | `ControlProofs` | - | every property of `control`, from an inductive invariant |
| 11 | `SessionProofs` | - | the six safety properties of `session_replace`, from the flow of a response |
| 12 | `ServiceProofs`; `StoreProofs` and `ConnectionProofs` again | - | every property of `service`; `LoadReturnsLastSave` and `HistoryStoredOnce` turn by turn; `NoRedirectLoop` |
| 13 | `PiiPipelineProofs` | - | `VaultSound`, `FoundIsReplaced`, `EchoRestored` |
| 14 | `ReplacementBuffer`, `Framing`; `VaultProofs` and `ConnectionProofs` again | the scans as functions of a position | `StreamingEqualsOneShot` and `HoldbackBounded`; the three properties of `framing` |
| 15 | `Detect` | `merge_spans`, zones, Tier 3's disambiguation | overlap-free spans for any answers of the detectors |
