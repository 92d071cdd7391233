------------------------------ MODULE Session ------------------------------
(***************************************************************************)
(* One intercepted connection (src/src/proxy/intercept): the task c2u      *)
(* copies requests from the client to the upstream, the task u2c copies    *)
(* responses back, and the two share a conversation id, a vault handle,    *)
(* the flag upstream_gone and two one-shot shutdown signals.               *)
(*                                                                         *)
(* The client speaks HTTP/1.1 with keep-alive and no pipelining: it sends  *)
(* its next request, in two parts, when it has the whole of a response.    *)
(* A response arrives at u2c as units, of which one read returns any       *)
(* nonempty run:                                                           *)
(*   "H" the header of a chunked SSE response, "D" an SSE event with text, *)
(*   "S" message_stop or [DONE], "Z" the last chunk "0\r\n\r\n";           *)
(*   "J" a header with Content-Length, "B" the body it announces.          *)
(*                                                                         *)
(* A vault is named by its key in the registry, see VaultRegistry.         *)
(***************************************************************************)
EXTENDS Integers, Sequences, FiniteSetsExt, SequencesExt, Subsequences

CONSTANTS
  Modes,            \* PiiModes the proxy is configured with: "off", "detect", "replace"
  Provider,         \* "anthropic", "openai" or "google"
  Convs,            \* conversation ids
  SessionUuid,      \* session_uuid, the fallback key
  None,
  MaxTurns,         \* bound on the requests of the connection
  MaxDeltas,        \* bound on the text events of a response
  MaxBuffer,        \* MAX_SSE_BUFFER, in text events
  SplitTerminator,  \* TRUE: in replace mode, too, a read may end between "S" and "Z"
  Bodyless          \* TRUE: the client also sends requests without a body

ASSUME ModeAssumption     == Modes \subseteq {"off", "detect", "replace"}
ASSUME ProviderAssumption == Provider \in {"anthropic", "openai", "google"}
ASSUME NameAssumption     == SessionUuid \notin Convs /\ None \notin Convs \cup {SessionUuid}
ASSUME BoundAssumption    == MaxTurns \in Nat /\ MaxDeltas \in Nat /\ MaxBuffer \in Nat
                             /\ SplitTerminator \in BOOLEAN /\ Bodyless \in BOOLEAN

VARIABLES
  mode,      \* PiiContext::mode, fixed at start
  open,      \* the client has not closed the connection
  turn,      \* the client's current request
  unsent,    \* parts of it the client has yet to send
  conv,      \* turn -> conversation its body belongs to, None if it does not parse
  nobody,    \* the client's current request has no body
  rx,        \* what the client received since it began its current request
  cin,       \* parts on their way to c2u
  wire,      \* units on their way to u2c
  up,        \* the upstream has not closed the connection
  answered,  \* the last turn the upstream has answered
  cpc, got,  \* c2u: where it is, parts of the request it has
  req,       \* c2u: the turn it works on
  unframed,  \* c2u (off): has met a request without a length, reads to the end
  upc,       \* u2c: where it is
  batch,     \* u2c: units of the last read yet to be processed
  resp,      \* u2c: state of the response (header_done, is_sse, rep_buf)
  held,      \* u2c: text the ReplacementBuffer holds back
  acc,       \* u2c: accumulated
  exiting,   \* u2c: has left its loop
  fin,       \* u2c: the conversation id finalize_response works with
  convId,    \* shared_conv_id
  vault,     \* shared_vault
  gone,      \* upstream_gone
  keyOf,     \* turn -> key of the vault its request was processed with
  stored,    \* responses stored: [conv, text]
  saved      \* vaults saved: [conv, key]

clientVars == <<mode, open, turn, unsent, conv, nobody>>
c2uVars    == <<cpc, got, req, unframed>>
u2cVars    == <<upc, batch, resp, held, acc, exiting, fin>>
vars == <<clientVars, rx, cin, wire, up, answered, c2uVars, u2cVars, convId, vault, gone, keyOf,
          stored, saved>>

Turns   == 1..MaxTurns
Keys    == Convs \cup {SessionUuid}
Unit    == [u : {"H", "D", "S", "Z", "J", "B"}, turn : Turns]
Seen    == [u : {"H", "D", "S", "Z", "J", "B"}, turn : Turns, key : Keys \cup {None}]
Reset   == [header |-> FALSE, sse |-> FALSE, sized |-> FALSE, key |-> None, turn |-> 0]
Replace == mode = "replace"

TypeOK ==
  /\ mode \in Modes /\ nobody \in BOOLEAN /\ unframed \in BOOLEAN
  /\ open \in BOOLEAN /\ up \in BOOLEAN /\ gone \in BOOLEAN /\ exiting \in BOOLEAN
  /\ turn \in 0..MaxTurns /\ answered \in 0..MaxTurns /\ req \in 0..MaxTurns
  /\ unsent \in 0..2 /\ cin \in 0..2 /\ got \in 0..2
  /\ conv  \in [Turns -> Convs \cup {None}]
  /\ keyOf \in [Turns -> Keys \cup {None}]
  /\ rx    \in Seq(Seen)
  /\ wire  \in Seq(Unit) /\ batch \in Seq(Unit)
  /\ cpc   \in {"read", "phaseA", "share", "check", "write", "log", "done"}
  /\ upc   \in {"read", "parse", "backoff", "body", "flush", "finalize", "store", "save", "after", "done"}
  /\ resp  \in [header : BOOLEAN, sse : BOOLEAN, sized : BOOLEAN,
             key : Keys \cup {None}, turn : 0..MaxTurns]
  /\ held  \in Seq(Turns) /\ acc \in Seq(Turns)
  /\ fin   \in Convs \cup {None} /\ convId \in Convs \cup {None}
  /\ vault \in Keys \cup {None}
  /\ stored \subseteq [conv : Convs, text : Seq(Turns)]
  /\ saved  \subseteq [conv : Convs, key : Keys]

Init ==
  /\ mode \in Modes
  /\ open = TRUE /\ turn = 0 /\ unsent = 0 /\ conv = [t \in Turns |-> None]
  /\ nobody = FALSE /\ unframed = FALSE
  /\ rx = <<>> /\ cin = 0 /\ wire = <<>> /\ up = TRUE /\ answered = 0
  /\ cpc = "read" /\ got = 0 /\ req = 0
  /\ upc = "read" /\ batch = <<>> /\ resp = Reset /\ held = <<>> /\ acc = <<>>
  /\ exiting = FALSE /\ fin = None
  /\ convId = None /\ vault = None /\ gone = FALSE
  /\ keyOf = [t \in Turns |-> None] /\ stored = {} /\ saved = {}

-----------------------------------------------------------------------------
(* The client and the upstream (external) *)

\* A response is whole when its header and its last chunk or body are here.
Complete ==
  \E i, j \in DOMAIN rx : /\ i < j /\ rx[i].turn = turn
                          /\ <<rx[i].u, rx[j].u>> \in {<<"H", "Z">>, <<"J", "B">>}

\* A request with a body has a Content-Length or is chunked, as HTTP/1.1 asks.
BeginRequest(c, bare) ==
  /\ open /\ turn < MaxTurns
  /\ turn = 0 \/ Complete
  /\ bare => Bodyless /\ c = None
  /\ nobody' = bare
  /\ turn' = turn + 1
  /\ conv' = [conv EXCEPT ![turn + 1] = c]
  /\ unsent' = 2
  /\ rx' = <<>>
  /\ UNCHANGED <<mode, open, cin, wire, up, answered, c2uVars, u2cVars, convId, vault, gone, keyOf, stored, saved>>

SendPart ==
  /\ open /\ unsent > 0
  /\ unsent' = unsent - 1
  /\ cin' = cin + 1
  /\ UNCHANGED <<mode, open, turn, conv, nobody, rx, wire, up, answered, c2uVars, u2cVars, convId, vault, gone, keyOf,
                 stored, saved>>

ClientClose ==
  /\ open
  /\ open' = FALSE
  /\ UNCHANGED <<mode, turn, unsent, conv, nobody, rx, cin, wire, up, answered, c2uVars, u2cVars, convId, vault, gone,
                 keyOf, stored, saved>>

\* The upstream closes, after a clean end of its stream or with a reset that
\* takes what is still in flight with it.
UpstreamClose(reset) ==
  /\ up
  /\ up' = FALSE
  /\ wire' = IF reset THEN <<>> ELSE wire
  /\ UNCHANGED <<clientVars, rx, cin, answered, c2uVars, u2cVars, convId, vault, gone, keyOf, stored, saved>>

U(u, t) == [u |-> u, turn |-> t]

\* What the upstream may answer to a request; Google's SSE has no sentinel.
Responses(t) ==
  {<<U("J", t), U("B", t)>>} \cup
  {<<U("H", t)>> \o [i \in 1..n |-> U("D", t)]
     \o (IF Provider = "google" THEN <<U("Z", t)>> ELSE <<U("S", t), U("Z", t)>>) : n \in 0..MaxDeltas}

-----------------------------------------------------------------------------
(* c2u: client -> upstream *)

c2uDone == cpc = "done"   \* shutdown_tx has been sent
u2cDone == upc = "done"   \* upstream_shutdown_tx has been sent or dropped

\* A read of the client.  In off mode a part of a request with a length is
\* forwarded at once: it is refused when the upstream is gone, or the write
\* fails.
ReadClient(n, refused) ==
  /\ cpc = "read" /\ n <= cin
  /\ refused => mode = "off" /\ got + n < 2 /\ (gone \/ ~up)
  /\ req' = IF got = 0 THEN req + 1 ELSE req
  /\ got' = got + n
  /\ cin' = cin - n
  /\ cpc' = IF refused THEN "done" ELSE IF got + n < 2 THEN "read"
            ELSE IF mode = "off" THEN "check" ELSE "phaseA"
  /\ unframed' = (unframed \/ (mode = "off" /\ nobody))
  /\ UNCHANGED <<clientVars, rx, wire, up, answered, u2cVars, convId, vault, gone, keyOf, stored, saved>>

\* Mutants: the end of the client's stream is seen between requests only; the
\* signal of u2c is not watched.
EofBetweenRequests == ~open /\ cin = 0 /\ got = 0
SignalUnwatched    == FALSE

\* The end of the client's stream; the signal of u2c, watched while nothing of
\* a request is buffered.
ClientEof      == ~open /\ cin = 0
UpstreamSignal == got = 0 /\ ~unframed /\ u2cDone

StopReading ==
  /\ cpc = "read"
  /\ ClientEof \/ UpstreamSignal
  /\ cpc' = "done"
  /\ UNCHANGED <<clientVars, rx, cin, wire, up, answered, got, req, unframed, u2cVars, convId, vault, gone, keyOf, stored,
                 saved>>

\* create_or_find_conversation: before the pipeline (PhaseA), or after the
\* request has been forwarded (Log).
FindConversation(from, to) ==
  /\ cpc = from
  /\ cpc' = to
  /\ convId' = IF conv[req] # None THEN conv[req] ELSE convId
  /\ got' = IF from = "log" THEN 0 ELSE got
  /\ UNCHANGED <<req, unframed, clientVars, rx, cin, wire, up, answered, u2cVars, vault, gone, keyOf, stored, saved>>

PhaseA == FindConversation("phaseA", "share")
Log    == FindConversation("log", "read")

\* Mutant: a request that does not parse gets no vault.
VaultKeyNoFallback == conv[req]

\* pii_cid: the conversation, else the connection's last one, else the session.
VaultKey == IF conv[req] # None THEN conv[req] ELSE IF convId # None THEN convId ELSE SessionUuid

\* merge_into, get_or_create_with_store and the pipeline; the handle is then
\* shared with u2c.
ShareVault ==
  /\ cpc = "share"
  /\ cpc' = "check"
  /\ vault' = VaultKey
  /\ keyOf' = [keyOf EXCEPT ![req] = VaultKey]
  /\ UNCHANGED <<clientVars, rx, cin, wire, up, answered, got, req, unframed, u2cVars, convId, gone, stored, saved>>

\* The last look at upstream_gone before the request is written.
CheckGone ==
  /\ cpc = "check"
  /\ cpc' = IF gone THEN "done" ELSE "write"
  /\ UNCHANGED <<clientVars, rx, cin, wire, up, answered, got, req, unframed, u2cVars, convId, vault, gone, keyOf, stored,
                 saved>>

\* upstream_write: the upstream gets the request and answers it; a write to a
\* closed connection is lost.
Forward ==
  /\ cpc = "write"
  /\ \/ /\ up
        /\ \E r \in Responses(req) : wire' = wire \o r
        /\ answered' = req
     \/ /\ ~up
        /\ UNCHANGED <<wire, answered>>
  /\ IF mode = "off" /\ ~unframed
       THEN cpc' = "log" /\ UNCHANGED got
       ELSE cpc' = "read" /\ got' = 0
  /\ UNCHANGED <<req, unframed, clientVars, rx, cin, up, u2cVars, convId, vault, gone, keyOf, stored, saved>>

\* ... or the write fails or stalls for 30 s.
ForwardFails ==
  /\ cpc = "write" /\ ~up
  /\ cpc' = "done"
  /\ UNCHANGED <<clientVars, rx, cin, wire, up, answered, got, req, unframed, u2cVars, convId, vault, gone, keyOf, stored,
                 saved>>

C2u ==
  \/ \E n \in 1..2, refused \in BOOLEAN : ReadClient(n, refused)
  \/ StopReading \/ PhaseA \/ Log \/ ShareVault \/ CheckGone \/ Forward \/ ForwardFails

-----------------------------------------------------------------------------
(* u2c: upstream -> client *)

\* What u2c and its callees leave alone.
Others == <<clientVars, cin, up, answered, c2uVars, convId, vault, keyOf>>

ReadUpstream(n) ==
  /\ upc = "read" /\ n <= Len(wire)
  /\ (Replace /\ ~SplitTerminator /\ n < Len(wire)) => wire[n + 1].u # "Z"
  /\ batch' = SubSeq(wire, 1, n)
  /\ wire' = SubSeq(wire, n + 1, Len(wire))
  /\ upc' = IF resp.header THEN "body" ELSE "parse"
  /\ UNCHANGED <<Others, rx, resp, held, acc, exiting, fin, gone, stored, saved>>

\* End of stream, a read error, or 120 s without data: the loop ends.
UpstreamLost ==
  /\ upc = "read" /\ wire = <<>>
  /\ gone' = TRUE
  /\ exiting' = TRUE
  /\ upc' = "flush"
  /\ UNCHANGED <<Others, rx, wire, batch, resp, held, acc, fin, stored, saved>>

\* c2u has ended: the loop ends, whatever the upstream still has to say.
SeeShutdown ==
  /\ upc = "read" /\ c2uDone
  /\ exiting' = TRUE
  /\ upc' = "flush"
  /\ UNCHANGED <<Others, rx, wire, batch, resp, held, acc, fin, gone, stored, saved>>

\* A write to the client; u2c returns on an error, past finalize_response.
WriteOk(units) == rx' = rx \o units
WriteFails ==
  /\ ~open
  /\ upc \in {"backoff", "body", "flush", "after"}
  /\ upc = "body" => (~Replace \/ ~resp.sse \/ Head(batch).u # "Z")
  /\ upc = "flush" => (held # <<>> /\ Provider # "google")
  /\ upc = "after" => (~exiting /\ Replace /\ resp.sse)
  /\ upc' = "done"
  /\ UNCHANGED <<Others, rx, wire, batch, resp, held, acc, exiting, fin, gone, stored, saved>>

\* The header of a response: whatever ends in an empty line is taken for one.
ParseHeader(close) ==
  /\ upc = "parse"
  /\ resp' = [header |-> TRUE, sse |-> Head(batch).u = "H", sized |-> Head(batch).u = "J",
              key |-> None, turn |-> Head(batch).turn]
  /\ gone' = (gone \/ close)
  /\ upc' = "backoff"
  /\ UNCHANGED <<Others, rx, wire, batch, held, acc, exiting, fin, stored, saved>>

\* get_vault_with_backoff for an SSE response in replace mode (an unset vault
\* is given up after 50 ms), then the header is forwarded.
ForwardHeader ==
  /\ upc = "backoff"
  /\ resp' = [resp EXCEPT !.key = IF Replace /\ resp.sse THEN vault ELSE None]
  /\ WriteOk(<<[u |-> Head(batch).u, turn |-> Head(batch).turn, key |-> None]>>)
  /\ batch' = Tail(batch)
  /\ upc' = IF Len(batch) > 1 THEN "body" ELSE "read"
  /\ UNCHANGED <<Others, wire, held, acc, exiting, fin, gone, stored, saved>>

\* Mutant: the limit is tested before it is passed.
FullEarly == Len(acc) >= MaxBuffer

\* accumulated takes a piece of text unless the limit has been passed.
Full == Len(acc) > MaxBuffer
Accumulate(piece) == IF Full THEN acc ELSE acc \o piece
AccumulateEach(texts) ==
  IF Full THEN acc ELSE acc \o SubSeq(texts, 1, Min({Len(texts), MaxBuffer + 1 - Len(acc)}))

\* Mutant: the last chunk is not forwarded.
RawWithoutEnd(units) ==
  LET kept == Picked(units, {i \in DOMAIN units : units[i].u # "Z"})
  IN [i \in DOMAIN kept |-> [u |-> kept[i].u, turn |-> kept[i].turn, key |-> None]]

Raw(units)      == [i \in DOMAIN units |-> [u |-> units[i].u, turn |-> units[i].turn, key |-> None]]
Reversed(texts) == [i \in DOMAIN texts |-> [u |-> "D", turn |-> texts[i], key |-> resp.key]]

\* The text of a run of units.
Texts(units) == Picked([i \in DOMAIN units |-> units[i].turn], {i \in DOMAIN units : units[i].u = "D"})

Rewriting == Replace /\ resp.sse

\* process_response_chunk: the bytes have been forwarded as they are; the text
\* of SSE events before the sentinel is accumulated.
RawChunk ==
  LET sentinels == {i \in DOMAIN batch : batch[i].u = "S"}
      upTo      == IF sentinels = {} THEN Len(batch) ELSE CHOOSE i \in sentinels : \A j \in sentinels : i <= j
      complete  == \/ resp.sse /\ sentinels # {}
                   \/ resp.sized /\ \E i \in DOMAIN batch : batch[i].u = "B"
  IN
  /\ upc = "body" /\ ~Rewriting
  /\ WriteOk(Raw(batch))
  /\ acc' = IF resp.sse THEN AccumulateEach(Texts(SubSeq(batch, 1, upTo))) ELSE acc
  /\ batch' = <<>>
  /\ upc' = IF complete THEN "flush" ELSE "read"
  /\ UNCHANGED <<Others, wire, resp, held, exiting, fin, gone, stored, saved>>

\* process_sse_chunk_pii, one event: a text delta goes through the
\* ReplacementBuffer, which may hold it back; it passes unchanged if there is
\* no buffer.  The chunk decoder swallows the last chunk.
RewriteDelta(hold) ==
  LET event == Head(batch)
      texts == held \o <<event.turn>>
  IN
  /\ upc = "body" /\ Rewriting
  /\ batch # <<>> /\ event.u # "S"
  /\ \/ /\ event.u = "D" /\ resp.key # None /\ ~hold
        /\ WriteOk(Reversed(texts))
        /\ acc' = Accumulate(texts)
        /\ held' = <<>>
     \/ /\ event.u = "D" /\ resp.key # None /\ hold
        /\ held' = texts
        /\ UNCHANGED <<rx, acc>>
     \/ /\ event.u = "D" /\ resp.key = None
        /\ WriteOk(Raw(<<event>>))
        /\ acc' = acc \o <<event.turn>>
        /\ UNCHANGED held
     \/ /\ event.u # "D"
        /\ UNCHANGED <<rx, acc, held>>
  /\ batch' = Tail(batch)
  /\ upc' = IF Len(batch) > 1 THEN "body" ELSE "read"
  /\ UNCHANGED <<Others, wire, resp, exiting, fin, gone, stored, saved>>

\* Mutants: the tail is never flushed before the sentinel; the response is
\* closed together with the sentinel.
TailKept == <<>>
StopAndClose == <<[u |-> "S", turn |-> resp.turn, key |-> None], [u |-> "Z", turn |-> resp.turn, key |-> None]>>

\* What the sentinel flushes: Anthropic's message_stop does, [DONE] does not.
TailBeforeStop == IF Provider = "anthropic" THEN held ELSE <<>>
StopEvent == <<[u |-> "S", turn |-> resp.turn, key |-> None]>>

\* The sentinel ends the response; the rest of the read is dropped.
RewriteStop ==
  /\ upc = "body" /\ Rewriting
  /\ Head(batch).u = "S"
  /\ WriteOk(Reversed(TailBeforeStop) \o StopEvent)
  /\ acc' = Accumulate(TailBeforeStop)
  /\ held' = SubSeq(held, Len(TailBeforeStop) + 1, Len(held))
  /\ batch' = <<>>
  /\ upc' = "flush"
  /\ UNCHANGED <<Others, wire, resp, exiting, fin, gone, stored, saved>>

\* flush_rep_buf_and_finalize: what the buffer still holds is sent as a
\* trailing event (Google has none).
FlushRepBuf ==
  /\ upc = "flush"
  /\ WriteOk(IF Provider = "google" THEN <<>> ELSE Reversed(held))
  /\ acc' = Accumulate(held)
  /\ held' = <<>>
  /\ upc' = "finalize"
  /\ UNCHANGED <<Others, wire, batch, resp, exiting, fin, gone, stored, saved>>

\* finalize_response: wait_for_conv_id gives up on an unset id after 50 ms; an
\* empty response only ends with ResponseComplete.
FinalizeResponse ==
  /\ upc = "finalize"
  /\ fin' = convId
  /\ upc' = IF convId = None \/ acc = <<>> THEN "after" ELSE "store"
  /\ UNCHANGED <<Others, rx, wire, batch, resp, held, acc, exiting, gone, stored, saved>>

\* insert_message, awaited.
StoreResponse ==
  /\ upc = "store"
  /\ stored' = stored \cup {[conv |-> fin, text |-> acc]}
  /\ acc' = <<>>
  /\ upc' = IF Replace THEN "save" ELSE "after"
  /\ UNCHANGED <<Others, rx, wire, batch, resp, held, exiting, fin, gone, saved>>

\* save_vault of the vault that is shared by now.
SaveVault ==
  /\ upc = "save"
  /\ saved' = IF vault # None THEN saved \cup {[conv |-> fin, key |-> vault]} ELSE saved
  /\ upc' = "after"
  /\ UNCHANGED <<Others, rx, wire, batch, resp, held, acc, exiting, fin, gone, stored>>

\* Mutants: a rewritten response is not closed; every response is.
NeverClosed  == <<>>
AlwaysClosed == <<[u |-> "Z", turn |-> resp.turn, key |-> None]>>

LastChunk == IF Rewriting THEN <<[u |-> "Z", turn |-> resp.turn, key |-> None]>> ELSE <<>>

\* Out of the loop: the task ends.  In the loop: a rewritten response is closed
\* with the last chunk, and the state of the response is reset.
AfterResponse ==
  /\ upc = "after"
  /\ fin' = None
  /\ \/ /\ exiting
        /\ upc' = "done"
        /\ UNCHANGED <<rx, resp, acc>>
     \/ /\ ~exiting
        /\ upc' = "read"
        /\ WriteOk(LastChunk)
        /\ resp' = Reset
        /\ acc' = <<>>
  /\ UNCHANGED <<Others, wire, batch, held, exiting, gone, stored, saved>>

U2c ==
  \/ \E n \in 1..Len(wire) : ReadUpstream(n)
  \/ UpstreamLost \/ SeeShutdown \/ WriteFails
  \/ \E close \in BOOLEAN : ParseHeader(close)
  \/ ForwardHeader \/ RawChunk
  \/ \E hold \in BOOLEAN : RewriteDelta(hold)
  \/ RewriteStop \/ FlushRepBuf \/ FinalizeResponse \/ StoreResponse \/ SaveVault \/ AfterResponse

-----------------------------------------------------------------------------
Environment ==
  \/ \E c \in Convs \cup {None}, bare \in BOOLEAN : BeginRequest(c, bare)
  \/ SendPart
  \/ ClientClose
  \/ \E reset \in BOOLEAN : UpstreamClose(reset)

\* run() joins the two tasks: the session is over when both are.
Over == c2uDone /\ u2cDone /\ UNCHANGED vars

Next == Environment \/ C2u \/ U2c \/ Over

Spec == Init /\ [][Next]_vars

\* The runtime polls both tasks; a client that has begun a request sends the
\* rest of it or closes.
Fairness == WF_vars(C2u) /\ WF_vars(U2c) /\ WF_vars(SendPart)

LiveSpec == Spec /\ Fairness

-----------------------------------------------------------------------------
(* Properties *)

\* The client gets, for its current request, one header, then text, then the
\* sentinel, then one last chunk, and nothing of another response.
ResponseWellFramed ==
  LET order == [u \in {"H", "D", "S", "Z", "J", "B"} |->
                  CASE u \in {"H", "J"} -> 0 [] u \in {"D", "B"} -> 1 [] u = "S" -> 2 [] u = "Z" -> 3]
  IN /\ \A i \in DOMAIN rx : rx[i].turn = turn
     /\ \A i \in 1..(Len(rx) - 1) :
          \/ order[rx[i].u] < order[rx[i + 1].u]
          \/ rx[i].u = "D" /\ rx[i + 1].u = "D"
     /\ rx # <<>> => rx[1].u \in {"H", "J"}

\* Text reaches the client through the vault its request was processed with.
TextReversed ==
  Replace => \A i \in DOMAIN rx : rx[i].u = "D" => rx[i].key = keyOf[rx[i].turn] /\ rx[i].key # None

\* A stored response holds the text of one turn, under the conversation of it.
StoredUnderOwnConversation ==
  \A s \in stored : \E t \in Turns :
    /\ \A i \in DOMAIN s.text : s.text[i] = t
    /\ conv[t] \in {s.conv, None}

\* A vault is saved into the file of the conversation it belongs to.
VaultSavedWithItsConversation == \A s \in saved : s.key \in {s.conv, SessionUuid}

\* When the client has the whole of a rewritten response, the text it got has
\* been stored, up to the buffer limit.
StoredBeforeComplete ==
  Replace /\ Complete /\ convId # None /\ Texts(rx) # <<>> =>
    \E s \in stored :
      /\ s.conv = convId /\ IsPrefix(s.text, Texts(rx))
      /\ s.text = Texts(rx) \/ Len(s.text) > MaxBuffer

\* u2c waits for more only when the client has all of what the upstream sent.
NothingWithheld ==
  (upc = "read" /\ wire = <<>> /\ up /\ answered = turn /\ turn > 0) => Complete

\* u2c never ends with text it has accumulated and not stored.
AccumulatedTextStored == (u2cDone /\ convId # None) => acc = <<>>

\* When the client closes the connection, both tasks end.
ClientCloseEndsSession == ~open ~> (c2uDone /\ u2cDone)

\* When u2c has ended, c2u ends too, even if it waits for the client.
UpstreamLossEndsSession == u2cDone ~> c2uDone
=============================================================================
