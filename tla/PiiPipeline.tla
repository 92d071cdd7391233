---------------------------- MODULE PiiPipeline ----------------------------
(***************************************************************************)
(* The request side of the PII pipeline (src/src/pii/mod.rs,               *)
(* process_request_body_async) on the vault of one conversation            *)
(* (src/src/pii/vault.rs, PiiVault), which concurrent requests share.      *)
(*                                                                         *)
(* Texts are sequences of cells: a word, a value that looks like PII, or   *)
(* one of the three cells of a token <pii id="ID">DISPLAY</pii>, namely    *)
(* the tag [id |-> ID], the display value and Close.  Offsets and lengths  *)
(* count cells, so a token is longer than what it replaces.                *)
(*                                                                         *)
(* For every text of a request the pipeline may first ask the sidecar      *)
(* (Tier 3) for replacements and then detects what is left (Tiers 1 and    *)
(* 2); both wait without the vault's lock.  The vault is then updated, and *)
(* the tokens written, for all texts under one write lock.                 *)
(***************************************************************************)
EXTENDS Integers, Sequences, FiniteSets, SequencesExt, Subsequences

CONSTANTS
  Tasks,           \* requests of the conversation that may be processed at a time
  Originals,       \* PII values
  Displays,        \* synthetic values
  Word, Close,     \* a cell without PII; the cell that ends a token
  MaxEntries,      \* bound on the texts of a request
  MaxCells         \* bound on the cells of all requests of a behaviour

Tags == [id : Nat]

ASSUME CellAssumption   == /\ Originals \cap Displays = {}
                           /\ (Originals \cup Displays \cup {Word, Close}) \cap Tags = {}
                           /\ {Word, Close} \cap (Originals \cup Displays) = {}
                           /\ Word # Close
ASSUME PipelineBounds   == MaxEntries \in Nat /\ MaxCells \in Nat

VARIABLES
  slm,      \* the sidecar is configured
  vault,    \* the conversation's vault
  pc,       \* where each request is
  text,     \* its texts as the client sent them
  base,     \* mapping_count, read before the sidecar was asked
  done,     \* its texts detected so far: entry_results
  sent,     \* its texts as they were forwarded
  begun,    \* cells of the requests begun
  given     \* history: every original with every synthetic the vault ever had for it

vars == <<slm, vault, pc, text, base, done, sent, begun, given>>

Values == Originals \cup Displays

-----------------------------------------------------------------------------
(* PiiVault *)

\* rows: synthetic_keys, original_values and token_ids side by side.  full,
\* byId, byDisplay: the index maps of the reverse cascade.
EmptyVault == [synth |-> <<>>, rows |-> <<>>, full |-> <<>>, byId |-> <<>>, byDisplay |-> <<>>]
NoId == -1

Put(f, k, v) == [x \in DOMAIN f \cup {k} |-> IF x = k THEN v ELSE f[x]]

MappingCount(v)   == Cardinality(DOMAIN v.synth)
IsSynthetic(v, d) == \E i \in DOMAIN v.rows : v.rows[i].display = d

\* Mutant: a known original gets a second row.
AddMappingAgain(v, o, d, id) ==
  [v EXCEPT !.synth = Put(@, o, d), !.rows = Append(@, [original |-> o, display |-> d, id |-> id])]

\* add_mapping: a known original keeps its synthetic.
AddMapping(v, o, d, id) ==
  IF o \in DOMAIN v.synth THEN v
  ELSE [v EXCEPT !.synth = Put(@, o, d),
                 !.rows  = Append(@, [original |-> o, display |-> d, id |-> id])]

\* The index maps take the new entry, whatever they had under its keys.
Indexed(v, o, d, id) ==
  [v EXCEPT !.full = Put(@, <<id, d>>, o), !.byId = Put(@, id, o), !.byDisplay = Put(@, d, o)]

\* add_mapping_with_token_id: the index maps are filled in any case.
AddMappingWithTokenId(v, o, d, id) == Indexed(AddMapping(v, o, d, id), o, d, id)

\* from_records of one record: a row without an id is not indexed.
Restore(w, r) ==
  LET core == AddMapping(w, r.original, r.display, r.id) IN
  IF r.id = NoId THEN core ELSE Indexed(core, r.original, r.display, r.id)

\* The vault after the first n records, for every n.
RestoredTo(rows) ==
  LET upTo[n \in 0..Len(rows)] == IF n = 0 THEN EmptyVault ELSE Restore(upTo[n - 1], rows[n])
  IN  upTo

\* The originals with their synthetics.
RowPairs(v) == {<<v.rows[i].original, v.rows[i].display>> : i \in DOMAIN v.rows}

\* from_records(to_records())
Reloaded(v) == RestoredTo(v.rows)[Len(v.rows)]

-----------------------------------------------------------------------------
(* Tokens *)

IsTag(c) == c \notin Values \cup {Word, Close}
TokenLen == 3
Token(id, d) == <<[id |-> id], d, Close>>

\* The text with the cell at each position of at replaced by its token.
Tokenised(cells, at, token) ==
  FlattenSeq([i \in DOMAIN cells |-> IF i \in at THEN token[i] ELSE <<cells[i]>>])

\* Outside of tokens a synthetic is replaced by the first original that has it.
Bare(v, c) ==
  IF IsSynthetic(v, c)
    THEN v.rows[CHOOSE i \in DOMAIN v.rows :
                  v.rows[i].display = c /\ \A j \in 1..(i - 1) : v.rows[j].display # c].original
    ELSE c

\* Where the token that begins at cell i ends: at the next Close, else with the text.
ClosesAt(cells, i) == {c \in i..Len(cells) : cells[c] = Close}
TokenEnd(cells, i) ==
  IF ClosesAt(cells, i) = {} THEN Len(cells)
  ELSE CHOOSE c \in ClosesAt(cells, i) : \A b \in ClosesAt(cells, i) : c <= b

\* The cascade on the token in cells i to last: full token, id, display value,
\* pass through; a token that is not closed passes through.
Resolved(v, cells, i, last) ==
  LET id    == cells[i].id
      body  == SubSeq(cells, i + 1, last - 1)
      whole == IF Len(body) = 1 THEN {<<id, body[1]>>} ELSE {}
      inner == IF Len(body) = 1 THEN {body[1]} ELSE {}
  IN IF cells[last] # Close THEN SubSeq(cells, i, last)
     ELSE IF whole \cap DOMAIN v.full # {} THEN <<v.full[<<id, body[1]>>]>>
     ELSE IF id \in DOMAIN v.byId THEN <<v.byId[id]>>
     ELSE IF inner \cap DOMAIN v.byDisplay # {} THEN <<v.byDisplay[body[1]]>>
     ELSE SubSeq(cells, i, last)

\* What the cascade makes of the last n cells of an echoed text, for every n.
UnmaskedEnds(v, cells) ==
  LET N == Len(cells)
      back[n \in 0..N] ==
        IF n = 0 THEN <<>>
        ELSE LET i == N - n + 1
                 last == TokenEnd(cells, i)
             IN IF IsTag(cells[i]) THEN Resolved(v, cells, i, last) \o back[N - last]
                ELSE <<Bare(v, cells[i])>> \o back[n - 1]
  IN  back

Unmask(v, cells) == UnmaskedEnds(v, cells)[Len(cells)]

-----------------------------------------------------------------------------
(* A request *)

Texts    == SeqOf({Word} \cup Originals, MaxCells) \ {<<>>}
Requests == {r \in SeqOf(Texts, MaxEntries) : Len(FlattenSeq(r)) \in 1..MaxCells}

\* load_or_create: a new vault, or one from disk with a mapping of an earlier
\* process, by the sidecar (it has an id) or by Tiers 1 and 2 (it has none).
Loaded ==
  {EmptyVault} \cup
  {Reloaded([EmptyVault EXCEPT !.rows = <<r>>]) : r \in [original : Originals, display : Displays, id : {NoId, 0}]}

Init ==
  /\ slm \in BOOLEAN
  /\ vault \in Loaded
  /\ pc   = [t \in Tasks |-> "idle"]
  /\ text = [t \in Tasks |-> <<>>]
  /\ base = [t \in Tasks |-> 0]
  /\ done = [t \in Tasks |-> <<>>]
  /\ sent = [t \in Tasks |-> <<>>]
  /\ begun = 0
  /\ given = RowPairs(vault)

\* collect_message_texts of a new request.
Begin(t, entries) ==
  /\ pc[t] = "idle" /\ begun + Len(FlattenSeq(entries)) <= MaxCells
  /\ pc'   = [pc EXCEPT ![t] = "detect"]
  /\ text' = [text EXCEPT ![t] = entries]
  /\ begun' = begun + Len(FlattenSeq(entries))
  /\ UNCHANGED <<slm, vault, base, done, sent, given>>

\* The next text: the index for its first replacement is read, the sidecar asked.
AskSlm(t) ==
  /\ pc[t] = "detect" /\ slm /\ Len(done[t]) < Len(text[t])
  /\ pc'   = [pc EXCEPT ![t] = "slm"]
  /\ base' = [base EXCEPT ![t] = MappingCount(vault)]
  /\ UNCHANGED <<slm, vault, text, done, sent, begun, given>>

\* Mutants: zones are not applied; the cell behind a zone belongs to it.
NotExcluded(found, zones) == found
ZoneTooLong(found, zones) == {i \in found : \A z \in zones : i + 1 <= z.from \/ i > z.to}

\* detect_spans_with_exclusions: spans that touch no zone [from, to).
Outside(found, zones) == {i \in found : \A z \in zones : i + 1 <= z.from \/ i >= z.to}

\* Positions of a text in ascending order.
Ascending(cells, S) == Picked([i \in DOMAIN cells |-> i], S)

\* What the pipeline notes about a text: the working text, the sidecar's
\* replacements in the order they were made, the spans left for Tiers 1 and 2.
Detected(t, work, s1, spans, found) ==
  done' = [done EXCEPT ![t] = Append(@, [work |-> work, s1 |-> s1, spans |-> Ascending(work, spans), found |-> found])]

\* Without a sidecar, or when it fails or finds nothing: Tiers 1 and 2 see the
\* text itself.  What they find is any set of its values.
DetectAlone(t) ==
  /\ pc[t] = IF slm THEN "slm" ELSE "detect"
  /\ Len(done[t]) < Len(text[t])
  /\ LET cells == text[t][Len(done[t]) + 1] IN
     \E found \in SUBSET {i \in DOMAIN cells : cells[i] \in Values} :
       Detected(t, cells, <<>>, found, found)
  /\ pc' = [pc EXCEPT ![t] = "detect"]
  /\ UNCHANGED <<slm, vault, text, base, sent, begun, given>>

\* Replies of the sidecar: any display values for some of the originals in a text.
Replies(cells) == UNION {[at -> Displays] : at \in (SUBSET {i \in DOMAIN cells : cells[i] \in Originals}) \ {{}}}

\* Stage 1: the sidecar replaces the cells in DOMAIN reply.  Token ids count
\* from base in the order of the text; the substitution runs from right to
\* left, and each zone is the place of a token at the time it was written.
\* Noted with a replacement: its place then, and the id in the token.
SlmReplied(t, cells, reply) ==
  LET order == Ascending(cells, DOMAIN reply)
      rank  == [i \in DOMAIN reply |-> Cardinality({j \in DOMAIN reply : j < i})]
      work  == Tokenised(cells, DOMAIN reply, [i \in DOMAIN reply |-> Token(base[t] + rank[i], reply[i])])
      zones == {[from |-> i, to |-> i + TokenLen] : i \in DOMAIN reply}
      s1    == Reverse([k \in DOMAIN order |-> [original |-> cells[order[k]], display |-> reply[order[k]],
                                               at |-> order[k], id |-> base[t] + rank[order[k]]]])
  IN
  \E found \in SUBSET {i \in DOMAIN work : work[i] \in Values} :
    Detected(t, work, s1, Outside(found, zones), found)

DetectWithSlm(t) ==
  /\ pc[t] = "slm"
  /\ LET cells == text[t][Len(done[t]) + 1] IN
     \E reply \in Replies(cells) : SlmReplied(t, cells, reply)
  /\ pc' = [pc EXCEPT ![t] = "detect"]
  /\ UNCHANGED <<slm, vault, text, base, sent, begun, given>>

\* The vault writes of one text, in order: first the sidecar's replacements,
\* then the spans of Tiers 1 and 2; ids count from first.
Writes(e, first) ==
  [j \in DOMAIN e.s1 |-> [stage |-> 1, pos |-> 0, value |-> e.s1[j].original,
                          display |-> e.s1[j].display, id |-> first + j - 1]] \o
  [j \in DOMAIN e.spans |-> [stage |-> 2, pos |-> e.spans[j], value |-> e.work[e.spans[j]],
                             display |-> Word, id |-> first + Len(e.s1) + j - 1]]

\* get_or_create: the synthetic of a known original, or a generated one.
GetOrCreate(v, o, gen) == IF o \in DOMAIN v.synth THEN v.synth[o] ELSE gen[o]

\* One write; a span that is itself a synthetic is left as it is.
Write(acc, w, gen) ==
  IF w.stage = 1
    THEN [acc EXCEPT !.vault = AddMappingWithTokenId(@, w.value, w.display, w.id)]
  ELSE IF IsSynthetic(acc.vault, w.value) THEN acc
  ELSE LET d == GetOrCreate(acc.vault, w.value, gen) IN
       [acc EXCEPT
          !.vault = AddMappingWithTokenId(AddMapping(@, w.value, d, NoId), w.value, d, w.id),
          !.token = Put(@, w.pos, Token(w.id, d))]

\* The vault and the tokens after the first n writes, for every n.
WrittenTo(v, ws, gen) ==
  LET upTo[n \in 0..Len(ws)] ==
        IF n = 0 THEN [vault |-> v, token |-> <<>>] ELSE Write(upTo[n - 1], ws[n], gen)
  IN  upTo

\* replace_with_spans_xml and the write-back of one text.
ApplyEntry(acc, e, first, gen) ==
  LET ws    == Writes(e, first)
      wrote == WrittenTo(acc.vault, ws, gen)[Len(ws)]
  IN [vault |-> wrote.vault,
      out   |-> Append(acc.out, Tokenised(e.work, DOMAIN wrote.token, wrote.token))]

\* What the generator may produce for the values the vault does not know yet:
\* it looks at nothing it has produced before, and for some types of PII it
\* always produces the same.
Generated(t) ==
  LET new == (UNION {{e.work[i] : i \in Range(e.spans)} : e \in Range(done[t])}) \ DOMAIN vault.synth
  IN [new -> Displays]

\* The vault and the forwarded texts after the first n texts, for every n.
AppliedTo(v, es, first, gen) ==
  LET upTo[n \in 0..Len(es)] ==
        IF n = 0 THEN [vault |-> v, out |-> <<>>] ELSE ApplyEntry(upTo[n - 1], es[n], first, gen)
  IN  upTo

\* What the sidecar has replaced by what in these texts.
SlmPairs(es) == UNION {{<<r.original, r.display>> : r \in Range(e.s1)} : e \in Range(es)}

\* Phase 3, under the write lock: ids count from the number of mappings there
\* are now, for every text anew.
Apply(t, gen) ==
  LET first  == MappingCount(vault)
      result == AppliedTo(vault, done[t], first, gen)[Len(done[t])]
  IN
  /\ pc[t] = "detect" /\ Len(done[t]) = Len(text[t])
  /\ pc'    = [pc EXCEPT ![t] = "sent"]
  /\ vault' = result.vault
  /\ sent'  = [sent EXCEPT ![t] = result.out]
  /\ given' = given \cup RowPairs(result.vault) \cup SlmPairs(done[t])
  /\ UNCHANGED <<slm, text, base, done, begun>>

\* The response has been streamed back.
Finish(t) ==
  /\ pc[t] = "sent"
  /\ pc'   = [pc EXCEPT ![t] = "idle"]
  /\ text' = [text EXCEPT ![t] = <<>>]
  /\ base' = [base EXCEPT ![t] = 0]
  /\ done' = [done EXCEPT ![t] = <<>>]
  /\ sent' = [sent EXCEPT ![t] = <<>>]
  /\ UNCHANGED <<slm, vault, begun, given>>

\* The vault is evicted or the process restarted between two requests, and the
\* vault loaded from its records.
Reload ==
  /\ \A t \in Tasks : pc[t] = "idle"
  /\ vault' = Reloaded(vault)
  /\ UNCHANGED <<slm, pc, text, base, done, sent, begun, given>>

Next ==
  \/ \E t \in Tasks :
       \/ \E entries \in Requests : Begin(t, entries)
       \/ AskSlm(t)
       \/ DetectAlone(t)
       \/ DetectWithSlm(t)
       \/ \E gen \in Generated(t) : Apply(t, gen)
       \/ Finish(t)
  \/ Reload

Spec == Init /\ [][Next]_vars

-----------------------------------------------------------------------------
(* Properties *)

\* d has stood for one original only.
Sole(d) == \A p, q \in given : p[2] = d /\ q[2] = d => p[1] = q[1]

\* The vault has the token of a replacement of the sidecar.
Known(r) == <<r.id, r.display>> \in DOMAIN vault.full

\* A response that echoes a text gives the client its own text back, whatever
\* happens to the other texts of the request and to other requests: if each of
\* the synthetics in it has stood for one original only, and the sidecar made
\* at most one replacement, whose token the vault has.
EchoRestored ==
  \A t \in Tasks : pc[t] = "sent" =>
    \A k \in DOMAIN text[t] :
      (/\ \A d \in Range(sent[t][k]) \cap Displays : Sole(d)
       /\ Len(done[t][k].s1) <= 1 /\ \A r \in Range(done[t][k].s1) : Known(r))
      => Unmask(vault, sent[t][k]) = text[t][k]

Occurrences(cells, o) == Cardinality({i \in DOMAIN cells : cells[i] = o})

\* Cells that a zone keeps from Tiers 1 and 2 although no token is there: all
\* zones but the first of a text are where a token was before the tokens to its
\* left were written.
Shadow(e) == UNION {e.s1[j].at..(e.s1[j].at + TokenLen - 1) : j \in 1..(Len(e.s1) - 1)}

\* Every value that Tiers 1 and 2 found is replaced in what is forwarded: an
\* original occurs in clear only as often as it was missed or stands in the
\* shadow of a second replacement of the sidecar.
FoundIsReplaced ==
  \A t \in Tasks : pc[t] = "sent" =>
    \A k \in DOMAIN text[t] : \A o \in Originals :
      LET e == done[t][k] IN
      Occurrences(sent[t][k], o)
        = Cardinality({i \in DOMAIN e.work : e.work[i] = o /\ (i \in e.found => i \in Shadow(e))})

\* An original has one synthetic.  All levels of the cascade give back an
\* original, and those that look at the display value agree on which one, for
\* every synthetic that has stood for one original only.  A token id stands for
\* what some token with this id stands for.
VaultSound ==
  /\ \A i, j \in DOMAIN vault.rows : vault.rows[i].original = vault.rows[j].original => i = j
  /\ \A i \in DOMAIN vault.rows :
       LET o == vault.rows[i].original
           d == vault.rows[i].display
       IN /\ o \in DOMAIN vault.synth /\ vault.synth[o] = d
          /\ Sole(d) /\ d \in DOMAIN vault.byDisplay => vault.byDisplay[d] = o
  /\ \A x \in DOMAIN vault.full :
       x[2] \in DOMAIN vault.byDisplay /\ (Sole(x[2]) => vault.full[x] = vault.byDisplay[x[2]])
  /\ \A id \in DOMAIN vault.byId :
       \E d \in Displays : <<id, d>> \in DOMAIN vault.full /\ vault.full[<<id, d>>] = vault.byId[id]

\* The vault has the tokens that the sidecar's replacements have in the text
\* that is forwarded: their indices were assigned once, in the order of the
\* text, before any write to the vault.
SlmTokensKnown ==
  \A t \in Tasks : pc[t] = "sent" =>
    \A k \in DOMAIN done[t] : \A r \in Range(done[t][k].s1) : Known(r)

\* A synthetic stands for one original, as the specification of the vault has it,
\* and a value that was found is not forwarded, zones or not; the code keeps
\* neither.
SyntheticsUnique == \A d \in Displays : Sole(d)
NoFoundInClear ==
  \A t \in Tasks : pc[t] = "sent" =>
    \A k \in DOMAIN text[t] : \A o \in Originals :
      LET e == done[t][k] IN
      Occurrences(sent[t][k], o) <= Cardinality({i \in DOMAIN e.work \ e.found : e.work[i] = o})
=============================================================================
