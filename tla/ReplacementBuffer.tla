-------------------------- MODULE ReplacementBuffer --------------------------
(***************************************************************************)
(* The streaming reverse replacement of src/src/pii/buffer.rs: text deltas *)
(* of an SSE response go in, text with the originals comes out, and a tail *)
(* that may be the beginning of a synthetic value is held back.            *)
(*                                                                         *)
(* A text is a sequence of characters.  <pii id="I">V</pii> is written     *)
(* Open, I, V, Close, where Open is the two characters "<" "p" (so that a  *)
(* delta can end inside of it), I is one character and Close is "/".       *)
(***************************************************************************)
EXTENDS Integers, Sequences, FiniteSetsExt, SequencesExt

CONSTANTS
  Chars,      \* characters the model's answer is made of
  Display,    \* synthetic (display) value -> original; keys of the automaton
  Ids,        \* token id -> original
  MaxText     \* bound on the length of an answer

ASSUME BufferBounds == MaxText \in Nat

\* A synthetic value is a text with at least one character.
ASSUME VaultAssumption ==
  /\ Chars \cup {"<", "p", "/"} \subseteq STRING
  /\ IsFiniteSet(DOMAIN Display)
  /\ \A k \in DOMAIN Display : k \in Seq(STRING) \ {<<>>} /\ Display[k] \in Seq(STRING)
  /\ \A i \in DOMAIN Ids : Ids[i] \in Seq(STRING)

VARIABLES
  input,    \* the text received so far
  buffer,   \* ReplacementBuffer::buffer
  out,      \* the text returned so far
  ended,    \* flush_remaining has been called
  mark      \* history: the lengths of input and out when an Open was last
            \* cut in two, with its "<" gone out before its "p" came in

bufferVars == <<input, buffer, out, ended, mark>>

Open  == <<"<", "p">>
Close == <<"/">>

\* s is found in t at position i.
At(t, i, s) == i + Len(s) - 1 <= Len(t) /\ SubSeq(t, i, i + Len(s) - 1) = s
From(t, i)  == SubSeq(t, i, Len(t))
Find(t, i, s) == {j \in i..Len(t) : At(t, j, s)}

-----------------------------------------------------------------------------
(* The vault *)

KeysAt(t, i) == {k \in DOMAIN Display : At(t, i, k)}
Longest(K)   == CHOOSE k \in K : \A l \in K : Len(l) <= Len(k)
MaxKeyLen    == Max({0} \cup {Len(k) : k \in DOMAIN Display})
TriggerPrefixes == {SubSeq(k, 1, 2) : k \in {l \in DOMAIN Display : Len(l) >= 2}}

\* What the rest of t from each of its positions becomes.
ReplacedFrom(t) ==
  LET from[i \in 1..(Len(t) + 1)] ==
        IF i > Len(t) THEN <<>>
        ELSE LET K == KeysAt(t, i) IN
             IF K = {} THEN <<t[i]>> \o from[i + 1]
             ELSE Display[Longest(K)] \o from[i + Len(Longest(K))]
  IN from

\* replace_synthetics: leftmost-longest matches over the display values.
ReplaceSynthetics(t) == ReplacedFrom(t)[1]

\* Levels 1 to 4 for the token with this body: the full token or its id is
\* known, else its display value is, else it passes through.
TokenOriginal(body) ==
  IF body # <<>> /\ body[1] \in DOMAIN Ids THEN Ids[body[1]]
  ELSE IF body # <<>> /\ Tail(body) \in DOMAIN Display THEN Display[Tail(body)]
  ELSE Open \o body \o Close

\* Complete tokens are reversed, the text around them goes through
\* replace_synthetics, an incomplete token stays as it is.
CascadeFrom(t) ==
  LET from[i \in 1..(Len(t) + 1)] ==
        LET o == Min(Find(t, i, Open))
            c == Min(Find(t, o, Close))
        IN IF Find(t, i, Open) = {} THEN ReplaceSynthetics(From(t, i))
           ELSE IF Find(t, o, Close) = {} THEN ReplaceSynthetics(SubSeq(t, i, o - 1)) \o From(t, o)
           ELSE ReplaceSynthetics(SubSeq(t, i, o - 1)) \o TokenOriginal(SubSeq(t, o + Len(Open), c - 1))
                \o from[c + Len(Close)]
  IN from

\* apply_xml_token_cascade
Cascade(t) == CascadeFrom(t)[1]

-----------------------------------------------------------------------------
(* The buffer *)

\* Mutant: a first character at the end of the text does not trigger.
HasPairMatch(t) == \E i \in 1..(Len(t) - 1) : SubSeq(t, i, i + 1) \in TriggerPrefixes

\* has_prefix_match: the two-character prefix of a key, or the first character
\* of one at the very end.
HasPrefixMatch(t) ==
  \/ \E i \in 1..(Len(t) - 1) : SubSeq(t, i, i + 1) \in TriggerPrefixes
  \/ t # <<>> /\ \E p \in TriggerPrefixes : p[1] = t[Len(t)]

\* xml_token_holdback_pos: the last Open, if no Close follows it; 0 if none.
XmlHoldback(t) ==
  LET opens == Find(t, 1, Open) IN
  IF opens # {} /\ Find(t, Max(opens), Close) = {} THEN Max(opens) ELSE 0

\* Mutant: the whole text is held back whenever there is a trigger.
HoldEverything(t) == IF HasPrefixMatch(t) THEN 0 ELSE Len(t)

\* compute_safe_flush_len: the number of characters that may go out.
SafeFlushLen(t) ==
  IF XmlHoldback(t) > 0 THEN XmlHoldback(t) - 1
  ELSE LET keep == Min({Len(t), MaxKeyLen}) IN
       IF HasPrefixMatch(From(t, Len(t) - keep + 1)) THEN Len(t) - keep ELSE Len(t)

BufferInit == input = <<>> /\ buffer = <<>> /\ out = <<>> /\ ended = FALSE /\ mark = <<0, 0>>

\* The delta goes on with an Open whose first character has gone out:
\* xml_token_holdback_pos looks for the whole of Open only.
CutsOpen(delta) == buffer = <<>> /\ out # <<>> /\ out[Len(out)] = Open[1] /\ delta[1] = Open[2]

\* process_delta; an empty vault lets everything pass.
ProcessDelta(delta) ==
  LET text == buffer \o delta
      done == IF DOMAIN Display = {} THEN text ELSE Cascade(text)
      safe == IF DOMAIN Display = {} THEN Len(text) ELSE SafeFlushLen(done)
  IN
  /\ ~ended /\ delta # <<>>
  /\ mark' = IF CutsOpen(delta) THEN <<Len(input), Len(out)>> ELSE mark
  /\ input' = input \o delta
  /\ buffer' = From(done, safe + 1)
  /\ out' = out \o SubSeq(done, 1, safe)
  /\ UNCHANGED ended

\* flush_remaining, at the end of the stream.
FlushRemaining ==
  /\ ~ended
  /\ out' = out \o Cascade(buffer)
  /\ buffer' = <<>>
  /\ ended' = TRUE
  /\ UNCHANGED <<input, mark>>

BufferNext ==
  \/ \E delta \in SeqOf(Chars, MaxText - Len(input)) : ProcessDelta(delta)
  \/ FlushRemaining

BufferSpec == BufferInit /\ [][BufferNext]_bufferVars

-----------------------------------------------------------------------------
(* Properties *)

\* A tag inside of a tag: two Opens with no Close between them.
Nested(t) ==
  \E i, j \in Find(t, 1, Open) : i < j /\ \A k \in Find(t, i, Close) : k > j

\* The vault keeps synthetics and originals apart: no value has a character of
\* a tag, a synthetic that is laid over an original in any place differs from
\* it there, and a synthetic is not found in an unfinished one.
OriginalValues == {Display[k] : k \in DOMAIN Display} \cup {Ids[i] : i \in DOMAIN Ids}
Fits(k, o, d) == \A j \in 1..Len(k) : j + d \in 1..Len(o) => k[j] = o[j + d]
Apart ==
  /\ \A k \in DOMAIN Display : \A j \in 1..Len(k) : k[j] \notin {"<", "p", "/"}
  /\ \A o \in OriginalValues : o # <<>> /\ \A j \in 1..Len(o) : o[j] \notin {"<", "p", "/"}
  /\ \A k \in DOMAIN Display : \A o \in OriginalValues : \A d \in (1 - Len(k))..(Len(o) - 1) : ~Fits(k, o, d)
  /\ \A k, l \in DOMAIN Display : \A i \in 1..Len(l) : ~At(SubSeq(l, 1, Len(l) - 1), i, k)
  /\ DOMAIN Display = {} => DOMAIN Ids = {}

\* A token that passes through has no synthetic in its body.
Settled(body) == TokenOriginal(body) # Open \o body \o Close \/ \A i \in 1..Len(body) : KeysAt(body, i) = {}
TokensSettled(t) ==
  \A o \in Find(t, 1, Open) : Find(t, o, Close) # {} =>
    Settled(SubSeq(t, o + Len(Open), Min(Find(t, o, Close)) - 1))

\* However the answer is cut into deltas, what has gone out with what a flush
\* would add is what one replacement of the whole answer gives.  An Open that is
\* cut in two behind its "<" is the one cut that breaks this: the "<" goes out,
\* and the text from the "p" on is replaced as an answer of its own, as the
\* text before it was.
Part  == From(input, mark[1] + 1)
PartSent == From(out, mark[2] + 1) \o Cascade(buffer)
StreamingEqualsOneShot ==
  (Apart /\ ~Nested(Part) /\ TokensSettled(Part)) => PartSent = Cascade(Part)

\* The same of any vault and any text, as the comments of buffer.rs have it; the
\* code does not keep it.
StreamedIsReplaced == out \o Cascade(buffer) = Cascade(input)

\* The buffer holds back less than a synthetic value, or an unfinished token.
HoldbackBounded == Len(buffer) <= MaxKeyLen \/ At(buffer, 1, Open)
=============================================================================
