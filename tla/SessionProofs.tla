--------------------------- MODULE SessionProofs ---------------------------
(***************************************************************************)
(* Proofs about Session, for any number of turns, conversations and events *)
(* and every way in which reads split a response and the two tasks, the    *)
(* client and the upstream interleave.                                     *)
(*                                                                         *)
(* The argument is about the flow of one response: what the client has     *)
(* received, what u2c has read and what is on the wire are consecutive     *)
(* pieces of it, in every PII mode and at every point of the two tasks.    *)
(***************************************************************************)
EXTENDS Session, SubsequenceProofs

-----------------------------------------------------------------------------
(* The invariants *)

\* c2u and the client agree on the request under way: how much of it is where, and that it is
\* answered at most once, after it has been read.
Parts ==
  /\ answered \in {turn - 1, turn} /\ req \in {turn - 1, turn} /\ answered <= req
  /\ cpc = "read" =>
       \/ got = 0 /\ req = turn /\ unsent + cin = 0
       \/ got = 0 /\ req = turn - 1 /\ unsent + cin = 2
       \/ got = 1 /\ req = turn /\ unsent + cin = 1 /\ answered = turn - 1
  /\ cpc \in {"phaseA", "share", "check", "write"} =>
       got = 2 /\ req = turn /\ unsent + cin = 0 /\ answered = turn - 1
  /\ cpc = "log" => /\ got = 2 /\ mode = "off"
                    /\ \/ req = turn /\ unsent + cin = 0
                       \/ req = turn - 1 /\ unsent + cin = 2
  /\ cpc = "done" => unsent + cin <= 2
  /\ answered = turn => unsent + cin = 0 /\ req = turn
  /\ req = 0 => cpc \in {"read", "done"}

\* Everything that moves towards the client was sent by the upstream, in answer to a turn up to
\* the last one answered.
Kinds     == {"H", "D", "S", "Z", "J", "B"}
UnitTo(a) == [u : Kinds, turn : 1..a]
SeenTo(a) == [u : Kinds, turn : 1..a, key : Keys \cup {None}]
RespTo(a) == [header : BOOLEAN, sse : BOOLEAN, sized : BOOLEAN, key : Keys \cup {None}, turn : 0..a]
Heard ==
  /\ rx \in Seq(SeenTo(answered)) /\ wire \in Seq(UnitTo(answered)) /\ batch \in Seq(UnitTo(answered))
  /\ held \in Seq(1..answered) /\ acc \in Seq(1..answered) /\ resp \in RespTo(answered)

\* What TypeOK needs of u2c to be inductive.
U2cShape ==
  /\ resp.sse => resp.turn > 0
  /\ upc \in {"parse", "backoff", "body"} => batch # <<>>
  /\ upc \in {"store", "save"} => fin \in Convs

\* The type invariant in parts: Heard has the types of the streams.
ClientTypes ==
  /\ mode \in Modes /\ nobody \in BOOLEAN /\ open \in BOOLEAN /\ up \in BOOLEAN
  /\ turn \in 0..MaxTurns /\ answered \in 0..MaxTurns /\ unsent \in 0..2
  /\ conv \in [Turns -> Convs \cup {None}]
C2uTypes ==
  /\ cin \in 0..2 /\ got \in 0..2 /\ req \in 0..MaxTurns /\ unframed \in BOOLEAN
  /\ cpc \in {"read", "phaseA", "share", "check", "write", "log", "done"}
  /\ convId \in Convs \cup {None} /\ vault \in Keys \cup {None} /\ keyOf \in [Turns -> Keys \cup {None}]
U2cTypes ==
  /\ upc \in {"read", "parse", "backoff", "body", "flush", "finalize", "store", "save", "after", "done"}
  /\ gone \in BOOLEAN /\ exiting \in BOOLEAN /\ fin \in Convs \cup {None}
  /\ stored \subseteq [conv : Convs, text : Seq(Turns)] /\ saved \subseteq [conv : Convs, key : Keys]

TypeInv == ClientTypes /\ C2uTypes /\ U2cTypes /\ Parts /\ Heard /\ U2cShape

\* The order of the units of a response, and sequences in that order.
Follows(a, b) ==
  \/ a \in {"H", "D"} /\ b \in {"D", "S"}
  \/ a = "S" /\ b = "Z"
  \/ a = "J" /\ b = "B"
Final == {"Z", "B"}
Chain(q)     == \A i \in 1..(Len(q) - 1) : Follows(q[i].u, q[i + 1].u)
OfTurn(q, t) == \A i \in DOMAIN q : q[i].turn = t
FirstOf(q)   == q[1].u
LastOf(q)    == q[Len(q)].u
Joined(p, q) == p # <<>> /\ q # <<>> => Follows(LastOf(p), FirstOf(q))
Begins(q)    == q # <<>> => FirstOf(q) \in {"H", "J"}

\* r, b and w are consecutive pieces of the response to turn t, and w reaches to its end.
Pieces(r, b, w, t) ==
  /\ Chain(r) /\ Chain(b) /\ Chain(w)
  /\ OfTurn(r, t) /\ OfTurn(b, t) /\ OfTurn(w, t)
  /\ Begins(r)
  /\ r = <<>> => Begins(b)
  /\ r = <<>> /\ b = <<>> => Begins(w)
  /\ Joined(r, b) /\ Joined(b, w)
  /\ b = <<>> => Joined(r, w)
  /\ w # <<>> => LastOf(w) \in Final

\* What the client has, what u2c has read and what is on the wire: pieces of one response.
Flow ==
  /\ Pieces(rx, batch, wire, turn)
  /\ rx # <<>> \/ batch # <<>> \/ wire # <<>> => answered = turn

\* u2c has ended a rewritten response and is about to close it.
Closing == upc \in {"flush", "finalize", "store", "save", "after"} /\ ~exiting
InTail  == upc \in {"flush", "finalize", "store", "save", "after"}

\* The state of u2c in the middle of a response.
Middle ==
  /\ resp.sse => resp.header
  /\ upc = "read" => batch = <<>>
  /\ upc = "parse" => ~resp.header
  /\ upc = "backoff" => resp.header /\ resp.turn = batch[1].turn /\ (resp.sse <=> batch[1].u = "H")
  /\ upc \in {"parse", "backoff", "body"} => ~exiting
  /\ upc = "read" => ~exiting
  /\ Closing => batch = <<>>
  /\ ~Rewriting => held = <<>>
  /\ Rewriting /\ (upc \in {"read", "body"} \/ (InTail /\ exiting)) =>
       rx # <<>> /\ LastOf(rx) \in {"H", "D"} /\ resp.turn = turn
  /\ Rewriting /\ Closing => rx # <<>> /\ LastOf(rx) = "S" /\ wire = <<>> /\ resp.turn = turn /\ held = <<>>
  /\ InTail /\ upc # "flush" => held = <<>>
  /\ Rewriting /\ upc = "backoff" => held = <<>>
  /\ upc # "done" => \A i \in DOMAIN held : held[i] = turn
  /\ Replace /\ batch # <<>> => LastOf(batch) # "S"

\* The last of what there is ends the response.
Ended(r, b) == IF b # <<>> THEN LastOf(b) \in Final ELSE r # <<>> /\ LastOf(r) \in Final

\* Unless the upstream is gone, the last piece is the end of the response.
Whole ==
  up /\ answered = turn /\ turn > 0 /\ upc # "done" /\ ~exiting /\ ~(Rewriting /\ Closing) /\ wire = <<>> =>
    Ended(rx, batch)

FlowInv == Flow /\ Middle /\ Whole

\* The conversation and the vault of the turn under way, in replace mode.
Shared ==
  Replace =>
    /\ cpc \in {"share", "check", "write"} \/ (answered = turn /\ turn > 0) => conv[turn] \in {convId, None}
    /\ cpc \in {"check", "write"} \/ (answered = turn /\ turn > 0) =>
         vault = keyOf[turn] /\ vault \in Keys /\ vault \in {convId, SessionUuid}

\* The text in q has passed through the vault k.
Keyed(q, k) == \A i \in DOMAIN q : q[i].u = "D" => q[i].key = k /\ k # None

\* In replace mode, text passes through the vault of its turn, and nothing but a header meets
\* ParseHeader.
Rewritten ==
  Replace =>
    /\ upc \in {"parse", "backoff"} => rx = <<>>
    /\ upc = "body" => resp.header
    /\ (upc = "read" /\ ~resp.header) \/ (Closing /\ ~resp.sse) => rx = <<>> \/ LastOf(rx) \in Final
    /\ resp.header /\ ~resp.sse /\ upc \in {"read", "body"} => rx # <<>> /\ LastOf(rx) = "J" /\ resp.sized
    /\ upc = "backoff" => (resp.sized <=> batch[1].u = "J")
    /\ resp.sse /\ upc \in {"read", "body", "flush"} => resp.key = keyOf[turn] /\ resp.key # None
    /\ Keyed(rx, keyOf[turn])

\* a is what is kept of the text T: all of it, or as much as passes the limit.
Covers(a, T) == a = T \/ (Len(a) > MaxBuffer /\ IsPrefix(a, T))
StoredOk == convId # None /\ Texts(rx) # <<>> => \E s \in stored : s.conv = convId /\ Covers(s.text, Texts(rx))

\* The text accumulated is that of a rewritten response, the one under way; what finalize_response
\* works with is its conversation.
Pending ==
  Replace =>
    /\ ~resp.sse /\ upc # "done" => acc = <<>>
    /\ upc = "backoff" => acc = <<>>
    /\ upc \in {"store", "save"} => resp.sse /\ fin = convId
    /\ upc = "store" => acc # <<>>
    /\ upc # "done" => \A i \in DOMAIN acc : acc[i] = turn

\* The text the client has is accumulated, then stored, and stored before the last chunk is sent.
Kept ==
  Replace =>
    /\ resp.sse /\ upc \in {"read", "body", "flush", "finalize", "store"} => Covers(acc, Texts(rx))
    /\ resp.sse /\ upc \in {"save", "after"} => StoredOk
    /\ rx # <<>> /\ LastOf(rx) = "Z" => StoredOk

\* What is stored and saved belongs to its conversation.
StoredOwn ==
  Replace => \A s \in stored : \E t \in 1..turn :
               (\A i \in DOMAIN s.text : s.text[i] = t) /\ conv[t] \in {s.conv, None}
SavedOwn == Replace => VaultSavedWithItsConversation

Accounted == Pending /\ Kept /\ StoredOwn /\ SavedOwn

\* Only replace mode saves vaults.
SavesOnlyReplace == ~Replace => saved = {} /\ upc # "save"
-----------------------------------------------------------------------------
(* Operators *)

\* Turns answered earlier are answered later.
LEMMA HeardMore ==
  ASSUME NEW a \in Nat, NEW b \in Nat, a <= b
  PROVE  /\ Seq(SeenTo(a)) \subseteq Seq(SeenTo(b)) /\ Seq(UnitTo(a)) \subseteq Seq(UnitTo(b))
         /\ Seq(1..a) \subseteq Seq(1..b) /\ RespTo(a) \subseteq RespTo(b)
<1>1. SeenTo(a) \subseteq SeenTo(b) /\ UnitTo(a) \subseteq UnitTo(b) /\ 1..a \subseteq 1..b /\ RespTo(a) \subseteq RespTo(b)
  BY DEF SeenTo, UnitTo, RespTo
<1>2. QED
  BY <1>1, SeqMonotonic, Zenon

\* A read's units, forwarded as they are.
LEMMA RawFacts ==
  ASSUME NEW a \in Nat, NEW units \in Seq(UnitTo(a))
  PROVE  /\ Raw(units) \in Seq(SeenTo(a)) /\ Len(Raw(units)) = Len(units)
         /\ \A i \in 1..Len(units) :
              Raw(units)[i].u = units[i].u /\ Raw(units)[i].turn = units[i].turn /\ Raw(units)[i].key = None
<1>1. Len(units) \in Nat /\ DOMAIN units = 1..Len(units) /\ \A i \in 1..Len(units) : units[i] \in UnitTo(a)
  OBVIOUS
<1>2. ASSUME NEW i \in 1..Len(units)
      PROVE  /\ Raw(units)[i] = [u |-> units[i].u, turn |-> units[i].turn, key |-> None]
             /\ Raw(units)[i] \in SeenTo(a)
  <2>1. Raw(units)[i] = [u |-> units[i].u, turn |-> units[i].turn, key |-> None]
    BY <1>1 DEF Raw
  <2>2. units[i].u \in Kinds /\ units[i].turn \in 1..a
    BY <1>1 DEF UnitTo
  <2>3. [u |-> units[i].u, turn |-> units[i].turn, key |-> None] \in SeenTo(a)
    BY <2>2 DEF SeenTo
  <2>4. QED
    BY <2>1, <2>3, Zenon
<1>3. Raw(units) = [i \in 1..Len(units) |-> Raw(units)[i]]
  BY <1>1 DEF Raw
<1>4. Raw(units) \in [1..Len(units) -> SeenTo(a)]
  BY <1>2, <1>3
<1>5. Raw(units) \in Seq(SeenTo(a))
  BY <1>1, <1>4, SeqDef, SMTT(60)
<1>6. Len(Raw(units)) = Len(units)
  BY <1>1, <1>4, <1>5
<1>7. ASSUME NEW i \in 1..Len(units)
      PROVE  Raw(units)[i].u = units[i].u /\ Raw(units)[i].turn = units[i].turn /\ Raw(units)[i].key = None
  <2>1. Raw(units)[i] = [u |-> units[i].u, turn |-> units[i].turn, key |-> None]
    BY <1>2, Zenon
  <2>2. QED
    BY <2>1
<1>8. QED
  BY <1>5, <1>6, <1>7, Zenon

\* Text that has passed the replacement buffer.
LEMMA ReversedFacts ==
  ASSUME NEW a \in Nat, NEW texts \in Seq(1..a), resp.key \in Keys \cup {None}
  PROVE  /\ Reversed(texts) \in Seq(SeenTo(a)) /\ Len(Reversed(texts)) = Len(texts)
         /\ \A i \in 1..Len(texts) : /\ Reversed(texts)[i].u = "D" /\ Reversed(texts)[i].turn = texts[i]
                                     /\ Reversed(texts)[i].key = resp.key
<1>1. Len(texts) \in Nat /\ DOMAIN texts = 1..Len(texts) /\ \A i \in 1..Len(texts) : texts[i] \in 1..a
  OBVIOUS
<1>2. ASSUME NEW i \in 1..Len(texts)
      PROVE  /\ Reversed(texts)[i] = [u |-> "D", turn |-> texts[i], key |-> resp.key]
             /\ Reversed(texts)[i] \in SeenTo(a)
  <2>1. Reversed(texts)[i] = [u |-> "D", turn |-> texts[i], key |-> resp.key]
    BY <1>1 DEF Reversed
  <2>2. "D" \in Kinds
    BY DEF Kinds
  <2>3. [u |-> "D", turn |-> texts[i], key |-> resp.key] \in SeenTo(a)
    BY <1>1, <2>2 DEF SeenTo
  <2>4. QED
    BY <2>1, <2>3, Zenon
<1>3. Reversed(texts) = [i \in 1..Len(texts) |-> Reversed(texts)[i]]
  BY <1>1 DEF Reversed
<1>4. Reversed(texts) \in [1..Len(texts) -> SeenTo(a)]
  BY <1>2, <1>3
<1>5. Reversed(texts) \in Seq(SeenTo(a))
  BY <1>1, <1>4, SeqDef, SMTT(60)
<1>6. Len(Reversed(texts)) = Len(texts)
  BY <1>1, <1>4, <1>5
<1>7. ASSUME NEW i \in 1..Len(texts)
      PROVE  /\ Reversed(texts)[i].u = "D" /\ Reversed(texts)[i].turn = texts[i]
             /\ Reversed(texts)[i].key = resp.key
  <2>1. Reversed(texts)[i] = [u |-> "D", turn |-> texts[i], key |-> resp.key]
    BY <1>2, Zenon
  <2>2. QED
    BY <2>1
<1>8. QED
  BY <1>5, <1>6, <1>7, Zenon

\* The text of a run of units is a sequence of turns.
LEMMA TextsType ==
  ASSUME NEW a \in Nat, NEW T, NEW units \in Seq(T), \A x \in T : x.turn \in 1..a
  PROVE  Texts(units) \in Seq(1..a)
<1> DEFINE f == [i \in DOMAIN units |-> units[i].turn]
           I == {i \in DOMAIN units : units[i].u = "D"}
<1>1. Len(units) \in Nat /\ DOMAIN units = 1..Len(units) /\ \A i \in 1..Len(units) : units[i].turn \in 1..a
  OBVIOUS
<1>2. f \in Seq(1..a)
  <2>1. f \in [1..Len(units) -> 1..a]
    BY <1>1
  <2>2. QED
    BY <1>1, <2>1, SeqDef, SMTT(60)
<1> HIDE DEF f, I
<1>3. Picked(f, I) \in Seq(1..a)
  BY <1>2, PickedSeq, Zenon
<1>4. QED
  BY <1>3, Zenon DEF Texts, f, I

\* accumulated stays a sequence of turns.
LEMMA AccumulateType ==
  ASSUME NEW a \in Nat, acc \in Seq(1..a), NEW texts \in Seq(1..a)
  PROVE  Accumulate(texts) \in Seq(1..a) /\ AccumulateEach(texts) \in Seq(1..a)
<1>1. acc \o texts \in Seq(1..a)
  OBVIOUS
<1>2. ASSUME ~Full PROVE acc \o SubSeq(texts, 1, Min({Len(texts), MaxBuffer + 1 - Len(acc)})) \in Seq(1..a)
  <2> DEFINE x == Len(texts)
             y == MaxBuffer + 1 - Len(acc)
             m == Min({x, y})
  <2>1. x \in Nat /\ y \in Nat
    BY <1>2, BoundAssumption DEF Full
  <2> HIDE DEF x, y
  <2>2. \E z \in {x, y} : \A w \in {x, y} : z <= w
    BY <2>1
  <2>3. m \in {x, y} /\ \A w \in {x, y} : m <= w
    BY <2>2, Zenon DEF Min
  <2> HIDE DEF m
  <2>4. m \in 0..x
    BY <2>1, <2>3
  <2>5. SubSeq(texts, 1, m) \in Seq(1..a)
    BY <2>4 DEF x
  <2>6. acc \o SubSeq(texts, 1, m) \in Seq(1..a)
    BY <2>5
  <2>7. QED
    BY <2>6, Zenon DEF m, x, y
<1>3. QED
  BY <1>1, <1>2, Zenon DEF Accumulate, AccumulateEach
-----------------------------------------------------------------------------
(* Type correctness *)

\* A whole response at the client is an answered one.
LEMMA CompleteAnswered ==
  ASSUME ClientTypes, Heard, Complete PROVE turn <= answered
<1>1. PICK i \in DOMAIN rx : rx[i].turn = turn
  BY Zenon DEF Complete
<1>2. rx[i] \in SeenTo(answered)
  BY DEF Heard
<1>3. rx[i].turn \in 1..answered
  BY <1>2 DEF SeenTo
<1>4. QED
  BY <1>1, <1>3 DEF ClientTypes

\* The client and the upstream.
LEMMA EnvironmentTypes ==
  ASSUME TypeInv, Environment PROVE TypeInv'
<1> USE DEF clientVars, c2uVars, u2cVars
<1>0. ClientTypes /\ C2uTypes /\ U2cTypes /\ Parts /\ Heard /\ U2cShape
  BY Zenon DEF TypeInv
<1>1. ASSUME NEW c \in Convs \cup {None}, NEW bare \in BOOLEAN, BeginRequest(c, bare) PROVE TypeInv'
  <2>1. /\ turn < MaxTurns /\ turn' = turn + 1 /\ conv' = [conv EXCEPT ![turn + 1] = c] /\ unsent' = 2
        /\ rx' = <<>> /\ nobody' = bare
    BY <1>1 DEF BeginRequest
  <2>2. /\ UNCHANGED <<mode, open, cin, wire, up, answered>> /\ UNCHANGED c2uVars /\ UNCHANGED u2cVars
        /\ UNCHANGED <<convId, vault, gone, keyOf, stored, saved>>
    BY <1>1 DEF BeginRequest
  <2>3. turn <= answered
    <3>1. CASE turn = 0
      BY <1>0, <3>1 DEF ClientTypes
    <3>2. CASE Complete
      BY <1>0, <3>2, CompleteAnswered, Zenon
    <3>3. QED
      BY <1>1, <3>1, <3>2, Zenon DEF BeginRequest
  <2>4. ClientTypes'
    <3>1. turn' \in 0..MaxTurns /\ unsent' \in 0..2 /\ conv' \in [Turns -> Convs \cup {None}]
      BY <1>0, <2>1, BoundAssumption DEF ClientTypes, Turns
    <3>2. QED
      BY <1>0, <2>1, <2>2, <3>1, Zenon DEF ClientTypes
  <2>5. C2uTypes'
    BY <1>0, <2>2 DEF C2uTypes
  <2>6. U2cTypes'
    BY <1>0, <2>2 DEF U2cTypes
  <2>7. Parts'
    BY <1>0, <2>1, <2>2, <2>3 DEF Parts, ClientTypes, C2uTypes
  <2>8. Heard'
    <3>1. <<>> \in Seq(SeenTo(answered))
      BY EmptySeq
    <3>2. QED
      BY <1>0, <2>1, <2>2, <3>1 DEF Heard
  <2>9. U2cShape'
    BY <1>0, <2>2 DEF U2cShape
  <2>10. QED
    BY <2>4, <2>5, <2>6, <2>7, <2>8, <2>9, Zenon DEF TypeInv
<1>2. CASE SendPart
  <2>1. unsent > 0 /\ unsent' = unsent - 1 /\ cin' = cin + 1
    BY <1>2 DEF SendPart
  <2>2. /\ UNCHANGED <<mode, open, turn, conv, nobody, rx, wire, up, answered>> /\ UNCHANGED c2uVars
        /\ UNCHANGED u2cVars /\ UNCHANGED <<convId, vault, gone, keyOf, stored, saved>>
    BY <1>2 DEF SendPart
  <2>3. unsent + cin <= 2
    BY <1>0 DEF Parts, ClientTypes, C2uTypes
  <2>4. ClientTypes'
    <3>1. unsent' \in 0..2
      BY <1>0, <2>1 DEF ClientTypes
    <3>2. QED
      BY <1>0, <2>2, <3>1 DEF ClientTypes
  <2>5. C2uTypes'
    <3>1. cin' \in 0..2
      BY <1>0, <2>1, <2>3 DEF ClientTypes, C2uTypes
    <3>2. QED
      BY <1>0, <2>2, <3>1 DEF C2uTypes
  <2>6. U2cTypes'
    BY <1>0, <2>2 DEF U2cTypes
  <2>7. Parts'
    BY <1>0, <2>1, <2>2 DEF Parts, ClientTypes, C2uTypes
  <2>8. Heard' /\ U2cShape'
    BY <1>0, <2>2 DEF Heard, U2cShape
  <2>9. QED
    BY <2>4, <2>5, <2>6, <2>7, <2>8, Zenon DEF TypeInv
<1>3. CASE ClientClose
  <2>1. /\ open' = FALSE /\ UNCHANGED <<mode, turn, unsent, conv, nobody, rx, cin, wire, up, answered>>
        /\ UNCHANGED c2uVars /\ UNCHANGED u2cVars /\ UNCHANGED <<convId, vault, gone, keyOf, stored, saved>>
    BY <1>3 DEF ClientClose
  <2>2. ClientTypes' /\ C2uTypes' /\ U2cTypes'
    <3>1. open' \in BOOLEAN
      BY <2>1
    <3>2. ClientTypes'
      BY <1>0, <2>1, <3>1, Zenon DEF ClientTypes
    <3>3. C2uTypes'
      BY <1>0, <2>1 DEF C2uTypes
    <3>4. U2cTypes'
      BY <1>0, <2>1 DEF U2cTypes
    <3>5. QED
      BY <3>2, <3>3, <3>4, Zenon
  <2>3. Parts' /\ Heard' /\ U2cShape'
    BY <1>0, <2>1 DEF Parts, Heard, U2cShape
  <2>4. QED
    BY <2>2, <2>3, Zenon DEF TypeInv
<1>4. ASSUME NEW reset \in BOOLEAN, UpstreamClose(reset) PROVE TypeInv'
  <2>1. /\ up' = FALSE /\ (wire' = <<>> \/ wire' = wire) /\ UNCHANGED <<mode, open, turn, unsent, conv, nobody>>
        /\ UNCHANGED <<rx, cin, answered>>
        /\ UNCHANGED c2uVars /\ UNCHANGED u2cVars /\ UNCHANGED <<convId, vault, gone, keyOf, stored, saved>>
    BY <1>4 DEF UpstreamClose
  <2>2. ClientTypes' /\ C2uTypes' /\ U2cTypes'
    <3>1. up' \in BOOLEAN
      BY <2>1
    <3>2. ClientTypes'
      BY <1>0, <2>1, <3>1, Zenon DEF ClientTypes
    <3>3. C2uTypes'
      BY <1>0, <2>1 DEF C2uTypes
    <3>4. U2cTypes'
      BY <1>0, <2>1 DEF U2cTypes
    <3>5. QED
      BY <3>2, <3>3, <3>4, Zenon
  <2>3. Parts' /\ U2cShape'
    BY <1>0, <2>1 DEF Parts, U2cShape
  <2>4. Heard'
    <3>1. <<>> \in Seq(UnitTo(answered))
      BY EmptySeq
    <3>2. QED
      BY <1>0, <2>1, <3>1 DEF Heard
  <2>5. QED
    BY <2>2, <2>3, <2>4, Zenon DEF TypeInv
<1>5. QED
  BY <1>1, <1>2, <1>3, <1>4, Zenon DEF Environment

\* c2u leaves u2c's state alone.
LEMMA C2uLeaves ==
  ASSUME TypeInv, UNCHANGED clientVars, UNCHANGED u2cVars, UNCHANGED <<rx, up, gone, stored, saved>>
  PROVE  /\ U2cTypes' /\ U2cShape'
         /\ answered' = answered => ClientTypes'
         /\ answered' = answered /\ wire' = wire => Heard'
<1>1. U2cTypes' /\ U2cShape'
  BY DEF TypeInv, U2cTypes, U2cShape, u2cVars
<1>2. answered' = answered => ClientTypes'
  BY DEF TypeInv, ClientTypes, clientVars
<1>3. answered' = answered /\ wire' = wire => Heard'
  BY DEF TypeInv, Heard, u2cVars
<1>4. QED
  BY <1>1, <1>2, <1>3, Zenon

\* The units of an answer.
LEMMA ResponseType ==
  ASSUME NEW t \in Nat, t > 0, NEW r \in Responses(t)
  PROVE  r \in Seq(UnitTo(t))
<1>1. \A k \in Kinds : U(k, t) \in UnitTo(t)
  BY DEF U, UnitTo
<1>2. /\ U("H", t) \in UnitTo(t) /\ U("D", t) \in UnitTo(t) /\ U("S", t) \in UnitTo(t)
      /\ U("Z", t) \in UnitTo(t) /\ U("J", t) \in UnitTo(t) /\ U("B", t) \in UnitTo(t)
  BY <1>1, Zenon DEF Kinds
<1>3. CASE r = <<U("J", t), U("B", t)>>
  BY <1>2, <1>3
<1>4. ASSUME NEW n \in 0..MaxDeltas,
             r = <<U("H", t)>> \o [i \in 1..n |-> U("D", t)]
                   \o (IF Provider = "google" THEN <<U("Z", t)>> ELSE <<U("S", t), U("Z", t)>>)
      PROVE  r \in Seq(UnitTo(t))
  <2> DEFINE d == [i \in 1..n |-> U("D", t)]
             e == IF Provider = "google" THEN <<U("Z", t)>> ELSE <<U("S", t), U("Z", t)>>
  <2>1. d \in Seq(UnitTo(t))
    <3>1. n \in Nat /\ d \in [1..n -> UnitTo(t)]
      BY <1>2, BoundAssumption
    <3>2. QED
      BY <3>1, SeqDef, SMTT(60)
  <2>2. e \in Seq(UnitTo(t))
    BY <1>2
  <2>3. <<U("H", t)>> \in Seq(UnitTo(t))
    BY <1>2
  <2> HIDE DEF d, e
  <2>4. r = <<U("H", t)>> \o d \o e
    BY <1>4, Zenon DEF d, e
  <2>5. QED
    BY <2>1, <2>2, <2>3, <2>4
<1>5. QED
  BY <1>3, <1>4, Zenon DEF Responses
\* What a step of c2u needs to keep the types.
LEMMA C2uKeeps ==
  ASSUME TypeInv, UNCHANGED clientVars, UNCHANGED u2cVars, UNCHANGED <<rx, up, gone, stored, saved>>,
         C2uTypes', Parts', answered' = answered, wire' = wire
  PROVE  TypeInv'
  BY C2uLeaves, Zenon DEF TypeInv

\* c2u.
LEMMA C2uTypesStep ==
  ASSUME TypeInv, C2u PROVE TypeInv'
<1>0. ClientTypes /\ C2uTypes /\ U2cTypes /\ Parts /\ Heard /\ U2cShape
  BY Zenon DEF TypeInv
<1>a. /\ turn \in Nat /\ unsent \in Nat /\ answered \in Nat /\ turn <= MaxTurns /\ MaxTurns \in Nat
      /\ cin \in Nat /\ got \in Nat /\ req \in Nat
  BY <1>0, BoundAssumption DEF ClientTypes, C2uTypes
<1>1. ASSUME NEW n \in 1..2, NEW refused \in BOOLEAN, ReadClient(n, refused) PROVE TypeInv'
  <2>1. /\ UNCHANGED clientVars /\ UNCHANGED u2cVars /\ UNCHANGED <<rx, up, gone, stored, saved>>
        /\ answered' = answered /\ wire' = wire /\ UNCHANGED <<convId, vault, keyOf>>
    BY <1>1 DEF ReadClient
  <2>2. /\ cpc = "read" /\ n <= cin /\ req' = (IF got = 0 THEN req + 1 ELSE req) /\ got' = got + n /\ cin' = cin - n
    BY <1>1, Zenon DEF ReadClient
  <2>3. \/ cpc' = "done"
        \/ got + n < 2 /\ cpc' = "read"
        \/ ~(got + n < 2) /\ cpc' \in {"check", "phaseA"}
    BY <1>1, Zenon DEF ReadClient
  <2>4. unframed' \in BOOLEAN
    BY <1>1, Zenon DEF ReadClient
  <2>5. turn' = turn /\ unsent' = unsent /\ mode' = mode
    BY <2>1 DEF clientVars
  <2>6. Parts'
    BY <1>0, <1>a, <2>1, <2>2, <2>3, <2>5 DEF Parts
  <2>7. C2uTypes'
    <3>1. cin' \in 0..2 /\ got' \in 0..2 /\ req' \in 0..MaxTurns
      BY <1>0, <1>a, <2>2 DEF Parts
    <3>2. cpc' \in {"read", "phaseA", "share", "check", "write", "log", "done"}
      BY <2>3
    <3>3. QED
      BY <1>0, <2>1, <2>4, <3>1, <3>2, Zenon DEF C2uTypes
  <2>8. QED
    BY <2>1, <2>6, <2>7, C2uKeeps, Zenon
<1>2. CASE StopReading
  <2>1. /\ UNCHANGED clientVars /\ UNCHANGED u2cVars /\ UNCHANGED <<rx, up, gone, stored, saved>>
        /\ answered' = answered /\ wire' = wire /\ UNCHANGED <<convId, vault, keyOf, cin, got, req, unframed>>
        /\ cpc = "read" /\ cpc' = "done"
    BY <1>2 DEF StopReading
  <2>2. turn' = turn /\ unsent' = unsent /\ mode' = mode
    BY <2>1 DEF clientVars
  <2>3. Parts'
    BY <1>0, <1>a, <2>1, <2>2 DEF Parts
  <2>4. C2uTypes'
    BY <1>0, <2>1 DEF C2uTypes
  <2>5. QED
    BY <2>1, <2>3, <2>4, C2uKeeps, Zenon
<1>3. ASSUME NEW from \in {"phaseA", "log"}, NEW to \in {"share", "read"},
             from = "phaseA" => to = "share", from = "log" => to = "read", FindConversation(from, to)
      PROVE  TypeInv'
  <2>1. /\ UNCHANGED clientVars /\ UNCHANGED u2cVars /\ UNCHANGED <<rx, up, gone, stored, saved>>
        /\ answered' = answered /\ wire' = wire /\ UNCHANGED <<vault, keyOf, cin, req, unframed>>
        /\ cpc = from /\ cpc' = to
    BY <1>3 DEF FindConversation
  <2>2. convId' = (IF conv[req] # None THEN conv[req] ELSE convId) /\ got' = (IF from = "log" THEN 0 ELSE got)
    BY <1>3, Zenon DEF FindConversation
  <2>3. turn' = turn /\ unsent' = unsent /\ mode' = mode
    BY <2>1 DEF clientVars
  <2>4. Parts'
    BY <1>0, <1>3, <1>a, <2>1, <2>2, <2>3 DEF Parts
  <2>5. req \in Turns
    BY <1>0, <1>3, <1>a, <2>1 DEF Parts, Turns
  <2>6. convId' \in Convs \cup {None}
    BY <1>0, <2>2, <2>5 DEF ClientTypes, C2uTypes
  <2>7. C2uTypes'
    BY <1>0, <2>1, <2>2, <2>6 DEF C2uTypes
  <2>8. QED
    BY <2>1, <2>4, <2>7, C2uKeeps, Zenon
<1>4. CASE ShareVault
  <2>1. /\ UNCHANGED clientVars /\ UNCHANGED u2cVars /\ UNCHANGED <<rx, up, gone, stored, saved>>
        /\ answered' = answered /\ wire' = wire /\ UNCHANGED <<convId, cin, got, req, unframed>>
        /\ cpc = "share" /\ cpc' = "check" /\ vault' = VaultKey /\ keyOf' = [keyOf EXCEPT ![req] = VaultKey]
    BY <1>4 DEF ShareVault
  <2>2. turn' = turn /\ unsent' = unsent /\ mode' = mode
    BY <2>1 DEF clientVars
  <2>3. Parts'
    BY <1>0, <1>a, <2>1, <2>2 DEF Parts
  <2>4. req \in Turns
    BY <1>0, <1>a, <2>1 DEF Parts, Turns
  <2>5. VaultKey \in Keys
    BY <1>0, <2>4 DEF ClientTypes, C2uTypes, VaultKey, Keys
  <2>6. C2uTypes'
    BY <1>0, <2>1, <2>5 DEF C2uTypes
  <2>7. QED
    BY <2>1, <2>3, <2>6, C2uKeeps, Zenon
<1>5. CASE CheckGone
  <2>1. /\ UNCHANGED clientVars /\ UNCHANGED u2cVars /\ UNCHANGED <<rx, up, gone, stored, saved>>
        /\ answered' = answered /\ wire' = wire /\ UNCHANGED <<convId, vault, keyOf, cin, got, req, unframed>>
        /\ cpc = "check"
    BY <1>5 DEF CheckGone
  <2>2. cpc' \in {"done", "write"}
    BY <1>5, Zenon DEF CheckGone
  <2>3. turn' = turn /\ unsent' = unsent /\ mode' = mode
    BY <2>1 DEF clientVars
  <2>4. Parts'
    BY <1>0, <1>a, <2>1, <2>2, <2>3 DEF Parts
  <2>5. C2uTypes'
    BY <1>0, <2>1, <2>2 DEF C2uTypes
  <2>6. QED
    BY <2>1, <2>4, <2>5, C2uKeeps, Zenon
<1>6. CASE ForwardFails
  <2>1. /\ UNCHANGED clientVars /\ UNCHANGED u2cVars /\ UNCHANGED <<rx, up, gone, stored, saved>>
        /\ answered' = answered /\ wire' = wire /\ UNCHANGED <<convId, vault, keyOf, cin, got, req, unframed>>
        /\ cpc = "write" /\ cpc' = "done"
    BY <1>6 DEF ForwardFails
  <2>2. turn' = turn /\ unsent' = unsent /\ mode' = mode
    BY <2>1 DEF clientVars
  <2>3. Parts'
    BY <1>0, <1>a, <2>1, <2>2 DEF Parts
  <2>4. C2uTypes'
    BY <1>0, <2>1 DEF C2uTypes
  <2>5. QED
    BY <2>1, <2>3, <2>4, C2uKeeps, Zenon
<1>7. CASE Forward
  <2>1. /\ UNCHANGED clientVars /\ UNCHANGED u2cVars /\ UNCHANGED <<rx, up, gone, stored, saved>>
        /\ UNCHANGED <<convId, vault, keyOf, cin, req, unframed>> /\ cpc = "write"
    BY <1>7 DEF Forward
  <2>2. \/ mode = "off" /\ cpc' = "log" /\ got' = got
        \/ cpc' = "read" /\ got' = 0
    BY <1>7, Zenon DEF Forward
  <2>3. \/ (\E r \in Responses(req) : wire' = wire \o r) /\ answered' = req
        \/ wire' = wire /\ answered' = answered
    BY <1>7 DEF Forward
  <2>4. turn' = turn /\ unsent' = unsent /\ mode' = mode
    BY <2>1 DEF clientVars
  <2>5. answered' \in {answered, req} /\ req = turn /\ answered = turn - 1 /\ got = 2 /\ req > 0 /\ unsent + cin = 0
    BY <1>0, <1>a, <2>1, <2>3 DEF Parts
  <2>6. Parts'
    BY <1>0, <1>a, <2>1, <2>2, <2>4, <2>5 DEF Parts
  <2>7. C2uTypes'
    BY <1>0, <2>1, <2>2 DEF C2uTypes
  <2>8. ClientTypes'
    <3>1. answered' \in 0..MaxTurns
      BY <1>a, <2>5
    <3>2. UNCHANGED <<mode, open, turn, unsent, conv, nobody, up>>
      BY <2>1 DEF clientVars
    <3>3. QED
      BY <1>0, <3>1, <3>2, Zenon DEF ClientTypes
  <2>9. Heard'
    <3>1. /\ Seq(SeenTo(answered)) \subseteq Seq(SeenTo(answered')) /\ Seq(UnitTo(answered)) \subseteq Seq(UnitTo(answered'))
          /\ Seq(1..answered) \subseteq Seq(1..answered') /\ RespTo(answered) \subseteq RespTo(answered')
      <4>1. answered' \in Nat /\ answered <= answered'
        BY <1>a, <2>5
      <4>2. QED
        BY <1>a, <4>1, HeardMore, Zenon
    <3>2. wire' \in Seq(UnitTo(answered'))
      <4>1. CASE wire' = wire
        BY <1>0, <3>1, <4>1 DEF Heard
      <4>2. ASSUME NEW r \in Responses(req), wire' = wire \o r, answered' = req PROVE wire' \in Seq(UnitTo(answered'))
        <5>1. r \in Seq(UnitTo(req))
          BY <1>a, <2>5, ResponseType, Zenon
        <5>2. wire \in Seq(UnitTo(req))
          BY <1>0, <3>1, <4>2 DEF Heard
        <5>3. QED
          BY <4>2, <5>1, <5>2
      <4>3. QED
        BY <2>3, <4>1, <4>2, Zenon
    <3>3. UNCHANGED <<rx, batch, held, acc, resp>>
      BY <2>1 DEF u2cVars
    <3>4. QED
      BY <1>0, <3>1, <3>2, <3>3 DEF Heard
  <2>10. QED
    BY <2>1, <2>6, <2>7, <2>8, <2>9, C2uLeaves, Zenon DEF TypeInv
<1>8. QED
  <2>1. PhaseA \/ Log => TypeInv'
    BY <1>3 DEF PhaseA, Log
  <2>2. QED
    BY <1>1, <1>2, <1>4, <1>5, <1>6, <1>7, <2>1, Zenon DEF C2u

\* A sequence is empty when its length is 0.
LEMMA NonEmpty ==
  ASSUME NEW T, NEW s \in Seq(T) PROVE s # <<>> <=> Len(s) > 0
<1>1. Len(s) \in Nat /\ (s = <<>> <=> Len(s) = 0)
  BY EmptySeq
<1>2. QED
  BY <1>1

\* All but the first element.
LEMMA TailFacts ==
  ASSUME NEW T, NEW s \in Seq(T), s # <<>>
  PROVE  /\ Head(s) \in T /\ Head(s) = s[1] /\ Tail(s) \in Seq(T) /\ Len(Tail(s)) = Len(s) - 1 /\ Len(s) \in Nat /\ Len(s) > 0
         /\ (Len(s) > 1 <=> Tail(s) # <<>>)
         /\ \A i \in 1..Len(Tail(s)) : Tail(s)[i] = s[i + 1]
<1>1. Head(s) \in T /\ Tail(s) \in Seq(T) /\ Len(Tail(s)) = Len(s) - 1 /\ Len(s) \in Nat /\ Head(s) = s[1]
  OBVIOUS
<1>2. \A i \in 1..Len(Tail(s)) : Tail(s)[i] = s[i + 1]
  OBVIOUS
<1>3. Tail(s) # <<>> <=> Len(Tail(s)) > 0
  BY <1>1, NonEmpty, Zenon
<1>4. Len(s) > 0
  BY NonEmpty, Zenon
<1>5. QED
  BY <1>1, <1>2, <1>3, <1>4

\* u2c leaves the client and c2u alone.
LEMMA U2cLeaves ==
  ASSUME TypeInv, UNCHANGED Others
  PROVE  ClientTypes' /\ C2uTypes' /\ Parts' /\ answered' = answered /\ turn' = turn /\ mode' = mode /\ keyOf' = keyOf
         /\ convId' = convId /\ vault' = vault /\ up' = up /\ conv' = conv
<1>1. ClientTypes'
  BY DEF TypeInv, ClientTypes, Others, clientVars
<1>2. C2uTypes'
  BY DEF TypeInv, C2uTypes, Others, c2uVars
<1>3. Parts'
  BY DEF TypeInv, Parts, Others, clientVars, c2uVars
<1>4. QED
  BY <1>1, <1>2, <1>3 DEF Others, clientVars

\* What a step of u2c needs to keep the types.
LEMMA U2cKeeps ==
  ASSUME TypeInv, UNCHANGED Others, U2cTypes', U2cShape',
         rx' \in Seq(SeenTo(answered)), wire' \in Seq(UnitTo(answered)), batch' \in Seq(UnitTo(answered)),
         held' \in Seq(1..answered), acc' \in Seq(1..answered), resp' \in RespTo(answered)
  PROVE  TypeInv'
<1>1. ClientTypes' /\ C2uTypes' /\ Parts' /\ answered' = answered
  BY U2cLeaves, Zenon
<1>2. Heard'
  BY <1>1 DEF Heard
<1>3. QED
  BY <1>1, <1>2, Zenon DEF TypeInv

\* Reading, and the ways out of the loop.
LEMMA ReadTypes ==
  ASSUME TypeInv, (\E n \in 1..Len(wire) : ReadUpstream(n)) \/ UpstreamLost \/ SeeShutdown \/ WriteFails
  PROVE  TypeInv'
<1>0. ClientTypes /\ U2cTypes /\ Heard /\ U2cShape
  BY Zenon DEF TypeInv
<1>a. /\ rx \in Seq(SeenTo(answered)) /\ wire \in Seq(UnitTo(answered)) /\ batch \in Seq(UnitTo(answered))
      /\ held \in Seq(1..answered) /\ acc \in Seq(1..answered) /\ resp \in RespTo(answered)
  BY <1>0, Zenon DEF Heard
<1>1. ASSUME NEW n \in 1..Len(wire), ReadUpstream(n) PROVE TypeInv'
  <2>1. /\ UNCHANGED Others /\ UNCHANGED <<rx, resp, held, acc, exiting, fin, gone, stored, saved>>
        /\ batch' = SubSeq(wire, 1, n) /\ wire' = SubSeq(wire, n + 1, Len(wire))
    BY <1>1 DEF ReadUpstream
  <2>2. upc' \in {"body", "parse"}
    BY <1>1, Zenon DEF ReadUpstream
  <2>3. /\ batch' \in Seq(UnitTo(answered)) /\ wire' \in Seq(UnitTo(answered)) /\ batch' # <<>>
    <3>1. n \in Nat /\ Len(wire) \in Nat /\ n <= Len(wire) /\ n > 0
      BY <1>a
    <3>2. SubSeq(wire, 1, n) \in Seq(UnitTo(answered)) /\ Len(SubSeq(wire, 1, n)) = n
      BY <1>a, <3>1
    <3>3. SubSeq(wire, n + 1, Len(wire)) \in Seq(UnitTo(answered))
      BY <1>a, <3>1
    <3>4. SubSeq(wire, 1, n) # <<>>
      BY <3>1, <3>2, NonEmpty, Zenon
    <3>5. QED
      BY <2>1, <3>2, <3>3, <3>4, Zenon
  <2>4. U2cTypes'
    BY <1>0, <2>1, <2>2 DEF U2cTypes
  <2>5. U2cShape'
    BY <1>0, <2>1, <2>2, <2>3 DEF U2cShape
  <2>6. UNCHANGED Others /\ rx' = rx /\ held' = held /\ acc' = acc /\ resp' = resp
    BY <2>1
  <2>7. QED
    BY <1>a, <2>3, <2>4, <2>5, <2>6, U2cKeeps, Zenon
<1>2. ASSUME UpstreamLost \/ SeeShutdown \/ WriteFails PROVE TypeInv'
  <2>1. /\ UNCHANGED Others /\ UNCHANGED <<rx, wire, batch, resp, held, acc, fin, stored, saved>>
    BY <1>2 DEF UpstreamLost, SeeShutdown, WriteFails
  <2>2. upc' \in {"flush", "done"}
    BY <1>2, Zenon DEF UpstreamLost, SeeShutdown, WriteFails
  <2>3. gone' \in BOOLEAN /\ exiting' \in BOOLEAN
    <3>1. (gone' = TRUE \/ gone' = gone) /\ (exiting' = TRUE \/ exiting' = exiting)
      BY <1>2 DEF UpstreamLost, SeeShutdown, WriteFails
    <3>2. QED
      BY <1>0, <3>1, Zenon DEF U2cTypes
  <2>4. U2cTypes'
    <3>1. upc' \in {"read", "parse", "backoff", "body", "flush", "finalize", "store", "save", "after", "done"}
      BY <2>2
    <3>2. fin' = fin /\ stored' = stored /\ saved' = saved
      BY <2>1
    <3>3. QED
      BY <1>0, <2>3, <3>1, <3>2, Zenon DEF U2cTypes
  <2>5. U2cShape'
    BY <1>0, <2>1, <2>2 DEF U2cShape
  <2>6. UNCHANGED Others /\ rx' = rx /\ wire' = wire /\ batch' = batch /\ held' = held /\ acc' = acc /\ resp' = resp
    BY <2>1
  <2>7. QED
    BY <1>a, <2>4, <2>5, <2>6, U2cKeeps, Zenon
<1>3. QED
  BY <1>1, <1>2, Zenon

\* The header.
LEMMA HeaderTypes ==
  ASSUME TypeInv, (\E close \in BOOLEAN : ParseHeader(close)) \/ ForwardHeader
  PROVE  TypeInv'
<1>0. ClientTypes /\ C2uTypes /\ U2cTypes /\ Heard /\ U2cShape
  BY Zenon DEF TypeInv
<1>a. /\ rx \in Seq(SeenTo(answered)) /\ wire \in Seq(UnitTo(answered)) /\ batch \in Seq(UnitTo(answered))
      /\ held \in Seq(1..answered) /\ acc \in Seq(1..answered) /\ resp \in RespTo(answered)
  BY <1>0, Zenon DEF Heard
<1>b. upc \in {"parse", "backoff"} => batch # <<>> /\ Head(batch).turn \in 1..answered /\ Head(batch).u \in Kinds
  <2>1. ASSUME upc \in {"parse", "backoff"} PROVE batch # <<>>
    BY <1>0, <2>1 DEF U2cShape
  <2>2. batch # <<>> => Head(batch) \in UnitTo(answered)
    BY <1>a
  <2>3. batch # <<>> => Head(batch).turn \in 1..answered /\ Head(batch).u \in Kinds
    BY <2>2 DEF UnitTo
  <2>4. QED
    BY <2>1, <2>3, Zenon
<1>c. answered \in Nat
  BY <1>0, BoundAssumption DEF ClientTypes
<1>1. ASSUME NEW close \in BOOLEAN, ParseHeader(close) PROVE TypeInv'
  <2>1. /\ UNCHANGED Others /\ UNCHANGED <<rx, wire, batch, held, acc, exiting, fin, stored, saved>>
        /\ upc = "parse" /\ upc' = "backoff"
    BY <1>1 DEF ParseHeader
  <2>2. gone' \in BOOLEAN
    BY <1>0, <1>1, Zenon DEF ParseHeader, U2cTypes
  <2>3. resp' = [header |-> TRUE, sse |-> Head(batch).u = "H", sized |-> Head(batch).u = "J",
                 key |-> None, turn |-> Head(batch).turn]
    BY <1>1 DEF ParseHeader
  <2>4. resp' \in RespTo(answered) /\ resp'.turn > 0
    <3>1. Head(batch).turn \in 1..answered
      BY <1>b, <2>1
    <3>2. Head(batch).turn \in 0..answered /\ Head(batch).turn > 0
      BY <1>c, <3>1
    <3>3. (Head(batch).u = "H") \in BOOLEAN /\ (Head(batch).u = "J") \in BOOLEAN /\ TRUE \in BOOLEAN /\ None \in Keys \cup {None}
      OBVIOUS
    <3>4. resp' \in RespTo(answered)
      BY <2>3, <3>2, <3>3, Zenon DEF RespTo
    <3>5. resp'.turn = Head(batch).turn
      BY <2>3
    <3>6. QED
      BY <3>2, <3>4, <3>5
  <2>5. U2cTypes'
    <3>1. upc' \in {"read", "parse", "backoff", "body", "flush", "finalize", "store", "save", "after", "done"}
      BY <2>1
    <3>2. exiting' = exiting /\ fin' = fin /\ stored' = stored /\ saved' = saved
      BY <2>1
    <3>3. QED
      BY <1>0, <2>2, <3>1, <3>2, Zenon DEF U2cTypes
  <2>6. U2cShape'
    BY <1>b, <2>1, <2>4 DEF U2cShape
  <2>7. UNCHANGED Others /\ rx' = rx /\ wire' = wire /\ batch' = batch /\ held' = held /\ acc' = acc
    BY <2>1
  <2>8. QED
    BY <1>a, <2>4, <2>5, <2>6, <2>7, U2cKeeps, Zenon
<1>2. ASSUME ForwardHeader PROVE TypeInv'
  <2>1. /\ UNCHANGED Others /\ UNCHANGED <<wire, held, acc, exiting, fin, gone, stored, saved>>
        /\ upc = "backoff" /\ batch' = Tail(batch)
        /\ rx' = rx \o <<[u |-> Head(batch).u, turn |-> Head(batch).turn, key |-> None]>>
    BY <1>2 DEF ForwardHeader, WriteOk
  <2>2. resp' = [resp EXCEPT !.key = IF Replace /\ resp.sse THEN vault ELSE None]
        /\ upc' = IF Len(batch) > 1 THEN "body" ELSE "read"
    BY <1>2, Zenon DEF ForwardHeader
  <2>3. resp' \in RespTo(answered) /\ resp'.sse = resp.sse /\ resp'.turn = resp.turn
    <3> DEFINE k == IF Replace /\ resp.sse THEN vault ELSE None
    <3>1. k \in Keys \cup {None}
      BY <1>0 DEF C2uTypes
    <3> HIDE DEF k
    <3>2. resp' = [resp EXCEPT !.key = k]
      BY <2>2 DEF k
    <3>3. QED
      BY <1>a, <3>1, <3>2 DEF RespTo
  <2>4. batch # <<>> /\ batch' \in Seq(UnitTo(answered)) /\ (Len(batch) > 1 => batch' # <<>>)
    <3>1. batch # <<>>
      BY <1>b, <2>1
    <3>2. Tail(batch) \in Seq(UnitTo(answered)) /\ Len(Tail(batch)) = Len(batch) - 1
      BY <1>a, <3>1
    <3>3. Len(batch) > 1 => Tail(batch) # <<>>
      <4>1. Len(batch) \in Nat /\ (Len(batch) > 1 => Len(Tail(batch)) > 0)
        BY <1>a, <3>2
      <4>2. QED
        BY <3>2, <4>1, NonEmpty, Zenon
    <3>4. QED
      BY <2>1, <3>1, <3>2, <3>3
  <2>5. rx' \in Seq(SeenTo(answered))
    <3>1. [u |-> Head(batch).u, turn |-> Head(batch).turn, key |-> None] \in SeenTo(answered)
      BY <1>b, <2>1 DEF SeenTo
    <3>2. QED
      BY <1>a, <2>1, <3>1
  <2>6. U2cTypes'
    BY <1>0, <2>1, <2>2 DEF U2cTypes
  <2>7. U2cShape'
    BY <1>0, <2>1, <2>2, <2>3, <2>4 DEF U2cShape
  <2>8. UNCHANGED Others /\ wire' = wire /\ held' = held /\ acc' = acc
    BY <2>1
  <2>9. QED
    BY <1>a, <2>3, <2>4, <2>5, <2>6, <2>7, <2>8, U2cKeeps, Zenon
<1>3. QED
  BY <1>1, <1>2, Zenon

\* The body of a response that is not rewritten.
LEMMA RawChunkTypes ==
  ASSUME TypeInv, RawChunk PROVE TypeInv'
<1> DEFINE sentinels == {i \in DOMAIN batch : batch[i].u = "S"}
           upTo      == IF sentinels = {} THEN Len(batch) ELSE CHOOSE i \in sentinels : \A j \in sentinels : i <= j
           part      == SubSeq(batch, 1, upTo)
<1>0. ClientTypes /\ U2cTypes /\ Heard /\ U2cShape
  BY Zenon DEF TypeInv
<1>a. /\ rx \in Seq(SeenTo(answered)) /\ wire \in Seq(UnitTo(answered)) /\ batch \in Seq(UnitTo(answered))
      /\ held \in Seq(1..answered) /\ acc \in Seq(1..answered) /\ resp \in RespTo(answered) /\ answered \in Nat
  BY <1>0, BoundAssumption DEF Heard, ClientTypes
<1>1. /\ UNCHANGED Others /\ UNCHANGED <<wire, resp, held, exiting, fin, gone, stored, saved>>
      /\ upc = "body" /\ batch' = <<>> /\ rx' = rx \o Raw(batch)
  BY DEF RawChunk, WriteOk
<1>2. upc' \in {"flush", "read"} /\ acc' = IF resp.sse THEN AccumulateEach(Texts(part)) ELSE acc
  BY Zenon DEF RawChunk
<1>3. rx' \in Seq(SeenTo(answered))
  <2>1. Raw(batch) \in Seq(SeenTo(answered))
    BY <1>a, RawFacts, Zenon
  <2>2. QED
    BY <1>1, <1>a, <2>1
<1>4. upTo \in 0..Len(batch)
  <2>1. sentinels \subseteq Nat /\ sentinels \subseteq 0..Len(batch) /\ Len(batch) \in 0..Len(batch)
    BY <1>a
  <2> HIDE DEF sentinels
  <2>2. sentinels # {} => \E i \in sentinels : \A j \in sentinels : i <= j
    BY <2>1, LeastNatural, Zenon
  <2>3. sentinels # {} => (CHOOSE i \in sentinels : \A j \in sentinels : i <= j) \in sentinels
    BY <2>2, Zenon
  <2>4. QED
    BY <2>1, <2>3, Zenon
<1> HIDE DEF upTo
<1>5. Texts(part) \in Seq(1..answered)
  <2>1. part \in Seq(UnitTo(answered))
    BY <1>4, <1>a
  <2>2. \A x \in UnitTo(answered) : x.turn \in 1..answered
    BY DEF UnitTo
  <2> HIDE DEF part
  <2>3. QED
    BY <1>a, <2>1, <2>2, TextsType, Zenon
<1>6. acc' \in Seq(1..answered)
  BY <1>2, <1>5, <1>a, AccumulateType, Zenon
<1>7. U2cTypes'
  BY <1>0, <1>1, <1>2 DEF U2cTypes
<1>8. U2cShape'
  BY <1>0, <1>1, <1>2 DEF U2cShape
<1>9. UNCHANGED Others /\ wire' = wire /\ held' = held /\ resp' = resp /\ batch' \in Seq(UnitTo(answered))
  BY <1>1, EmptySeq
<1>10. QED
  BY <1>a, <1>3, <1>6, <1>7, <1>8, <1>9, U2cKeeps, Zenon

\* An event of a response that is rewritten.
LEMMA RewriteDeltaTypes ==
  ASSUME TypeInv, NEW hold \in BOOLEAN, RewriteDelta(hold) PROVE TypeInv'
<1> DEFINE event == Head(batch)
           texts == held \o <<event.turn>>
<1>0. ClientTypes /\ U2cTypes /\ Heard /\ U2cShape
  BY Zenon DEF TypeInv
<1>a. /\ rx \in Seq(SeenTo(answered)) /\ wire \in Seq(UnitTo(answered)) /\ batch \in Seq(UnitTo(answered))
      /\ held \in Seq(1..answered) /\ acc \in Seq(1..answered) /\ resp \in RespTo(answered) /\ answered \in Nat
  BY <1>0, BoundAssumption DEF Heard, ClientTypes
<1>1. /\ UNCHANGED Others /\ UNCHANGED <<wire, resp, exiting, fin, gone, stored, saved>>
      /\ batch # <<>> /\ batch' = Tail(batch)
  BY DEF RewriteDelta
<1>2. upc' = IF Len(batch) > 1 THEN "body" ELSE "read"
  BY Zenon DEF RewriteDelta
<1>3. \/ rx' = rx \o Reversed(texts) /\ acc' = Accumulate(texts) /\ held' = <<>>
      \/ held' = texts /\ rx' = rx /\ acc' = acc
      \/ rx' = rx \o Raw(<<event>>) /\ acc' = acc \o <<event.turn>> /\ held' = held
      \/ rx' = rx /\ acc' = acc /\ held' = held
  BY DEF RewriteDelta, WriteOk
<1>4. event \in UnitTo(answered) /\ event.turn \in 1..answered /\ Tail(batch) \in Seq(UnitTo(answered))
      /\ (Len(batch) > 1 <=> Tail(batch) # <<>>)
  <2>1. Head(batch) \in UnitTo(answered) /\ Tail(batch) \in Seq(UnitTo(answered)) /\ (Len(batch) > 1 <=> Tail(batch) # <<>>)
    BY <1>1, <1>a, TailFacts, Zenon
  <2>2. Head(batch).turn \in 1..answered
    BY <2>1 DEF UnitTo
  <2>3. QED
    BY <2>1, <2>2
<1> HIDE DEF event
<1>5. texts \in Seq(1..answered) /\ <<event>> \in Seq(UnitTo(answered)) /\ acc \o <<event.turn>> \in Seq(1..answered)
  BY <1>4, <1>a
<1> HIDE DEF texts
<1>6. /\ Accumulate(texts) \in Seq(1..answered) /\ Reversed(texts) \in Seq(SeenTo(answered)) /\ Raw(<<event>>) \in Seq(SeenTo(answered))
  <2>1. resp.key \in Keys \cup {None}
    BY <1>a DEF RespTo
  <2>2. QED
    BY <1>a, <1>5, <2>1, AccumulateType, ReversedFacts, RawFacts, Zenon
<1>7. rx' \in Seq(SeenTo(answered)) /\ acc' \in Seq(1..answered) /\ held' \in Seq(1..answered)
  <2>1. rx \o Reversed(texts) \in Seq(SeenTo(answered)) /\ rx \o Raw(<<event>>) \in Seq(SeenTo(answered)) /\ <<>> \in Seq(1..answered)
    BY <1>6, <1>a
  <2>2. QED
    BY <1>3, <1>5, <1>6, <1>a, <2>1, Zenon
<1>8. U2cTypes'
  BY <1>0, <1>1, <1>2 DEF U2cTypes
<1>9. U2cShape'
  BY <1>0, <1>1, <1>2, <1>4 DEF U2cShape
<1>10. UNCHANGED Others /\ wire' = wire /\ resp' = resp /\ batch' \in Seq(UnitTo(answered))
  BY <1>1, <1>4
<1>11. QED
  BY <1>a, <1>7, <1>8, <1>9, <1>10, U2cKeeps, Zenon

\* What the sentinel flushes and leaves.
LEMMA StopFacts ==
  ASSUME NEW a \in Nat, held \in Seq(1..a)
  PROVE  TailBeforeStop \in Seq(1..a) /\ SubSeq(held, Len(TailBeforeStop) + 1, Len(held)) \in Seq(1..a)
<1>1. TailBeforeStop = held \/ TailBeforeStop = <<>>
  BY Zenon DEF TailBeforeStop
<1>2. TailBeforeStop \in Seq(1..a) /\ Len(TailBeforeStop) \in Nat
  BY <1>1, EmptySeq
<1> HIDE DEF TailBeforeStop
<1>3. QED
  BY <1>2

\* The end of a response.
LEMMA EndTypes ==
  ASSUME TypeInv, RewriteStop \/ FlushRepBuf \/ AfterResponse PROVE TypeInv'
<1>0. ClientTypes /\ U2cTypes /\ Heard /\ U2cShape
  BY Zenon DEF TypeInv
<1>a. /\ rx \in Seq(SeenTo(answered)) /\ wire \in Seq(UnitTo(answered)) /\ batch \in Seq(UnitTo(answered))
      /\ held \in Seq(1..answered) /\ acc \in Seq(1..answered) /\ resp \in RespTo(answered) /\ answered \in Nat
      /\ <<>> \in Seq(UnitTo(answered)) /\ <<>> \in Seq(1..answered) /\ <<>> \in Seq(SeenTo(answered))
  BY <1>0, BoundAssumption, EmptySeq DEF Heard, ClientTypes
<1>b. resp.key \in Keys \cup {None} /\ (resp.sse => resp.turn \in 1..answered)
  BY <1>0, <1>a DEF RespTo, U2cShape
<1>1. ASSUME RewriteStop PROVE TypeInv'
  <2>1. /\ UNCHANGED Others /\ UNCHANGED <<wire, resp, exiting, fin, gone, stored, saved>>
        /\ rx' = rx \o (Reversed(TailBeforeStop) \o StopEvent) /\ acc' = Accumulate(TailBeforeStop)
        /\ held' = SubSeq(held, Len(TailBeforeStop) + 1, Len(held)) /\ batch' = <<>> /\ upc' = "flush"
    BY <1>1 DEF RewriteStop, WriteOk
  <2>2. resp.sse
    BY <1>1, Zenon DEF RewriteStop, Rewriting
  <2>3. TailBeforeStop \in Seq(1..answered) /\ held' \in Seq(1..answered)
    BY <1>a, <2>1, StopFacts
  <2>4. acc' \in Seq(1..answered) /\ Reversed(TailBeforeStop) \in Seq(SeenTo(answered))
    BY <1>a, <1>b, <2>1, <2>3, AccumulateType, ReversedFacts, Zenon
  <2>5. StopEvent \in Seq(SeenTo(answered))
    <3>1. [u |-> "S", turn |-> resp.turn, key |-> None] \in SeenTo(answered)
      BY <1>b, <2>2 DEF SeenTo, Kinds
    <3>2. QED
      BY <3>1 DEF StopEvent
  <2>6. rx' \in Seq(SeenTo(answered))
    BY <1>a, <2>1, <2>4, <2>5
  <2>7. U2cTypes'
    BY <1>0, <2>1 DEF U2cTypes
  <2>8. U2cShape'
    BY <1>0, <2>1 DEF U2cShape
  <2>9. UNCHANGED Others /\ wire' = wire /\ resp' = resp /\ batch' \in Seq(UnitTo(answered))
    BY <1>a, <2>1
  <2>10. QED
    BY <1>a, <2>3, <2>4, <2>6, <2>7, <2>8, <2>9, U2cKeeps, Zenon
<1>2. ASSUME FlushRepBuf PROVE TypeInv'
  <2>1. /\ UNCHANGED Others /\ UNCHANGED <<wire, batch, resp, exiting, fin, gone, stored, saved>>
        /\ acc' = Accumulate(held) /\ held' = <<>> /\ upc' = "finalize"
    BY <1>2 DEF FlushRepBuf
  <2>2. rx' = rx \o <<>> \/ rx' = rx \o Reversed(held)
    BY <1>2, Zenon DEF FlushRepBuf, WriteOk
  <2>3. acc' \in Seq(1..answered) /\ Reversed(held) \in Seq(SeenTo(answered))
    BY <1>a, <1>b, <2>1, AccumulateType, ReversedFacts, Zenon
  <2>4. rx' \in Seq(SeenTo(answered))
    <3>1. rx \o <<>> \in Seq(SeenTo(answered)) /\ rx \o Reversed(held) \in Seq(SeenTo(answered))
      BY <1>a, <2>3
    <3>2. QED
      BY <2>2, <3>1, Zenon
  <2>5. U2cTypes'
    BY <1>0, <2>1 DEF U2cTypes
  <2>6. U2cShape'
    BY <1>0, <2>1 DEF U2cShape
  <2>7. UNCHANGED Others /\ wire' = wire /\ resp' = resp /\ batch' = batch /\ held' \in Seq(1..answered)
    BY <1>a, <2>1
  <2>8. QED
    BY <1>a, <2>3, <2>4, <2>5, <2>6, <2>7, U2cKeeps, Zenon
<1>3. ASSUME AfterResponse PROVE TypeInv'
  <2>1. /\ UNCHANGED Others /\ UNCHANGED <<wire, batch, held, exiting, gone, stored, saved>> /\ fin' = None
    BY <1>3 DEF AfterResponse
  <2>2. \/ upc' = "done" /\ rx' = rx /\ resp' = resp /\ acc' = acc
        \/ upc' = "read" /\ rx' = rx \o LastChunk /\ resp' = Reset /\ acc' = <<>>
    BY <1>3 DEF AfterResponse, WriteOk
  <2>3. LastChunk \in Seq(SeenTo(answered))
    <3>1. resp.sse => [u |-> "Z", turn |-> resp.turn, key |-> None] \in SeenTo(answered)
      BY <1>b DEF SeenTo, Kinds
    <3>2. resp.sse => <<[u |-> "Z", turn |-> resp.turn, key |-> None]>> \in Seq(SeenTo(answered))
      BY <3>1
    <3>3. QED
      BY <1>a, <3>2, Zenon DEF LastChunk, Rewriting
  <2>4. rx' \in Seq(SeenTo(answered)) /\ acc' \in Seq(1..answered)
    <3>1. rx \o LastChunk \in Seq(SeenTo(answered))
      BY <1>a, <2>3
    <3>2. QED
      BY <1>a, <2>2, <3>1, Zenon
  <2>5. resp' \in RespTo(answered) /\ (resp'.sse => resp'.turn > 0)
    <3>1. Reset \in RespTo(answered) /\ ~Reset.sse
      BY <1>a DEF Reset, RespTo
    <3>2. QED
      BY <1>0, <1>a, <2>2, <3>1 DEF U2cShape
  <2>6. U2cTypes'
    BY <1>0, <2>1, <2>2 DEF U2cTypes
  <2>7. U2cShape'
    BY <2>2, <2>5 DEF U2cShape
  <2>8. UNCHANGED Others /\ wire' = wire /\ batch' = batch /\ held' = held
    BY <2>1
  <2>9. QED
    BY <1>a, <2>4, <2>5, <2>6, <2>7, <2>8, U2cKeeps, Zenon
<1>4. QED
  BY <1>1, <1>2, <1>3, Zenon

\* Storing a response and saving its vault.
LEMMA StoreTypes ==
  ASSUME TypeInv, FinalizeResponse \/ StoreResponse \/ SaveVault PROVE TypeInv'
<1>0. ClientTypes /\ C2uTypes /\ U2cTypes /\ Heard /\ U2cShape
  BY Zenon DEF TypeInv
<1>a. /\ rx \in Seq(SeenTo(answered)) /\ wire \in Seq(UnitTo(answered)) /\ batch \in Seq(UnitTo(answered))
      /\ held \in Seq(1..answered) /\ acc \in Seq(1..answered) /\ resp \in RespTo(answered) /\ answered \in Nat
      /\ <<>> \in Seq(1..answered)
  BY <1>0, BoundAssumption, EmptySeq DEF Heard, ClientTypes
<1>1. ASSUME FinalizeResponse PROVE TypeInv'
  <2>1. /\ UNCHANGED Others /\ UNCHANGED <<rx, wire, batch, resp, held, acc, exiting, gone, stored, saved>> /\ fin' = convId
    BY <1>1 DEF FinalizeResponse
  <2>2. upc' = "after" \/ (upc' = "store" /\ convId # None)
    BY <1>1, Zenon DEF FinalizeResponse
  <2>3. U2cTypes'
    BY <1>0, <2>1, <2>2 DEF U2cTypes, C2uTypes
  <2>4. U2cShape'
    BY <1>0, <2>1, <2>2 DEF U2cShape, C2uTypes
  <2>5. UNCHANGED Others /\ UNCHANGED rx /\ UNCHANGED wire /\ UNCHANGED batch /\ UNCHANGED resp /\ UNCHANGED held /\ UNCHANGED acc
    BY <2>1
  <2>6. QED
    BY <1>a, <2>3, <2>4, <2>5, U2cKeeps, Zenon
<1>2. ASSUME StoreResponse PROVE TypeInv'
  <2>1. /\ UNCHANGED Others /\ UNCHANGED <<rx, wire, batch, resp, held, exiting, fin, gone, saved>> /\ acc' = <<>>
        /\ upc = "store" /\ stored' = stored \cup {[conv |-> fin, text |-> acc]}
    BY <1>2 DEF StoreResponse
  <2>2. upc' \in {"save", "after"}
    BY <1>2, Zenon DEF StoreResponse
  <2>3. fin \in Convs
    BY <1>0, <2>1 DEF U2cShape
  <2>4. acc \in Seq(Turns)
    <3>1. 1..answered \subseteq Turns
      BY <1>0, BoundAssumption DEF ClientTypes, Turns
    <3>2. QED
      BY <1>a, <3>1, SeqMonotonic, Zenon
  <2>5. U2cTypes'
    <3>1. stored' \subseteq [conv : Convs, text : Seq(Turns)]
      BY <1>0, <2>1, <2>3, <2>4 DEF U2cTypes
    <3>2. QED
      BY <1>0, <2>1, <2>2, <3>1 DEF U2cTypes
  <2>6. U2cShape'
    BY <1>0, <2>1, <2>2, <2>3 DEF U2cShape
  <2>7. UNCHANGED Others /\ UNCHANGED rx /\ UNCHANGED wire /\ UNCHANGED batch /\ UNCHANGED resp /\ UNCHANGED held
    BY <2>1
  <2>8. QED
    BY <1>a, <2>1, <2>5, <2>6, <2>7, U2cKeeps, Zenon
<1>3. ASSUME SaveVault PROVE TypeInv'
  <2>1. /\ UNCHANGED Others /\ UNCHANGED <<rx, wire, batch, resp, held, acc, exiting, fin, gone, stored>>
        /\ upc = "save" /\ upc' = "after"
    BY <1>3 DEF SaveVault
  <2>2. saved' = saved \/ (vault # None /\ saved' = saved \cup {[conv |-> fin, key |-> vault]})
    BY <1>3, Zenon DEF SaveVault
  <2>3. fin \in Convs
    BY <1>0, <2>1 DEF U2cShape
  <2>4. U2cTypes'
    <3>1. saved' \subseteq [conv : Convs, key : Keys]
      BY <1>0, <2>2, <2>3 DEF U2cTypes, C2uTypes
    <3>2. QED
      BY <1>0, <2>1, <3>1 DEF U2cTypes
  <2>5. U2cShape'
    BY <1>0, <2>1 DEF U2cShape
  <2>6. UNCHANGED Others /\ UNCHANGED rx /\ UNCHANGED wire /\ UNCHANGED batch /\ UNCHANGED resp /\ UNCHANGED held /\ UNCHANGED acc
    BY <2>1
  <2>7. QED
    BY <1>a, <2>4, <2>5, <2>6, U2cKeeps, Zenon
<1>4. QED
  BY <1>1, <1>2, <1>3, Zenon

\* u2c.
LEMMA U2cTypesStep ==
  ASSUME TypeInv, U2c PROVE TypeInv'
  BY ReadTypes, HeaderTypes, RawChunkTypes, RewriteDeltaTypes, EndTypes, StoreTypes, Zenon DEF U2c

\* The first state.
LEMMA InitTypes ==
  ASSUME Init PROVE TypeInv
<1>1. ClientTypes
  <2>1. open \in BOOLEAN /\ nobody \in BOOLEAN /\ up \in BOOLEAN
    BY DEF Init
  <2>2. turn \in 0..MaxTurns /\ answered \in 0..MaxTurns /\ unsent \in 0..2 /\ conv \in [Turns -> Convs \cup {None}]
    BY BoundAssumption DEF Init
  <2>3. QED
    BY <2>1, <2>2, Zenon DEF Init, ClientTypes
<1>2. C2uTypes
  <2>1. cin \in 0..2 /\ got \in 0..2 /\ req \in 0..MaxTurns
    BY BoundAssumption DEF Init
  <2>2. unframed \in BOOLEAN
    BY DEF Init
  <2>3. keyOf \in [Turns -> Keys \cup {None}]
    BY DEF Init
  <2>4. cpc \in {"read", "phaseA", "share", "check", "write", "log", "done"} /\ convId \in Convs \cup {None} /\ vault \in Keys \cup {None}
    BY DEF Init
  <2>5. QED
    BY <2>1, <2>2, <2>3, <2>4, Zenon DEF C2uTypes
<1>3. U2cTypes
  BY DEF Init, U2cTypes
<1>4. Parts
  BY DEF Init, Parts
<1>5. Heard
  <2>1. /\ rx \in Seq(SeenTo(answered)) /\ wire \in Seq(UnitTo(answered)) /\ batch \in Seq(UnitTo(answered))
        /\ held \in Seq(1..answered) /\ acc \in Seq(1..answered)
    BY EmptySeq DEF Init
  <2>2. resp \in RespTo(answered)
    BY DEF Init, Reset, RespTo
  <2>3. QED
    BY <2>1, <2>2, Zenon DEF Heard
<1>6. U2cShape
  BY DEF Init, U2cShape, Reset
<1>7. QED
  BY <1>1, <1>2, <1>3, <1>4, <1>5, <1>6, Zenon DEF TypeInv

\* The inductive invariant has the type invariant in it.
LEMMA TypesOK ==
  ASSUME TypeInv PROVE TypeOK
<1>0. ClientTypes /\ C2uTypes /\ U2cTypes /\ Heard
  BY Zenon DEF TypeInv
<1>1. 1..answered \subseteq Turns /\ 0..answered \subseteq 0..MaxTurns
  BY <1>0, BoundAssumption DEF ClientTypes, Turns
<1>2. rx \in Seq(Seen) /\ wire \in Seq(Unit) /\ batch \in Seq(Unit) /\ held \in Seq(Turns) /\ acc \in Seq(Turns)
  <2>1. SeenTo(answered) \subseteq Seen /\ UnitTo(answered) \subseteq Unit
    BY <1>1 DEF SeenTo, UnitTo, Seen, Unit, Kinds
  <2>2. QED
    BY <1>0, <1>1, <2>1, SeqMonotonic, Zenon DEF Heard
<1>3. resp \in [header : BOOLEAN, sse : BOOLEAN, sized : BOOLEAN, key : Keys \cup {None}, turn : 0..MaxTurns]
  BY <1>0, <1>1 DEF Heard, RespTo
<1>4. QED
  BY <1>0, <1>2, <1>3, Zenon DEF TypeOK, ClientTypes, C2uTypes, U2cTypes

\* A step keeps the types.
LEMMA TypesStep ==
  ASSUME TypeInv, [Next]_vars PROVE TypeInv'
<1>1. ASSUME UNCHANGED vars PROVE TypeInv'
  <2>1. UNCHANGED clientVars /\ UNCHANGED c2uVars /\ UNCHANGED u2cVars /\ UNCHANGED <<rx, cin, wire, up, answered>>
        /\ UNCHANGED <<convId, vault, gone, keyOf, stored, saved>>
    BY <1>1 DEF vars
  <2>2. C2uTypes' /\ Parts'
    BY <2>1 DEF TypeInv, C2uTypes, Parts, clientVars, c2uVars
  <2>3. UNCHANGED <<rx, up, gone, stored, saved>> /\ answered' = answered /\ wire' = wire
    BY <2>1
  <2>4. QED
    BY <2>1, <2>2, <2>3, C2uKeeps, Zenon
<1>2. QED
  BY <1>1, EnvironmentTypes, C2uTypesStep, U2cTypesStep, Zenon DEF Next, Over

\* Every variable of the session keeps its type, and TypeInv's stronger facts hold: a response is
\* of a turn that has been answered, and no request is answered twice.
THEOREM TypeInvariant == Spec => []TypeInv
<1>1. Init => TypeInv
  BY InitTypes, Zenon
<1>2. TypeInv /\ [Next]_vars => TypeInv'
  BY TypesStep, Zenon
<1>3. QED
  BY <1>1, <1>2, PTL DEF Spec

\* Every variable keeps its type, whatever the number of turns and the way reads are split.
THEOREM TypeCorrect == Spec => []TypeOK
<1>1. TypeInv => TypeOK
  BY TypesOK, Zenon
<1>2. QED
  BY <1>1, TypeInvariant, PTL
-----------------------------------------------------------------------------
(* Pieces of a response *)

\* The order of units: the ends of a response have no followers, headers follow nothing, and what
\* may follow the header may follow text.
LEMMA FollowsFacts ==
  /\ \A a, b : Follows(a, b) => a \notin Final /\ b \notin {"H", "J"}
  /\ \A b : Follows("H", b) <=> Follows("D", b)
  /\ \A b : (Follows("D", b) => b \in {"D", "S"}) /\ (Follows("S", b) => b = "Z") /\ (Follows("J", b) => b = "B")
  /\ \A a : (Follows(a, "B") => a = "J")
  /\ \A a \in {"H", "D"} : Follows(a, "D") /\ Follows(a, "S")
  /\ Follows("S", "Z") /\ Follows("J", "B")
  BY DEF Follows, Final

\* Two runs in order that are joined.
LEMMA ConcatChain ==
  ASSUME NEW X, NEW p \in Seq(X), NEW q \in Seq(X), NEW t
  PROVE  /\ p \o q \in Seq(X)
         /\ Chain(p) /\ Chain(q) /\ Joined(p, q) => Chain(p \o q)
         /\ OfTurn(p, t) /\ OfTurn(q, t) => OfTurn(p \o q, t)
         /\ q # <<>> => p \o q # <<>> /\ LastOf(p \o q) = LastOf(q)
         /\ p # <<>> => p \o q # <<>> /\ FirstOf(p \o q) = FirstOf(p)
         /\ p = <<>> => p \o q = q
         /\ q = <<>> => p \o q = p
<1> DEFINE m == Len(p)
           n == Len(q)
           s == p \o q
<1>1. /\ m \in Nat /\ n \in Nat /\ s \in Seq(X) /\ Len(s) = m + n
      /\ \A i \in 1..m : s[i] = p[i]
      /\ \A i \in 1..n : s[m + i] = q[i]
      /\ DOMAIN p = 1..m /\ DOMAIN q = 1..n /\ DOMAIN s = 1..Len(s)
  OBVIOUS
<1>2. (p # <<>> <=> m > 0) /\ (q # <<>> <=> n > 0) /\ (s # <<>> <=> Len(s) > 0)
  BY <1>1, NonEmpty, Zenon
<1>3. (p = <<>> => s = q) /\ (q = <<>> => s = p)
  BY ConcatEmptySeq, Zenon
<1> HIDE DEF m, n, s
<1>4. ASSUME Chain(p), Chain(q), Joined(p, q) PROVE Chain(s)
  <2> SUFFICES ASSUME NEW i \in 1..(Len(s) - 1) PROVE Follows(s[i].u, s[i + 1].u)
    BY Zenon DEF Chain
  <2>1. CASE i < m
    <3>1. i \in 1..(m - 1) /\ s[i] = p[i] /\ s[i + 1] = p[i + 1]
      BY <1>1, <2>1
    <3>2. QED
      BY <1>4, <3>1, Zenon DEF Chain, m
  <2>2. CASE i = m
    <3>1. s[i] = p[m] /\ s[i + 1] = q[1] /\ m > 0 /\ n > 0
      BY <1>1, <2>2
    <3>2. QED
      BY <1>2, <1>4, <3>1, Zenon DEF Joined, LastOf, FirstOf, m
  <2>3. CASE i > m
    <3>1. i - m \in 1..(n - 1) /\ s[i] = q[i - m] /\ s[i + 1] = q[i - m + 1]
      <4>1. i - m \in 1..(n - 1)
        BY <1>1, <2>3
      <4>2. i - m \in 1..n /\ i - m + 1 \in 1..n /\ m + (i - m) = i /\ m + (i - m + 1) = i + 1
        BY <1>1, <2>3, <4>1
      <4>3. s[m + (i - m)] = q[i - m] /\ s[m + (i - m + 1)] = q[i - m + 1]
        BY <1>1, <4>2, Zenon
      <4>4. QED
        BY <4>1, <4>2, <4>3
    <3>2. QED
      BY <1>4, <3>1, Zenon DEF Chain, n
  <2>4. QED
    BY <1>1, <2>1, <2>2, <2>3
<1>5. ASSUME OfTurn(p, t), OfTurn(q, t) PROVE OfTurn(s, t)
  <2> SUFFICES ASSUME NEW i \in 1..Len(s) PROVE s[i].turn = t
    BY <1>1, Zenon DEF OfTurn
  <2>1. CASE i <= m
    BY <1>1, <1>5, <2>1 DEF OfTurn
  <2>2. CASE i > m
    <3>1. i - m \in 1..n /\ m + (i - m) = i
      BY <1>1, <2>2
    <3>2. s[i] = q[i - m]
      <4>1. s[m + (i - m)] = q[i - m]
        BY <1>1, <3>1, Zenon
      <4>2. QED
        BY <3>1, <4>1
    <3>3. QED
      BY <1>1, <1>5, <3>1, <3>2, Zenon DEF OfTurn
  <2>3. QED
    BY <1>1, <2>1, <2>2
<1>6. q # <<>> => s # <<>> /\ LastOf(s) = LastOf(q)
  <2>1. ASSUME n > 0 PROVE s # <<>> /\ s[Len(s)] = q[n]
    BY <1>1, <1>2, <2>1
  <2>2. QED
    BY <1>2, <2>1, Zenon DEF LastOf, n
<1>7. p # <<>> => s # <<>> /\ FirstOf(s) = FirstOf(p)
  <2>1. ASSUME m > 0 PROVE s # <<>> /\ s[1] = p[1]
    BY <1>1, <1>2, <2>1
  <2>2. QED
    BY <1>2, <2>1, Zenon DEF FirstOf
<1>8. QED
  BY <1>1, <1>3, <1>4, <1>5, <1>6, <1>7, Zenon DEF s

\* A run in order cut in two.
LEMMA SplitChain ==
  ASSUME NEW X, NEW q \in Seq(X), NEW n \in 1..Len(q), NEW t
  PROVE  LET a == SubSeq(q, 1, n)
             c == SubSeq(q, n + 1, Len(q))
         IN  /\ a \in Seq(X) /\ c \in Seq(X) /\ a # <<>> /\ FirstOf(a) = FirstOf(q)
             /\ Chain(q) => Chain(a) /\ Chain(c) /\ Joined(a, c)
             /\ OfTurn(q, t) => OfTurn(a, t) /\ OfTurn(c, t)
             /\ c # <<>> => n < Len(q) /\ LastOf(c) = LastOf(q) /\ FirstOf(c) = q[n + 1].u
             /\ c = <<>> => n = Len(q) /\ a = q /\ LastOf(a) = LastOf(q)
<1> DEFINE a == SubSeq(q, 1, n)
           c == SubSeq(q, n + 1, Len(q))
           l == Len(q)
<1>1. /\ l \in Nat /\ n \in Nat /\ n > 0 /\ n <= l /\ DOMAIN q = 1..l
      /\ a \in Seq(X) /\ c \in Seq(X) /\ Len(a) = n /\ Len(c) = l - n
      /\ \A i \in 1..n : a[i] = q[i]
      /\ \A i \in 1..(l - n) : c[i] = q[n + i]
      /\ DOMAIN a = 1..n /\ DOMAIN c = 1..(l - n)
  OBVIOUS
<1>2. a # <<>> /\ (c # <<>> <=> l - n > 0)
  <2>1. (a # <<>> <=> Len(a) > 0) /\ (c # <<>> <=> Len(c) > 0)
    BY <1>1, NonEmpty, Zenon
  <2>2. QED
    BY <1>1, <2>1
<1>3. n = l => a = q
  BY <1>1
<1> HIDE DEF a, c, l
<1>4. FirstOf(a) = FirstOf(q)
  BY <1>1 DEF FirstOf
<1>5. ASSUME Chain(q) PROVE Chain(a) /\ Chain(c) /\ Joined(a, c)
  <2>0. \A i \in 1..(l - 1) : Follows(q[i].u, q[i + 1].u)
    BY <1>5, Zenon DEF Chain, l
  <2>1. Chain(a)
    <3> SUFFICES ASSUME NEW i \in 1..(n - 1) PROVE Follows(a[i].u, a[i + 1].u)
      BY <1>1, Zenon DEF Chain
    <3>1. i \in 1..(l - 1) /\ a[i] = q[i] /\ a[i + 1] = q[i + 1]
      BY <1>1
    <3>2. QED
      BY <2>0, <3>1, Zenon
  <2>2. Chain(c)
    <3> SUFFICES ASSUME NEW i \in 1..(l - n - 1) PROVE Follows(c[i].u, c[i + 1].u)
      BY <1>1, Zenon DEF Chain
    <3>1. n + i \in 1..(l - 1) /\ c[i] = q[n + i] /\ c[i + 1] = q[n + i + 1]
      BY <1>1
    <3>2. QED
      BY <2>0, <3>1, Zenon
  <2>3. Joined(a, c)
    <3> SUFFICES ASSUME c # <<>> PROVE Follows(LastOf(a), FirstOf(c))
      BY Zenon DEF Joined
    <3>1. n \in 1..(l - 1) /\ a[n] = q[n] /\ c[1] = q[n + 1]
      BY <1>1, <1>2
    <3>2. LastOf(a) = q[n].u /\ FirstOf(c) = q[n + 1].u
      BY <1>1, <3>1, Zenon DEF LastOf, FirstOf
    <3>3. QED
      BY <2>0, <3>1, <3>2, Zenon
  <2>4. QED
    BY <2>1, <2>2, <2>3, Zenon
<1>6. ASSUME OfTurn(q, t) PROVE OfTurn(a, t) /\ OfTurn(c, t)
  <2>1. \A i \in 1..l : q[i].turn = t
    BY <1>1, <1>6, Zenon DEF OfTurn
  <2>2. \A i \in 1..n : a[i].turn = t
    BY <1>1, <2>1
  <2>3. \A i \in 1..(l - n) : c[i].turn = t
    <3> SUFFICES ASSUME NEW i \in 1..(l - n) PROVE c[i].turn = t
      OBVIOUS
    <3>1. n + i \in 1..l /\ c[i] = q[n + i]
      BY <1>1
    <3>2. QED
      BY <2>1, <3>1, Zenon
  <2>4. QED
    BY <1>1, <2>2, <2>3, Zenon DEF OfTurn
<1>7. c # <<>> => n < l /\ LastOf(c) = LastOf(q) /\ FirstOf(c) = q[n + 1].u
  BY <1>1, <1>2 DEF LastOf, FirstOf, l
<1>8. c = <<>> => n = l /\ a = q /\ LastOf(a) = LastOf(q)
  <2>1. c = <<>> => n = l
    BY <1>1, <1>2
  <2>2. QED
    BY <1>3, <2>1, Zenon
<1>9. QED
  BY <1>1, <1>2, <1>4, <1>5, <1>6, <1>7, <1>8, Zenon DEF a, c, l

\* A run in order without its first unit.
LEMMA TailChain ==
  ASSUME NEW X, NEW q \in Seq(X), q # <<>>, NEW t
  PROVE  /\ Chain(q) => Chain(Tail(q)) /\ (Tail(q) # <<>> => Follows(FirstOf(q), FirstOf(Tail(q))))
         /\ OfTurn(q, t) => OfTurn(Tail(q), t) /\ q[1].turn = t
         /\ Tail(q) # <<>> => LastOf(Tail(q)) = LastOf(q)
         /\ Tail(q) = <<>> => LastOf(q) = FirstOf(q)
         /\ Chain(q) /\ FirstOf(q) \in Final => Tail(q) = <<>>
<1> DEFINE c == Tail(q)
           l == Len(q)
<1>1. /\ l \in Nat /\ l > 0 /\ DOMAIN q = 1..l /\ c \in Seq(X) /\ Len(c) = l - 1
      /\ \A i \in 1..(l - 1) : c[i] = q[i + 1]
      /\ DOMAIN c = 1..(l - 1)
  <2>1. l > 0
    BY NonEmpty, Zenon
  <2>2. QED
    BY <2>1
<1>2. c # <<>> <=> l - 1 > 0
  <2>1. c # <<>> <=> Len(c) > 0
    BY <1>1, NonEmpty, Zenon
  <2>2. QED
    BY <1>1, <2>1
<1> HIDE DEF c, l
<1>3. ASSUME Chain(q) PROVE Chain(c) /\ (c # <<>> => Follows(FirstOf(q), FirstOf(c)))
  <2>0. \A i \in 1..(l - 1) : Follows(q[i].u, q[i + 1].u)
    BY <1>3, Zenon DEF Chain, l
  <2>1. Chain(c)
    <3> SUFFICES ASSUME NEW i \in 1..(l - 1 - 1) PROVE Follows(c[i].u, c[i + 1].u)
      BY <1>1, Zenon DEF Chain
    <3>1. i + 1 \in 1..(l - 1) /\ c[i] = q[i + 1] /\ c[i + 1] = q[i + 1 + 1]
      BY <1>1
    <3>2. QED
      BY <2>0, <3>1, Zenon
  <2>2. ASSUME c # <<>> PROVE Follows(FirstOf(q), FirstOf(c))
    <3>1. 1 \in 1..(l - 1) /\ c[1] = q[1 + 1]
      BY <1>1, <1>2, <2>2
    <3>2. QED
      BY <2>0, <3>1, Zenon DEF FirstOf
  <2>3. QED
    BY <2>1, <2>2, Zenon
<1>4. ASSUME OfTurn(q, t) PROVE OfTurn(c, t) /\ q[1].turn = t
  BY <1>1, <1>4 DEF OfTurn
<1>5. c # <<>> => LastOf(c) = LastOf(q)
  BY <1>1, <1>2 DEF LastOf, l
<1>6. c = <<>> => LastOf(q) = FirstOf(q)
  BY <1>1, <1>2 DEF LastOf, FirstOf, l
<1>7. Chain(q) /\ FirstOf(q) \in Final => c = <<>>
  BY <1>3, FollowsFacts, Zenon
<1>8. QED
  BY <1>3, <1>4, <1>5, <1>6, <1>7, Zenon DEF c

\* x can follow what the client has, r, when u2c has b2 left and w is on the wire.
Fits(r, x, b2, w, t) ==
  /\ x # <<>> /\ Chain(x) /\ OfTurn(x, t) /\ Chain(b2) /\ OfTurn(b2, t)
  /\ r = <<>> => Begins(x)
  /\ Joined(r, x) /\ Joined(x, b2) /\ Joined(b2, w)
  /\ b2 = <<>> => Joined(x, w)

\* The client has got x behind r.
Written(r, x, b2, w, t) == Pieces(r \o x, b2, w, t) /\ r \o x # <<>> /\ LastOf(r \o x) = LastOf(x)

\* The client gets more of the response, u2c has b2 of it left, and nothing is lost between.
LEMMA PiecesWrite ==
  ASSUME NEW X, NEW r \in Seq(X), NEW b, NEW w, NEW t, NEW x \in Seq(X), NEW b2,
         Pieces(r, b, w, t), Fits(r, x, b2, w, t)
  PROVE  Written(r, x, b2, w, t)
<1>1. /\ Chain(r \o x) /\ OfTurn(r \o x, t) /\ r \o x # <<>> /\ LastOf(r \o x) = LastOf(x)
      /\ (r # <<>> => FirstOf(r \o x) = FirstOf(r)) /\ (r = <<>> => r \o x = x)
  BY ConcatChain, Zenon DEF Pieces, Fits
<1> DEFINE s == r \o x
<1> HIDE DEF s
<1>2. /\ Chain(s) /\ OfTurn(s, t) /\ s # <<>> /\ LastOf(s) = LastOf(x)
      /\ (r # <<>> => FirstOf(s) = FirstOf(r)) /\ (r = <<>> => s = x)
  BY <1>1, Zenon DEF s
<1>3. Begins(s)
  BY <1>2, Zenon DEF Begins, Pieces, Fits
<1>4. Joined(s, b2) /\ (b2 = <<>> => Joined(s, w))
  BY <1>2, Zenon DEF Joined, Fits
<1>5. Pieces(s, b2, w, t)
  BY <1>2, <1>3, <1>4, Zenon DEF Pieces, Fits
<1>6. QED
  BY <1>2, <1>5, Zenon DEF s, Written

\* u2c reads the first n units on the wire.
LEMMA PiecesRead ==
  ASSUME NEW X, NEW Y, NEW r \in Seq(X), NEW w \in Seq(Y), NEW t, NEW n \in 1..Len(w), Pieces(r, <<>>, w, t)
  PROVE  LET a == SubSeq(w, 1, n)
             c == SubSeq(w, n + 1, Len(w))
         IN  /\ Pieces(r, a, c, t) /\ a # <<>>
             /\ c = <<>> => LastOf(a) \in Final
             /\ LastOf(a) = "S" => c # <<>> /\ n < Len(w) /\ w[n + 1].u = "Z"
<1> DEFINE a == SubSeq(w, 1, n)
           c == SubSeq(w, n + 1, Len(w))
<1>1. /\ a \in Seq(Y) /\ c \in Seq(Y) /\ a # <<>> /\ FirstOf(a) = FirstOf(w)
      /\ Chain(a) /\ Chain(c) /\ Joined(a, c) /\ OfTurn(a, t) /\ OfTurn(c, t)
      /\ (c # <<>> => n < Len(w) /\ LastOf(c) = LastOf(w) /\ FirstOf(c) = w[n + 1].u)
      /\ (c = <<>> => LastOf(a) = LastOf(w))
  BY SplitChain, Zenon DEF Pieces
<1>2. w # <<>>
  <2>1. Len(w) \in Nat /\ Len(w) > 0
    OBVIOUS
  <2>2. QED
    BY <2>1, NonEmpty, Zenon
<1> HIDE DEF a, c
<1>3. Joined(r, a)
  BY <1>1, <1>2, Zenon DEF Joined, Pieces
<1>4. r = <<>> => Begins(a)
  BY <1>1, <1>2, Zenon DEF Begins, Pieces
<1>5. Pieces(r, a, c, t)
  BY <1>1, <1>2, <1>3, <1>4, Zenon DEF Pieces
<1>6. c = <<>> => LastOf(a) \in Final
  BY <1>1, <1>2, Zenon DEF Pieces
<1>7. LastOf(a) = "S" => c # <<>> /\ n < Len(w) /\ w[n + 1].u = "Z"
  <2>1. ASSUME LastOf(a) = "S" PROVE c # <<>>
    BY <1>6, <2>1 DEF Final
  <2>2. ASSUME LastOf(a) = "S" PROVE FirstOf(c) = "Z"
    BY <1>1, <2>1, <2>2, FollowsFacts, Zenon DEF Joined
  <2>3. QED
    BY <1>1, <2>1, <2>2, Zenon
<1>8. QED
  BY <1>1, <1>5, <1>6, <1>7, Zenon DEF a, c

\* Nothing comes after the end of a response.
LEMMA PiecesEnded ==
  ASSUME NEW r, NEW b, NEW w, NEW t, Pieces(r, b, w, t), r # <<>>, LastOf(r) \in Final
  PROVE  b = <<>> /\ w = <<>>
<1>1. b = <<>>
  BY FollowsFacts, Zenon DEF Pieces, Joined
<1>2. QED
  BY <1>1, FollowsFacts, Zenon DEF Pieces, Joined

\* The client has the whole response when the last it got is the end of one.
LEMMA CompleteLast ==
  ASSUME NEW a \in Nat, rx \in Seq(SeenTo(a)), Chain(rx), Begins(rx), OfTurn(rx, turn)
  PROVE  Complete <=> rx # <<>> /\ LastOf(rx) \in Final
<1> DEFINE l == Len(rx)
<1>1. l \in Nat /\ DOMAIN rx = 1..l /\ (rx # <<>> <=> l > 0)
  <2>1. rx # <<>> <=> l > 0
    BY NonEmpty, Zenon
  <2>2. QED
    BY <2>1
<1>2. \A i \in 1..(l - 1) : Follows(rx[i].u, rx[i + 1].u)
  BY Zenon DEF Chain
<1> HIDE DEF l
<1>3. ASSUME Complete PROVE rx # <<>> /\ LastOf(rx) \in Final
  <2>1. PICK i \in 1..l, j \in 1..l : i < j /\ <<rx[i].u, rx[j].u>> \in {<<"H", "Z">>, <<"J", "B">>}
    BY <1>1, <1>3, Zenon DEF Complete
  <2>2. rx[j].u \in Final
    BY <2>1 DEF Final
  <2>3. ~(j \in 1..(l - 1))
    BY <1>2, <2>2, FollowsFacts, Zenon
  <2>4. j = l /\ l > 0
    BY <1>1, <2>1, <2>3
  <2>5. QED
    BY <1>1, <2>2, <2>4, Zenon DEF LastOf, l
<1>4. ASSUME rx # <<>>, LastOf(rx) \in Final PROVE Complete
  <2>1. l > 0 /\ rx[l].u \in {"Z", "B"} /\ rx[1].u \in {"H", "J"}
    BY <1>1, <1>4, Zenon DEF LastOf, l, Final, Begins, FirstOf
  <2>2. l > 1
    BY <1>1, <2>1
  <2>3. 1 \in 1..l /\ l \in 1..l /\ 1 < l /\ rx[1].turn = turn
    BY <1>1, <2>2 DEF OfTurn
  <2>4. l > 1 /\ 1 \in 1..(l - 1) /\ l - 1 \in 1..(l - 1) /\ Follows(rx[1].u, rx[2].u) /\ Follows(rx[l - 1].u, rx[l].u)
    <3>1. 1 \in 1..(l - 1) /\ l - 1 \in 1..(l - 1) /\ 1 + 1 = 2 /\ l - 1 + 1 = l
      BY <1>1, <2>2
    <3>2. QED
      BY <1>2, <2>2, <3>1
  <2>5. ASSUME rx[l].u = "B" PROVE rx[1].u = "J"
    <3>1. rx[l - 1].u = "J"
      BY <2>4, <2>5, FollowsFacts, Zenon
    <3>2. ASSUME l - 1 > 1 PROVE FALSE
      <4>1. l - 2 \in 1..(l - 1) /\ (l - 2) + 1 = l - 1
        BY <1>1, <3>2
      <4>2. Follows(rx[l - 2].u, rx[l - 1].u)
        BY <1>2, <4>1
      <4>3. QED
        BY <3>1, <4>2, FollowsFacts
    <3>3. l - 1 = 1
      BY <1>1, <2>4, <3>2
    <3>4. QED
      BY <3>1, <3>3
  <2>6. ASSUME rx[l].u = "Z" PROVE rx[1].u = "H"
    <3>1. SUFFICES ASSUME rx[1].u = "J" PROVE FALSE
      BY <2>1
    <3>2. rx[2].u = "B"
      BY <2>4, <3>1, FollowsFacts, Zenon
    <3>3. ASSUME l > 2 PROVE FALSE
      <4>1. 2 \in 1..(l - 1)
        BY <1>1, <3>3
      <4>2. Follows(rx[2].u, rx[2 + 1].u)
        BY <1>2, <4>1, Zenon
      <4>3. QED
        BY <3>2, <4>2 DEF Follows
    <3>4. l = 2
      BY <1>1, <2>2, <3>3
    <3>5. QED
      BY <2>6, <3>2, <3>4
  <2>7. <<rx[1].u, rx[l].u>> \in {<<"H", "Z">>, <<"J", "B">>}
    BY <2>1, <2>5, <2>6
  <2>8. QED
    BY <1>1, <2>3, <2>7, Zenon DEF Complete
<1>5. QED
  BY <1>3, <1>4, Zenon

\* What is forwarded as it is keeps its order.
LEMMA RawChain ==
  ASSUME NEW a \in Nat, NEW units \in Seq(UnitTo(a)), NEW t
  PROVE  /\ Chain(units) => Chain(Raw(units))
         /\ OfTurn(units, t) => OfTurn(Raw(units), t)
         /\ Raw(units) # <<>> <=> units # <<>>
         /\ units # <<>> => FirstOf(Raw(units)) = FirstOf(units) /\ LastOf(Raw(units)) = LastOf(units)
<1> DEFINE q == Raw(units)
           l == Len(units)
<1>1. /\ q \in Seq(SeenTo(a)) /\ Len(q) = l
      /\ \A i \in 1..l : q[i].u = units[i].u /\ q[i].turn = units[i].turn
  BY RawFacts, Zenon
<1>2. l \in Nat /\ DOMAIN units = 1..l /\ DOMAIN q = 1..Len(q)
  BY <1>1
<1>3. (q # <<>> <=> Len(q) > 0) /\ (units # <<>> <=> l > 0)
  BY <1>1, NonEmpty, Zenon
<1> HIDE DEF q, l
<1>4. Chain(units) => Chain(q)
  <2> SUFFICES ASSUME Chain(units), NEW i \in 1..(l - 1) PROVE Follows(q[i].u, q[i + 1].u)
    BY <1>1, Zenon DEF Chain
  <2>1. i \in 1..l /\ i + 1 \in 1..l
    BY <1>2
  <2>2. Follows(units[i].u, units[i + 1].u)
    BY Zenon DEF Chain, l
  <2>3. q[i].u = units[i].u /\ q[i + 1].u = units[i + 1].u
    BY <1>1, <2>1, Zenon
  <2>4. QED
    BY <2>2, <2>3
<1>5. OfTurn(units, t) => OfTurn(q, t)
  BY <1>1, <1>2 DEF OfTurn
<1>6. units # <<>> => FirstOf(q) = FirstOf(units) /\ LastOf(q) = LastOf(units)
  <2>1. ASSUME l > 0 PROVE q[1].u = units[1].u /\ q[Len(q)].u = units[l].u
    BY <1>1, <1>2, <2>1
  <2>2. QED
    BY <1>3, <2>1, Zenon DEF FirstOf, LastOf, l
<1>7. QED
  BY <1>1, <1>3, <1>4, <1>5, <1>6, Zenon DEF q

\* Text from the replacement buffer is a run in order.
LEMMA ReversedChain ==
  ASSUME NEW a \in Nat, NEW texts \in Seq(1..a), resp.key \in Keys \cup {None}, NEW t
  PROVE  /\ Reversed(texts) \in Seq(SeenTo(a)) /\ Chain(Reversed(texts))
         /\ (\A i \in DOMAIN texts : texts[i] = t) => OfTurn(Reversed(texts), t)
         /\ Reversed(texts) # <<>> <=> texts # <<>>
         /\ texts # <<>> => FirstOf(Reversed(texts)) = "D" /\ LastOf(Reversed(texts)) = "D"
<1> DEFINE q == Reversed(texts)
           l == Len(texts)
<1>1. /\ q \in Seq(SeenTo(a)) /\ Len(q) = l
      /\ \A i \in 1..l : q[i].u = "D" /\ q[i].turn = texts[i]
  BY ReversedFacts, Zenon
<1>2. l \in Nat /\ DOMAIN texts = 1..l /\ DOMAIN q = 1..Len(q)
  BY <1>1
<1>3. (q # <<>> <=> Len(q) > 0) /\ (texts # <<>> <=> l > 0)
  BY <1>1, NonEmpty, Zenon
<1> HIDE DEF q, l
<1>4. Chain(q)
  <2> SUFFICES ASSUME NEW i \in 1..(l - 1) PROVE Follows(q[i].u, q[i + 1].u)
    BY <1>1, Zenon DEF Chain
  <2>1. i \in 1..l /\ i + 1 \in 1..l
    BY <1>2
  <2>2. q[i].u = "D" /\ q[i + 1].u = "D"
    BY <1>1, <2>1, Zenon
  <2>3. QED
    BY <2>2 DEF Follows
<1>5. (\A i \in DOMAIN texts : texts[i] = t) => OfTurn(q, t)
  BY <1>1, <1>2 DEF OfTurn
<1>6. texts # <<>> => FirstOf(q) = "D" /\ LastOf(q) = "D"
  <2>1. ASSUME l > 0 PROVE q[1].u = "D" /\ q[Len(q)].u = "D"
    BY <1>1, <1>2, <2>1
  <2>2. QED
    BY <1>3, <2>1, Zenon DEF FirstOf, LastOf
<1>7. QED
  BY <1>1, <1>3, <1>4, <1>5, <1>6, Zenon DEF q

\* A single unit.
LEMMA OneChain ==
  ASSUME NEW x, NEW t
  PROVE  /\ Chain(<<x>>) /\ <<x>> # <<>> /\ FirstOf(<<x>>) = x.u /\ LastOf(<<x>>) = x.u
         /\ x.turn = t => OfTurn(<<x>>, t)
<1>1. Len(<<x>>) = 1 /\ <<x>>[1] = x /\ DOMAIN <<x>> = 1..1 /\ <<x>> # <<>>
  OBVIOUS
<1>2. Chain(<<x>>)
  BY <1>1 DEF Chain
<1>3. FirstOf(<<x>>) = x.u /\ LastOf(<<x>>) = x.u
  BY <1>1 DEF FirstOf, LastOf
<1>4. x.turn = t => OfTurn(<<x>>, t)
  BY <1>1 DEF OfTurn
<1>5. QED
  BY <1>1, <1>2, <1>3, <1>4, Zenon

\* What the upstream answers, unless it is Google.
LEMMA ResponseChain ==
  ASSUME NEW t \in Nat, t > 0, NEW r \in Responses(t), Provider # "google"
  PROVE  Chain(r) /\ OfTurn(r, t) /\ Begins(r) /\ r # <<>> /\ LastOf(r) \in Final
<1>1. \A k \in Kinds : U(k, t) \in UnitTo(t) /\ U(k, t).u = k /\ U(k, t).turn = t
  BY DEF U, UnitTo
<1>2. /\ \A k \in {"H", "D", "S", "Z", "J", "B"} : U(k, t) \in UnitTo(t) /\ U(k, t).u = k /\ U(k, t).turn = t
  BY <1>1, Zenon DEF Kinds
<1> HIDE DEF U
<1>3. ASSUME r = <<U("J", t), U("B", t)>> PROVE Chain(r) /\ OfTurn(r, t) /\ Begins(r) /\ r # <<>> /\ LastOf(r) \in Final
  <2>1. Len(r) = 2 /\ r[1] = U("J", t) /\ r[2] = U("B", t) /\ DOMAIN r = 1..2 /\ r # <<>>
    BY <1>3
  <2>2. r[1].u = "J" /\ r[2].u = "B" /\ r[1].turn = t /\ r[2].turn = t
    BY <1>2, <2>1
  <2>3. Chain(r)
    BY <2>1, <2>2 DEF Chain, Follows
  <2>4. OfTurn(r, t)
    BY <2>1, <2>2 DEF OfTurn
  <2>5. QED
    BY <2>1, <2>2, <2>3, <2>4 DEF Begins, FirstOf, LastOf, Final
<1>4. ASSUME NEW n \in 0..MaxDeltas,
             r = <<U("H", t)>> \o [i \in 1..n |-> U("D", t)] \o <<U("S", t), U("Z", t)>>
      PROVE  Chain(r) /\ OfTurn(r, t) /\ Begins(r) /\ r # <<>> /\ LastOf(r) \in Final
  <2> DEFINE h == <<U("H", t)>>
             d == [i \in 1..n |-> U("D", t)]
             e == <<U("S", t), U("Z", t)>>
  <2>1. d \in Seq(UnitTo(t)) /\ Len(d) = n /\ n \in Nat /\ DOMAIN d = 1..n /\ \A i \in 1..n : d[i].u = "D" /\ d[i].turn = t
    <3>1. n \in Nat /\ d \in [1..n -> UnitTo(t)]
      BY <1>2, BoundAssumption
    <3>2. d \in Seq(UnitTo(t))
      BY <3>1, SeqDef, SMTT(60)
    <3>3. \A i \in 1..n : d[i] = U("D", t)
      OBVIOUS
    <3>4. QED
      BY <1>2, <3>1, <3>2, <3>3
  <2>2. /\ e \in Seq(UnitTo(t)) /\ Len(e) = 2 /\ DOMAIN e = 1..2 /\ e[1].u = "S" /\ e[2].u = "Z"
        /\ e[1].turn = t /\ e[2].turn = t /\ e # <<>>
    BY <1>2
  <2>3. h \in Seq(UnitTo(t)) /\ U("H", t).u = "H" /\ U("H", t).turn = t
    BY <1>2
  <2>4. Chain(h) /\ OfTurn(h, t) /\ h # <<>> /\ FirstOf(h) = "H" /\ LastOf(h) = "H"
    BY <2>3, OneChain, Zenon
  <2> HIDE DEF h, d, e
  <2>5. Chain(d) /\ OfTurn(d, t) /\ (d # <<>> => FirstOf(d) = "D" /\ LastOf(d) = "D")
    <3>1. Chain(d)
      BY <2>1 DEF Chain, Follows
    <3>2. OfTurn(d, t)
      BY <2>1 DEF OfTurn
    <3>3. d # <<>> <=> n > 0
      BY <2>1, NonEmpty, Zenon
    <3>4. QED
      BY <2>1, <3>1, <3>2, <3>3 DEF FirstOf, LastOf
  <2>6. Chain(e) /\ OfTurn(e, t) /\ FirstOf(e) = "S" /\ LastOf(e) = "Z"
    <3>1. Chain(e)
      BY <2>2 DEF Chain, Follows
    <3>2. OfTurn(e, t)
      BY <2>2 DEF OfTurn
    <3>3. QED
      BY <2>2, <3>1, <3>2 DEF FirstOf, LastOf
  <2>7. Joined(h, d) /\ (d = <<>> => Joined(h, e)) /\ Joined(d, e)
    BY <2>4, <2>5, <2>6 DEF Joined, Follows
  <2> DEFINE hd == h \o d
  <2>a. /\ hd \in Seq(UnitTo(t)) /\ (Chain(h) /\ Chain(d) /\ Joined(h, d) => Chain(hd))
        /\ (OfTurn(h, t) /\ OfTurn(d, t) => OfTurn(hd, t))
        /\ (d # <<>> => LastOf(hd) = LastOf(d)) /\ (h # <<>> => hd # <<>> /\ FirstOf(hd) = FirstOf(h)) /\ (d = <<>> => hd = h)
    <3>1. h \in Seq(UnitTo(t)) /\ d \in Seq(UnitTo(t))
      BY <2>1, <2>3
    <3>2. QED
      BY <3>1, ConcatChain, Zenon
  <2> HIDE DEF hd
  <2>8. /\ hd \in Seq(UnitTo(t)) /\ Chain(hd) /\ OfTurn(hd, t) /\ hd # <<>> /\ FirstOf(hd) = "H"
        /\ (d # <<>> => LastOf(hd) = LastOf(d)) /\ (d = <<>> => hd = h)
    BY <2>4, <2>5, <2>7, <2>a, Zenon
  <2>9. LastOf(hd) \in {"H", "D"}
    BY <2>4, <2>5, <2>8
  <2>10. Joined(hd, e)
    BY <2>6, <2>9 DEF Joined, Follows
  <2> DEFINE re == hd \o e
  <2>11. /\ (Chain(hd) /\ Chain(e) /\ Joined(hd, e) => Chain(re)) /\ (OfTurn(hd, t) /\ OfTurn(e, t) => OfTurn(re, t))
         /\ (e # <<>> => re # <<>> /\ LastOf(re) = LastOf(e)) /\ (hd # <<>> => FirstOf(re) = FirstOf(hd))
    <3>1. hd \in Seq(UnitTo(t)) /\ e \in Seq(UnitTo(t))
      BY <2>2, <2>8
    <3>2. QED
      BY <3>1, ConcatChain, Zenon
  <2>12. r = hd \o e
    BY <1>4, Zenon DEF h, d, e, hd
  <2> HIDE DEF re
  <2>13. r = re /\ Chain(re) /\ OfTurn(re, t) /\ re # <<>> /\ FirstOf(re) = "H" /\ LastOf(re) = "Z"
    <3>1. r = re
      BY <2>12, Zenon DEF re
    <3>2. QED
      BY <2>2, <2>6, <2>8, <2>10, <2>11, <3>1, Zenon
  <2>14. "H" \in {"H", "J"} /\ "Z" \in Final
    BY DEF Final
  <2>15. QED
    BY <2>13, <2>14, Zenon DEF Begins
<1>5. QED
  BY <1>3, <1>4, Zenon DEF Responses
-----------------------------------------------------------------------------
(* The flow of a response *)

\* Where the flow is the one of a well-formed HTTP response: not Google's, and, when responses
\* may be rewritten, Anthropic's, whose last chunk comes in the read of its sentinel.
Scope == /\ Provider # "google"
         /\ "replace" \in Modes => Provider = "anthropic" /\ ~SplitTerminator

\* The types of the streams, as the proofs below use them.
LEMMA StreamTypes ==
  ASSUME TypeInv
  PROVE  /\ rx \in Seq(SeenTo(answered)) /\ wire \in Seq(UnitTo(answered)) /\ batch \in Seq(UnitTo(answered))
         /\ held \in Seq(1..answered) /\ acc \in Seq(1..answered) /\ resp \in RespTo(answered) /\ answered \in Nat
         /\ turn \in Nat /\ resp.key \in Keys \cup {None} /\ resp.sse \in BOOLEAN /\ exiting \in BOOLEAN
<1>1. ClientTypes /\ U2cTypes /\ Heard
  BY Zenon DEF TypeInv
<1>2. resp.key \in Keys \cup {None} /\ resp.sse \in BOOLEAN
  BY <1>1 DEF Heard, RespTo
<1>3. answered \in Nat /\ turn \in Nat
  BY <1>1, BoundAssumption DEF ClientTypes
<1>4. QED
  BY <1>1, <1>2, <1>3, Zenon DEF Heard, U2cTypes

\* Steps that leave the flow alone.
LEMMA FlowSame ==
  ASSUME FlowInv, UNCHANGED <<mode, turn, rx, batch, wire, answered, resp, held, upc, exiting>>, up' => up
  PROVE  FlowInv'
<1>1. Flow'
  BY DEF FlowInv, Flow
<1>2. Middle'
  BY DEF FlowInv, Middle, Rewriting, Replace, Closing, InTail
<1>3. Whole'
  BY DEF FlowInv, Whole, Rewriting, Replace, Closing
<1>4. QED
  BY <1>1, <1>2, <1>3, Zenon DEF FlowInv

\* Nothing of a response is left when the next request begins.
LEMMA BeginsClean ==
  ASSUME TypeInv, FlowInv, NEW c \in Convs \cup {None}, NEW bare \in BOOLEAN, BeginRequest(c, bare)
  PROVE  /\ batch = <<>> /\ wire = <<>> /\ (rx = <<>> \/ LastOf(rx) \in Final)
         /\ ~(Rewriting /\ (upc \in {"read", "body"} \/ InTail))
<1>0. Middle /\ Pieces(rx, batch, wire, turn) /\ Parts
  BY Zenon DEF FlowInv, Flow, TypeInv
<1>a. /\ rx \in Seq(SeenTo(answered)) /\ wire \in Seq(UnitTo(answered)) /\ batch \in Seq(UnitTo(answered))
      /\ answered \in Nat /\ turn \in Nat
  BY StreamTypes, Zenon
<1>1. answered <= turn
  BY <1>0, <1>a DEF Parts
<1>2. turn = 0 => rx = <<>> /\ batch = <<>> /\ wire = <<>>
  <2> SUFFICES ASSUME turn = 0 PROVE rx = <<>> /\ batch = <<>> /\ wire = <<>>
    OBVIOUS
  <2>1. answered = 0
    BY <1>1, <1>a
  <2>2. SeenTo(0) = {} /\ UnitTo(0) = {}
    BY DEF SeenTo, UnitTo
  <2>3. rx \in Seq({}) /\ wire \in Seq({}) /\ batch \in Seq({})
    BY <1>a, <2>1, <2>2
  <2>4. QED
    BY <2>3
<1>3. Complete => rx # <<>> /\ LastOf(rx) \in Final
  BY <1>0, <1>a, CompleteLast, Zenon DEF Pieces
<1>4. batch = <<>> /\ wire = <<>> /\ (rx = <<>> \/ LastOf(rx) \in Final)
  BY <1>0, <1>2, <1>3, PiecesEnded, Zenon DEF BeginRequest
<1>5. ~(LastOf(rx) \in Final) \/ LastOf(rx) \notin {"H", "D", "S"}
  BY DEF Final
<1>6. ~(Rewriting /\ (upc \in {"read", "body"} \/ InTail))
  BY <1>0, <1>4, <1>5 DEF Middle, InTail, Closing
<1>7. QED
  BY <1>4, <1>6, Zenon

\* A new request: the response before it has ended, and nothing of it is left anywhere.
LEMMA FlowBegins ==
  ASSUME TypeInv, FlowInv, NEW c \in Convs \cup {None}, NEW bare \in BOOLEAN, BeginRequest(c, bare)
  PROVE  FlowInv'
<1>0. Flow /\ Middle /\ Whole /\ Pieces(rx, batch, wire, turn)
  BY Zenon DEF FlowInv, Flow
<1>a. /\ rx \in Seq(SeenTo(answered)) /\ wire \in Seq(UnitTo(answered)) /\ batch \in Seq(UnitTo(answered))
      /\ answered \in Nat /\ turn \in Nat
  BY StreamTypes, Zenon
<1>1. turn' = turn + 1 /\ rx' = <<>> /\ UNCHANGED <<mode, wire, up, answered, upc, batch, resp, held, exiting>>
  BY DEF BeginRequest, u2cVars
<1>2. answered <= turn
  BY <1>a DEF TypeInv, Parts
<1>3. batch = <<>> /\ wire = <<>> /\ ~(Rewriting /\ (upc \in {"read", "body"} \/ InTail))
  BY BeginsClean, Zenon
<1>4. Flow'
  <2>1. Pieces(<<>>, <<>>, <<>>, turn')
    <3>1. Len(<<>>) = 0 /\ DOMAIN <<>> = {}
      OBVIOUS
    <3>2. Chain(<<>>) /\ OfTurn(<<>>, turn')
      BY <3>1 DEF Chain, OfTurn
    <3>3. QED
      BY <3>2, Zenon DEF Pieces, Begins, Joined
  <2>2. rx' = <<>> /\ batch' = <<>> /\ wire' = <<>>
    BY <1>1, <1>3
  <2>3. QED
    BY <2>1, <2>2, Zenon DEF Flow
<1>5. upc # "done" => held = <<>>
  <2>1. upc \in {"read", "body", "parse", "backoff", "done"} \/ InTail
    BY DEF TypeInv, U2cTypes, InTail
  <2>2. QED
    BY <1>0, <1>3, <2>1 DEF Middle, Rewriting
<1>6. Middle'
  <2>1. Rewriting' = Rewriting /\ InTail' = InTail /\ Closing' = Closing /\ Replace' = Replace
    BY <1>1 DEF Rewriting, Replace, InTail, Closing
  <2>2. upc' # "done" => \A i \in DOMAIN held' : held'[i] = turn'
    <3>1. DOMAIN <<>> = {}
      OBVIOUS
    <3>2. QED
      BY <1>1, <1>5, <3>1
  <2>3. ~(Rewriting /\ (upc \in {"read", "body"} \/ (InTail /\ exiting))) /\ ~(Rewriting /\ Closing)
    BY <1>3 DEF InTail, Closing
  <2>4. QED
    BY <1>0, <1>1, <2>1, <2>2, <2>3 DEF Middle
<1>7. Whole'
  BY <1>1, <1>2, <1>a DEF Whole
<1>8. QED
  BY <1>4, <1>6, <1>7, Zenon DEF FlowInv

\* The client and the upstream.
LEMMA FlowEnvironment ==
  ASSUME TypeInv, FlowInv, Environment PROVE FlowInv'
<1>1. ASSUME SendPart \/ ClientClose PROVE FlowInv'
  <2>1. UNCHANGED <<mode, turn, rx, batch, wire, answered, resp, held, upc, exiting>> /\ up' = up
    BY <1>1 DEF SendPart, ClientClose, u2cVars
  <2>2. QED
    BY <2>1, FlowSame, Zenon
<1>2. ASSUME NEW reset \in BOOLEAN, UpstreamClose(reset) PROVE FlowInv'
  <2>1. UNCHANGED <<mode, turn, rx, batch, answered, resp, held, upc, exiting>> /\ ~up' /\ (wire' = wire \/ wire' = <<>>)
    BY <1>2 DEF UpstreamClose, u2cVars, clientVars
  <2>2. CASE wire' = wire
    <3>1. UNCHANGED <<mode, turn, rx, batch, wire, answered, resp, held, upc, exiting>> /\ (up' => up)
      BY <2>1, <2>2
    <3>2. QED
      BY <3>1, FlowSame, Zenon
  <2>3. CASE wire' = <<>>
    <3>1. Chain(<<>>) /\ OfTurn(<<>>, turn)
      <4>1. Len(<<>>) = 0 /\ DOMAIN <<>> = {}
        OBVIOUS
      <4>2. QED
        BY <4>1 DEF Chain, OfTurn
    <3>2. Pieces(rx, batch, <<>>, turn)
      BY <3>1, Zenon DEF FlowInv, Flow, Pieces, Joined, Begins
    <3>3. Flow'
      BY <2>1, <2>3, <3>2 DEF FlowInv, Flow
    <3>4. Middle'
      BY <2>1, <2>3 DEF FlowInv, Middle, Rewriting, Replace, Closing, InTail
    <3>5. Whole'
      BY <2>1 DEF Whole
    <3>6. QED
      BY <3>3, <3>4, <3>5, Zenon DEF FlowInv
  <2>4. QED
    BY <2>1, <2>2, <2>3, Zenon
<1>3. QED
  BY <1>1, <1>2, FlowBegins, Zenon DEF Environment

\* c2u: the answer to a request is the only thing on its way.
LEMMA FlowC2u ==
  ASSUME TypeInv, FlowInv, Scope, C2u PROVE FlowInv'
<1>1. ASSUME ~Forward PROVE FlowInv'
  <2>1. UNCHANGED clientVars /\ UNCHANGED u2cVars /\ UNCHANGED <<rx, wire, up, answered>>
    BY <1>1 DEF C2u, ReadClient, StopReading, PhaseA, Log, FindConversation, ShareVault, CheckGone, ForwardFails
  <2>2. UNCHANGED <<mode, turn, rx, batch, wire, answered, resp, held, upc, exiting>> /\ up' = up
    BY <2>1 DEF u2cVars, clientVars
  <2>3. QED
    BY <2>2, FlowSame, Zenon
<1>2. ASSUME Forward PROVE FlowInv'
  <2>1. UNCHANGED <<mode, turn, rx, batch, resp, held, upc, exiting, up>> /\ cpc = "write"
    BY <1>2 DEF Forward, u2cVars, clientVars
  <2>2. CASE wire' = wire /\ answered' = answered
    <3>1. UNCHANGED <<mode, turn, rx, batch, wire, answered, resp, held, upc, exiting>> /\ up' = up
      BY <2>1, <2>2
    <3>2. QED
      BY <3>1, FlowSame, Zenon
  <2>3. ASSUME NEW r \in Responses(req), wire' = wire \o r, answered' = req PROVE FlowInv'
    <3>1. turn \in Nat /\ req = turn /\ turn > 0 /\ answered = turn - 1
      <4>1. turn \in Nat
        BY StreamTypes, Zenon
      <4>2. QED
        BY <2>1, <4>1 DEF TypeInv, Parts
    <3>2. rx = <<>> /\ batch = <<>> /\ wire = <<>>
      BY <3>1 DEF FlowInv, Flow
    <3>3. r \in Seq(UnitTo(turn))
      BY <3>1, ResponseType, Zenon
    <3>4. wire' = r
      BY <2>3, <3>2, <3>3
    <3>5. Chain(r) /\ OfTurn(r, turn) /\ Begins(r) /\ r # <<>> /\ LastOf(r) \in Final
      BY <3>1, ResponseChain, Zenon DEF Scope
    <3>6. Pieces(rx, batch, r, turn)
      BY <3>2, <3>5, Zenon DEF FlowInv, Flow, Pieces, Joined
    <3>7. Flow'
      BY <2>1, <2>3, <3>1, <3>4, <3>6 DEF Flow
    <3>8. Middle'
      BY <2>1, <3>2 DEF FlowInv, Middle, Rewriting, Replace, Closing, InTail
    <3>9. Whole'
      BY <3>4, <3>5 DEF Whole
    <3>10. QED
      BY <3>7, <3>8, <3>9, Zenon DEF FlowInv
  <2>4. QED
    BY <1>2, <2>2, <2>3 DEF Forward
<1>3. QED
  BY <1>1, <1>2, Zenon

\* What u2c leaves alone, as the flow needs it.
LEMMA OthersSame ==
  ASSUME UNCHANGED Others
  PROVE  UNCHANGED <<mode, turn, answered, up>> /\ (Replace' <=> Replace)
  BY DEF Others, clientVars, Replace

\* A read, the end of the reads, and a failed write.
LEMMA FlowReads ==
  ASSUME TypeInv, FlowInv, Scope, (\E n \in 1..Len(wire) : ReadUpstream(n)) \/ UpstreamLost \/ SeeShutdown \/ WriteFails
  PROVE  FlowInv'
<1>0. Flow /\ Middle /\ Whole /\ Pieces(rx, batch, wire, turn)
  BY Zenon DEF FlowInv, Flow
<1>a. /\ rx \in Seq(SeenTo(answered)) /\ wire \in Seq(UnitTo(answered)) /\ batch \in Seq(UnitTo(answered))
      /\ answered \in Nat /\ turn \in Nat
  BY StreamTypes, Zenon
<1>1. ASSUME NEW n \in 1..Len(wire), ReadUpstream(n) PROVE FlowInv'
  <2>1. /\ UNCHANGED Others /\ UNCHANGED <<rx, resp, held, exiting>> /\ upc = "read"
        /\ batch' = SubSeq(wire, 1, n) /\ wire' = SubSeq(wire, n + 1, Len(wire))
        /\ (Replace /\ ~SplitTerminator /\ n < Len(wire) => wire[n + 1].u # "Z")
    BY <1>1 DEF ReadUpstream
  <2>2. (upc' = "body" /\ resp.header) \/ (upc' = "parse" /\ ~resp.header)
    BY <1>1, Zenon DEF ReadUpstream
  <2>3. UNCHANGED <<mode, turn, answered, up>> /\ (Replace' <=> Replace)
    BY <2>1, OthersSame, Zenon
  <2>4. batch = <<>> /\ ~exiting
    BY <1>0, <2>1 DEF Middle
  <2>5. /\ Pieces(rx, batch', wire', turn) /\ batch' # <<>>
        /\ (wire' = <<>> => LastOf(batch') \in Final)
        /\ (LastOf(batch') = "S" => n < Len(wire) /\ wire[n + 1].u = "Z")
    <3>1. Pieces(rx, <<>>, wire, turn)
      BY <1>0, <2>4, Zenon
    <3>2. QED
      BY <1>a, <2>1, <3>1, PiecesRead, Zenon
  <2>6. Flow'
    <3>1. wire # <<>>
      <4>1. Len(wire) \in Nat /\ Len(wire) > 0
        BY <1>a
      <4>2. QED
        BY <1>a, <4>1, NonEmpty, Zenon
    <3>2. QED
      BY <1>0, <2>1, <2>3, <2>5, <3>1 DEF Flow
  <2>7. Replace => LastOf(batch') # "S"
    <3>1. Replace => ~SplitTerminator
      BY DEF Scope, Replace, TypeInv, ClientTypes
    <3>2. QED
      BY <2>1, <2>5, <3>1, Zenon
  <2>8. Middle'
    <3>1. Rewriting' <=> Rewriting
      BY <2>1, <2>3, Zenon DEF Rewriting
    <3>2. ~InTail' /\ ~Closing' /\ upc' \in {"body", "parse"} /\ upc' # "read" /\ upc' # "backoff" /\ upc' # "done"
      BY <2>2 DEF InTail, Closing
    <3>3. /\ (resp'.sse => resp'.header) /\ (upc' = "parse" => ~resp'.header)
          /\ ~exiting' /\ (~Rewriting' => held' = <<>>)
          /\ (Rewriting' => rx' # <<>> /\ LastOf(rx') \in {"H", "D"} /\ resp'.turn = turn')
          /\ (\A i \in DOMAIN held' : held'[i] = turn')
          /\ (Replace' => LastOf(batch') # "S")
      BY <1>0, <2>1, <2>2, <2>3, <2>4, <2>7, <3>1 DEF Middle
    <3>4. QED
      BY <3>2, <3>3 DEF Middle
  <2>9. Whole'
    BY <2>5 DEF Whole, Ended
  <2>10. QED
    BY <2>6, <2>8, <2>9, Zenon DEF FlowInv
<1>2. ASSUME UpstreamLost \/ SeeShutdown PROVE FlowInv'
  <2>1. UNCHANGED Others /\ UNCHANGED <<rx, wire, batch, resp, held>> /\ upc = "read" /\ upc' = "flush" /\ exiting'
    BY <1>2 DEF UpstreamLost, SeeShutdown
  <2>2. UNCHANGED <<mode, turn, answered, up>> /\ (Replace' <=> Replace)
    BY <2>1, OthersSame, Zenon
  <2>3. Flow'
    BY <1>0, <2>1, <2>2 DEF Flow
  <2>4. Middle'
    <3>1. Rewriting' <=> Rewriting
      BY <2>1, <2>2, Zenon DEF Rewriting
    <3>2. ~Closing'
      BY <2>1 DEF Closing
    <3>3. QED
      BY <1>0, <2>1, <2>2, <3>1, <3>2 DEF Middle, InTail
  <2>5. Whole'
    BY <2>1 DEF Whole
  <2>6. QED
    BY <2>3, <2>4, <2>5, Zenon DEF FlowInv
<1>3. ASSUME WriteFails PROVE FlowInv'
  <2>1. UNCHANGED Others /\ UNCHANGED <<rx, wire, batch, resp, held, exiting>> /\ upc' = "done"
    BY <1>3 DEF WriteFails
  <2>2. UNCHANGED <<mode, turn, answered, up>> /\ (Replace' <=> Replace)
    BY <2>1, OthersSame, Zenon
  <2>3. Flow'
    BY <1>0, <2>1, <2>2 DEF Flow
  <2>4. Middle'
    <3>1. Rewriting' <=> Rewriting
      BY <2>1, <2>2, Zenon DEF Rewriting
    <3>2. ~Closing' /\ ~InTail'
      BY <2>1 DEF Closing, InTail
    <3>3. QED
      BY <1>0, <2>1, <2>2, <3>1, <3>2 DEF Middle
  <2>5. Whole'
    BY <2>1 DEF Whole
  <2>6. QED
    BY <2>3, <2>4, <2>5, Zenon DEF FlowInv
<1>4. QED
  BY <1>1, <1>2, <1>3, Zenon

\* The header is parsed.
LEMMA FlowParses ==
  ASSUME TypeInv, FlowInv, NEW close \in BOOLEAN, ParseHeader(close) PROVE FlowInv'
<1>0. Flow /\ Middle /\ Whole /\ U2cShape
  BY Zenon DEF FlowInv, TypeInv
<1>1. UNCHANGED Others /\ UNCHANGED <<rx, wire, batch, held, exiting>> /\ upc = "parse" /\ upc' = "backoff"
  BY DEF ParseHeader
<1>2. resp' = [header |-> TRUE, sse |-> Head(batch).u = "H", sized |-> Head(batch).u = "J",
               key |-> None, turn |-> Head(batch).turn]
  BY DEF ParseHeader
<1>3. UNCHANGED <<mode, turn, answered, up>> /\ (Replace' <=> Replace)
  BY <1>1, OthersSame, Zenon
<1>4. Head(batch) = batch[1]
  <2>1. batch # <<>>
    BY <1>0, <1>1 DEF U2cShape
  <2>2. batch \in Seq(UnitTo(answered))
    BY StreamTypes, Zenon
  <2>3. QED
    BY <2>1, <2>2, TailFacts, Zenon
<1>5. resp'.header /\ (resp'.sse <=> batch[1].u = "H") /\ resp'.turn = batch[1].turn
  BY <1>2, <1>4
<1>6. held = <<>> /\ ~exiting
  BY <1>0, <1>1 DEF Middle, Rewriting
<1>7. Flow'
  BY <1>0, <1>1, <1>3 DEF Flow
<1>8. Middle'
  <2>1. ~InTail' /\ ~Closing'
    BY <1>1 DEF InTail, Closing
  <2>2. \A i \in DOMAIN held' : held'[i] = turn'
    <3>1. held' = <<>> /\ DOMAIN <<>> = {}
      BY <1>1, <1>6
    <3>2. QED
      BY <3>1
  <2>3. QED
    BY <1>0, <1>1, <1>3, <1>5, <1>6, <2>1, <2>2 DEF Middle
<1>9. Whole'
  <2>1. ~Closing
    BY <1>1 DEF Closing
  <2>2. QED
    BY <1>0, <1>1, <1>3, <2>1 DEF Whole
<1>10. QED
  BY <1>7, <1>8, <1>9, Zenon DEF FlowInv

\* The client has got x for the first unit of b.
HeadWritten(r, x, b, w, t) ==
  /\ Written(r, <<x>>, Tail(b), w, t) /\ LastOf(<<x>>) = b[1].u
  /\ Tail(b) # <<>> => LastOf(Tail(b)) = LastOf(b)
  /\ Tail(b) = <<>> => LastOf(b) = b[1].u
  /\ b[1].turn = t

\* The first unit of what u2c has read goes to the client.
LEMMA PiecesHead ==
  ASSUME NEW X, NEW Y, NEW r \in Seq(X), NEW b \in Seq(Y), NEW w, NEW t, NEW x \in X,
         Pieces(r, b, w, t), b # <<>>, x.u = b[1].u, x.turn = b[1].turn
  PROVE  HeadWritten(r, x, b, w, t)
<1>1. /\ Chain(Tail(b)) /\ (Tail(b) # <<>> => Follows(FirstOf(b), FirstOf(Tail(b))))
      /\ OfTurn(Tail(b), t) /\ b[1].turn = t
      /\ (Tail(b) # <<>> => LastOf(Tail(b)) = LastOf(b)) /\ (Tail(b) = <<>> => LastOf(b) = FirstOf(b))
  BY TailChain, Zenon DEF Pieces
<1>2. Tail(b) \in Seq(Y)
  BY TailFacts, Zenon
<1>3. Chain(<<x>>) /\ <<x>> # <<>> /\ FirstOf(<<x>>) = b[1].u /\ LastOf(<<x>>) = b[1].u /\ OfTurn(<<x>>, t)
  BY <1>1, OneChain, Zenon
<1>4. <<x>> \in Seq(X)
  OBVIOUS
<1> DEFINE y == <<x>>
           b2 == Tail(b)
<1> HIDE DEF y, b2
<1>5. /\ Chain(y) /\ y # <<>> /\ FirstOf(y) = b[1].u /\ LastOf(y) = b[1].u /\ OfTurn(y, t) /\ y \in Seq(X)
      /\ Chain(b2) /\ (b2 # <<>> => Follows(b[1].u, FirstOf(b2))) /\ OfTurn(b2, t) /\ b2 \in Seq(Y)
      /\ (b2 # <<>> => LastOf(b2) = LastOf(b)) /\ (b2 = <<>> => LastOf(b) = b[1].u)
  BY <1>1, <1>2, <1>3, <1>4, Zenon DEF y, b2, FirstOf
<1>6. (r = <<>> => Begins(y)) /\ Joined(r, y)
  BY <1>5, Zenon DEF Pieces, Begins, Joined, FirstOf
<1>7. Joined(y, b2) /\ Joined(b2, w) /\ (b2 = <<>> => Joined(y, w))
  BY <1>5, Zenon DEF Pieces, Joined
<1>8. Written(r, y, b2, w, t)
  <2>1. Fits(r, y, b2, w, t)
    BY <1>5, <1>6, <1>7, Zenon DEF Fits
  <2>2. y \in Seq(X)
    BY <1>5, Zenon
  <2>3. QED
    BY <2>1, <2>2, PiecesWrite, Zenon
<1>9. QED
  BY <1>1, <1>5, <1>8, Zenon DEF y, b2, HeadWritten

\* The header is forwarded.
LEMMA FlowHeader ==
  ASSUME TypeInv, FlowInv, ForwardHeader PROVE FlowInv'
<1> DEFINE hd == [u |-> Head(batch).u, turn |-> Head(batch).turn, key |-> None]
<1>0. Flow /\ Middle /\ Whole /\ U2cShape /\ Pieces(rx, batch, wire, turn)
  BY Zenon DEF FlowInv, TypeInv, Flow
<1>a. /\ rx \in Seq(SeenTo(answered)) /\ wire \in Seq(UnitTo(answered)) /\ batch \in Seq(UnitTo(answered))
      /\ answered \in Nat /\ turn \in Nat /\ resp \in RespTo(answered)
  BY StreamTypes, Zenon
<1>1. /\ UNCHANGED Others /\ UNCHANGED <<wire, held, exiting>> /\ upc = "backoff" /\ batch' = Tail(batch) /\ rx' = rx \o <<hd>>
  BY DEF ForwardHeader, WriteOk
<1>2. resp' = [resp EXCEPT !.key = IF Replace /\ resp.sse THEN vault ELSE None]
      /\ upc' = IF Len(batch) > 1 THEN "body" ELSE "read"
  BY Zenon DEF ForwardHeader
<1>3. UNCHANGED <<mode, turn, answered, up>> /\ (Replace' <=> Replace)
  BY <1>1, OthersSame, Zenon
<1>4. resp'.sse = resp.sse /\ resp'.turn = resp.turn /\ resp'.header = resp.header
  BY <1>2, <1>a DEF RespTo
<1>5. batch # <<>> /\ Head(batch) = batch[1] /\ batch[1] \in UnitTo(answered) /\ (Len(batch) > 1 <=> Tail(batch) # <<>>)
  <2>1. batch # <<>>
    BY <1>0, <1>1 DEF U2cShape
  <2>2. Head(batch) \in UnitTo(answered) /\ Head(batch) = batch[1] /\ (Len(batch) > 1 <=> Tail(batch) # <<>>)
    BY <1>a, <2>1, TailFacts, Zenon
  <2>3. QED
    BY <2>1, <2>2
<1>6. hd \in SeenTo(answered) /\ hd.u = batch[1].u /\ hd.turn = batch[1].turn
  <2>1. batch[1].u \in Kinds /\ batch[1].turn \in 1..answered
    BY <1>5 DEF UnitTo
  <2>2. QED
    BY <1>5, <2>1 DEF SeenTo
<1> HIDE DEF hd
<1>7. /\ Pieces(rx', batch', wire, turn) /\ rx' # <<>> /\ LastOf(rx') = batch[1].u
      /\ (batch' # <<>> => LastOf(batch') = LastOf(batch))
      /\ (batch' = <<>> => LastOf(batch) = batch[1].u)
      /\ batch[1].turn = turn
  <2>1. Pieces(rx, batch, wire, turn) /\ rx \in Seq(SeenTo(answered)) /\ batch \in Seq(UnitTo(answered)) /\ batch # <<>>
    BY <1>0, <1>5, <1>a, Zenon
  <2>2. HeadWritten(rx, hd, batch, wire, turn)
    BY <1>6, <2>1, PiecesHead, Zenon
  <2>3. rx' = rx \o <<hd>> /\ batch' = Tail(batch)
    BY <1>1
  <2>4. QED
    BY <2>2, <2>3, Zenon DEF Written, HeadWritten
<1>8. (upc' = "body" /\ batch' # <<>>) \/ (upc' = "read" /\ batch' = <<>>)
  BY <1>1, <1>2, <1>5
<1>9. Flow'
  BY <1>0, <1>1, <1>3, <1>5, <1>7 DEF Flow
<1>10. Middle'
  <2>1. (Rewriting' <=> Rewriting) /\ ~InTail' /\ ~Closing'
    <3>1. Rewriting' <=> Rewriting
      BY <1>3, <1>4, Zenon DEF Rewriting
    <3>2. QED
      BY <1>8, <3>1 DEF InTail, Closing
  <2>2. Rewriting => batch[1].u = "H" /\ resp.turn = turn /\ held = <<>>
    BY <1>0, <1>1, <1>7 DEF Middle, Rewriting
  <2>3. ~exiting /\ (Replace => LastOf(batch) # "S") /\ (\A i \in DOMAIN held : held[i] = turn) /\ (~Rewriting => held = <<>>)
        /\ (resp.sse => resp.header)
    BY <1>0, <1>1, <1>5 DEF Middle
  <2>4. QED
    BY <1>1, <1>3, <1>4, <1>7, <1>8, <2>1, <2>2, <2>3 DEF Middle
<1>11. Whole'
  <2>1. ~Closing /\ upc # "done" /\ (wire' = wire /\ exiting' = exiting)
    BY <1>1 DEF Closing
  <2>2. up /\ answered = turn /\ turn > 0 /\ ~exiting /\ wire = <<>> => LastOf(batch) \in Final
    BY <1>0, <1>5, <2>1 DEF Whole, Ended
  <2>3. QED
    BY <1>3, <1>7, <2>1, <2>2 DEF Whole, Ended
<1>12. QED
  BY <1>9, <1>10, <1>11, Zenon DEF FlowInv

\* The rest of what u2c has read is forwarded as it is.
LEMMA FlowRaw ==
  ASSUME TypeInv, FlowInv, RawChunk PROVE FlowInv'
<1>0. Flow /\ Middle /\ Whole /\ U2cShape /\ Pieces(rx, batch, wire, turn)
  BY Zenon DEF FlowInv, TypeInv, Flow
<1>a. /\ rx \in Seq(SeenTo(answered)) /\ wire \in Seq(UnitTo(answered)) /\ batch \in Seq(UnitTo(answered))
      /\ answered \in Nat /\ turn \in Nat
  BY StreamTypes, Zenon
<1>1. /\ UNCHANGED Others /\ UNCHANGED <<wire, resp, held, exiting>> /\ upc = "body" /\ batch' = <<>> /\ rx' = rx \o Raw(batch)
      /\ ~Rewriting
  BY DEF RawChunk, WriteOk
<1>2. upc' \in {"flush", "read"}
  BY Zenon DEF RawChunk
<1>3. UNCHANGED <<mode, turn, answered, up>> /\ (Replace' <=> Replace)
  BY <1>1, OthersSame, Zenon
<1>4. batch # <<>>
  BY <1>0, <1>1 DEF U2cShape
<1>5. /\ Raw(batch) \in Seq(SeenTo(answered)) /\ Chain(Raw(batch)) /\ OfTurn(Raw(batch), turn) /\ Raw(batch) # <<>>
      /\ FirstOf(Raw(batch)) = FirstOf(batch) /\ LastOf(Raw(batch)) = LastOf(batch)
  BY <1>0, <1>4, <1>a, RawFacts, RawChain, Zenon DEF Pieces
<1> DEFINE x == Raw(batch)
<1> HIDE DEF x
<1>6. x \in Seq(SeenTo(answered)) /\ Fits(rx, x, <<>>, wire, turn) /\ LastOf(x) = LastOf(batch)
  <2>1. /\ x \in Seq(SeenTo(answered)) /\ Chain(x) /\ OfTurn(x, turn) /\ x # <<>>
        /\ FirstOf(x) = FirstOf(batch) /\ LastOf(x) = LastOf(batch)
    BY <1>5, Zenon DEF x
  <2>2. (rx = <<>> => Begins(x)) /\ Joined(rx, x) /\ Joined(x, wire)
    BY <1>0, <1>4, <2>1, Zenon DEF Pieces, Begins, Joined
  <2>3. Chain(<<>>) /\ OfTurn(<<>>, turn)
    <3>1. Len(<<>>) = 0 /\ DOMAIN <<>> = {}
      OBVIOUS
    <3>2. QED
      BY <3>1 DEF Chain, OfTurn
  <2>4. QED
    BY <2>1, <2>2, <2>3, Zenon DEF Fits, Joined
<1>7. Written(rx, x, <<>>, wire, turn)
  <2>1. x \in Seq(SeenTo(answered)) /\ rx \in Seq(SeenTo(answered)) /\ Pieces(rx, batch, wire, turn)
    BY <1>0, <1>6, <1>a, Zenon
  <2>2. QED
    BY <1>6, <2>1, PiecesWrite, Zenon
<1>8. Pieces(rx', batch', wire, turn) /\ rx' # <<>> /\ LastOf(rx') = LastOf(batch)
  <2>1. rx' = rx \o x /\ batch' = <<>>
    BY <1>1, Zenon DEF x
  <2>2. QED
    BY <1>6, <1>7, <2>1, Zenon DEF Written
<1>9. Flow'
  BY <1>0, <1>1, <1>3, <1>4, <1>8 DEF Flow
<1>10. ~Rewriting' /\ held = <<>> /\ ~exiting
  BY <1>0, <1>1, <1>3 DEF Rewriting, Middle
<1>11. Middle'
  <2>1. \A i \in DOMAIN held' : held'[i] = turn'
    <3>1. held' = <<>> /\ DOMAIN <<>> = {}
      BY <1>1, <1>10
    <3>2. QED
      BY <3>1
  <2>2. QED
    BY <1>0, <1>1, <1>2, <1>10, <2>1 DEF Middle
<1>12. Whole'
  <2>1. ~Closing /\ upc # "done" /\ wire' = wire /\ exiting' = exiting /\ batch' = <<>>
    BY <1>1 DEF Closing
  <2>2. up /\ answered = turn /\ turn > 0 /\ ~exiting /\ wire = <<>> => LastOf(batch) \in Final
    BY <1>0, <1>4, <2>1 DEF Whole, Ended
  <2>3. QED
    BY <1>3, <1>8, <2>1, <2>2 DEF Whole, Ended
<1>13. QED
  BY <1>9, <1>11, <1>12, Zenon DEF FlowInv

\* An event of a rewritten response: text goes through the buffer, in its place.
LEMMA FlowDelta ==
  ASSUME TypeInv, FlowInv, NEW hold \in BOOLEAN, RewriteDelta(hold) PROVE FlowInv'
<1> DEFINE event == Head(batch)
           texts == held \o <<event.turn>>
<1>0. Flow /\ Middle /\ Whole /\ U2cShape /\ Pieces(rx, batch, wire, turn)
  BY Zenon DEF FlowInv, TypeInv, Flow
<1>a. /\ rx \in Seq(SeenTo(answered)) /\ wire \in Seq(UnitTo(answered)) /\ batch \in Seq(UnitTo(answered))
      /\ answered \in Nat /\ turn \in Nat /\ held \in Seq(1..answered) /\ resp.key \in Keys \cup {None}
  BY StreamTypes, Zenon
<1>1. /\ UNCHANGED Others /\ UNCHANGED <<wire, resp, exiting>> /\ upc = "body" /\ Rewriting
      /\ batch # <<>> /\ batch' = Tail(batch) /\ event.u # "S"
  BY DEF RewriteDelta
<1>2. upc' = IF Len(batch) > 1 THEN "body" ELSE "read"
  BY Zenon DEF RewriteDelta
<1>3. UNCHANGED <<mode, turn, answered, up>> /\ (Replace' <=> Replace)
  BY <1>1, OthersSame, Zenon
<1>4. event = batch[1] /\ event \in UnitTo(answered) /\ (Len(batch) > 1 <=> Tail(batch) # <<>>) /\ Tail(batch) \in Seq(UnitTo(answered))
  BY <1>1, <1>a, TailFacts, Zenon
<1>5. rx # <<>> /\ LastOf(rx) \in {"H", "D"} /\ resp.turn = turn /\ ~exiting
  BY <1>0, <1>1 DEF Middle
<1>6. event.u = "D"
  <2>1. Follows(LastOf(rx), batch[1].u)
    BY <1>0, <1>1, <1>5, Zenon DEF Pieces, Joined, FirstOf
  <2>2. QED
    BY <1>1, <1>4, <1>5, <2>1 DEF Follows
<1>7. /\ Chain(batch') /\ (batch' # <<>> => Follows("D", FirstOf(batch')))
      /\ OfTurn(batch', turn) /\ event.turn = turn
      /\ (batch' # <<>> => LastOf(batch') = LastOf(batch)) /\ (batch' = <<>> => LastOf(batch) = "D")
  <2>1. /\ Chain(Tail(batch)) /\ (Tail(batch) # <<>> => Follows(FirstOf(batch), FirstOf(Tail(batch))))
        /\ OfTurn(Tail(batch), turn) /\ batch[1].turn = turn
        /\ (Tail(batch) # <<>> => LastOf(Tail(batch)) = LastOf(batch)) /\ (Tail(batch) = <<>> => LastOf(batch) = FirstOf(batch))
    BY <1>0, <1>1, <1>a, TailChain, Zenon DEF Pieces
  <2>2. FirstOf(batch) = "D" /\ batch' = Tail(batch)
    BY <1>1, <1>4, <1>6 DEF FirstOf
  <2>3. QED
    BY <1>4, <2>1, <2>2
<1>8. \/ rx' = rx \o Reversed(texts) /\ held' = <<>>
      \/ held' = texts /\ rx' = rx
      \/ rx' = rx \o Raw(<<event>>) /\ held' = held
  BY <1>6 DEF RewriteDelta, WriteOk
<1> HIDE DEF event
<1>9. /\ texts \in Seq(1..answered) /\ texts # <<>> /\ \A i \in DOMAIN texts : texts[i] = turn
  <2>1. event.turn \in 1..answered
    BY <1>4 DEF UnitTo
  <2>2. texts \in Seq(1..answered) /\ Len(texts) = Len(held) + 1 /\ Len(held) \in Nat
        /\ \A i \in 1..Len(texts) : texts[i] = IF i <= Len(held) THEN held[i] ELSE event.turn
    <3> DEFINE e == event.turn
    <3>1. e \in 1..answered
      BY <2>1
    <3> HIDE DEF e
    <3>2. held \o <<e>> \in Seq(1..answered) /\ Len(held \o <<e>>) = Len(held) + 1 /\ Len(held) \in Nat
      BY <1>a, <3>1
    <3>3. ASSUME NEW i \in 1..(Len(held) + 1) PROVE (held \o <<e>>)[i] = IF i <= Len(held) THEN held[i] ELSE e
      BY <1>a, <3>1
    <3>4. texts = held \o <<e>>
      BY Zenon DEF texts, e
    <3>5. QED
      BY <3>2, <3>3, <3>4 DEF e
  <2>3. \A i \in 1..Len(held) : held[i] = turn
    BY <1>0, <1>1, <1>a DEF Middle
  <2> HIDE DEF texts
  <2>4. texts # <<>>
    <3>1. Len(texts) > 0
      BY <2>2
    <3>2. QED
      BY <2>2, <3>1, NonEmpty, Zenon
  <2>5. QED
    BY <1>7, <2>2, <2>3, <2>4
<1> HIDE DEF texts
<1>10. Joined(batch', wire) /\ (batch' # <<>> => Follows(LastOf(rx), FirstOf(batch')))
  <2>1. Joined(batch', wire)
    BY <1>0, <1>1, <1>7, Zenon DEF Pieces, Joined
  <2>2. QED
    BY <1>5, <1>7, <2>1, FollowsFacts
<1>11. batch' = <<>> /\ wire # <<>> => Follows("D", FirstOf(wire)) /\ Follows(LastOf(rx), FirstOf(wire))
  <2>1. batch' = <<>> /\ wire # <<>> => Follows("D", FirstOf(wire))
    BY <1>0, <1>1, <1>7, Zenon DEF Pieces, Joined
  <2>2. QED
    BY <1>5, <2>1, FollowsFacts
\* Any text behind what the client has, and nothing, fit.
<1>12. ASSUME NEW x \in Seq(SeenTo(answered)), x # <<>>, Chain(x), OfTurn(x, turn), FirstOf(x) = "D", LastOf(x) = "D", rx' = rx \o x
       PROVE  Pieces(rx', batch', wire, turn) /\ rx' # <<>> /\ LastOf(rx') = "D"
  <2>1. Joined(rx, x) /\ Joined(x, batch') /\ (batch' = <<>> => Joined(x, wire))
    <3>1. Follows(LastOf(rx), "D")
      BY <1>5 DEF Follows
    <3>2. QED
      BY <1>7, <1>11, <1>12, <3>1, Zenon DEF Joined
  <2>2. Fits(rx, x, batch', wire, turn)
    BY <1>5, <1>7, <1>10, <1>12, <2>1, Zenon DEF Fits
  <2>3. rx \in Seq(SeenTo(answered)) /\ Pieces(rx, batch, wire, turn)
    BY <1>0, <1>a, Zenon
  <2>4. Written(rx, x, batch', wire, turn)
    BY <2>2, <2>3, PiecesWrite, Zenon
  <2>5. QED
    BY <1>12, <2>4, Zenon DEF Written
<1>13. /\ Pieces(rx', batch', wire, turn) /\ rx' # <<>> /\ LastOf(rx') \in {"H", "D"}
       /\ \A i \in DOMAIN held' : held'[i] = turn
  <2>0. DOMAIN <<>> = {}
    OBVIOUS
  <2>1. CASE rx' = rx \o Reversed(texts) /\ held' = <<>>
    <3>1. /\ Reversed(texts) \in Seq(SeenTo(answered)) /\ Chain(Reversed(texts)) /\ OfTurn(Reversed(texts), turn)
          /\ Reversed(texts) # <<>> /\ FirstOf(Reversed(texts)) = "D" /\ LastOf(Reversed(texts)) = "D"
      BY <1>9, <1>a, ReversedChain, Zenon
    <3>2. Pieces(rx', batch', wire, turn) /\ rx' # <<>> /\ LastOf(rx') = "D"
      BY <1>12, <2>1, <3>1, Zenon
    <3>3. QED
      BY <2>0, <2>1, <3>2
  <2>2. CASE held' = texts /\ rx' = rx
    <3>1. Pieces(rx, batch', wire, turn)
      <4>1. Joined(rx, batch') /\ (batch' = <<>> => Joined(rx, wire))
        BY <1>10, <1>11, Zenon DEF Joined
      <4>2. QED
        BY <1>0, <1>5, <1>7, <1>10, <4>1, Zenon DEF Pieces
    <3>2. QED
      BY <1>5, <1>9, <2>2, <3>1
  <2>3. CASE rx' = rx \o Raw(<<event>>) /\ held' = held
    <3>0. <<event>> \in Seq(UnitTo(answered))
      BY <1>4
    <3>1. Chain(<<event>>) /\ <<event>> # <<>> /\ FirstOf(<<event>>) = "D" /\ LastOf(<<event>>) = "D" /\ OfTurn(<<event>>, turn)
      BY <1>6, <1>7, OneChain, Zenon
    <3>2. /\ Raw(<<event>>) \in Seq(SeenTo(answered)) /\ Chain(Raw(<<event>>)) /\ OfTurn(Raw(<<event>>), turn)
          /\ Raw(<<event>>) # <<>> /\ FirstOf(Raw(<<event>>)) = "D" /\ LastOf(Raw(<<event>>)) = "D"
      BY <1>a, <3>0, <3>1, RawFacts, RawChain, Zenon
    <3>3. Pieces(rx', batch', wire, turn) /\ rx' # <<>> /\ LastOf(rx') = "D"
      BY <1>12, <2>3, <3>2, Zenon
    <3>4. QED
      BY <1>0, <1>1, <2>3, <3>3 DEF Middle
  <2>4. QED
    BY <1>8, <2>1, <2>2, <2>3, Zenon
<1>14. Flow'
  BY <1>0, <1>1, <1>3, <1>5, <1>13 DEF Flow
<1>15. (upc' = "body" /\ batch' # <<>>) \/ (upc' = "read" /\ batch' = <<>>)
  BY <1>1, <1>2, <1>4
<1>16. Middle'
  <2>1. Rewriting' /\ ~InTail' /\ ~Closing'
    <3>1. Rewriting'
      BY <1>1, <1>3, Zenon DEF Rewriting
    <3>2. QED
      BY <1>15, <3>1 DEF InTail, Closing
  <2>2. (Replace => LastOf(batch) # "S") /\ (resp.sse => resp.header)
    BY <1>0, <1>1 DEF Middle
  <2>3. QED
    BY <1>1, <1>3, <1>5, <1>7, <1>13, <1>15, <2>1, <2>2 DEF Middle
<1>17. Whole'
  <2>1. ~Closing /\ upc # "done" /\ wire' = wire /\ exiting' = exiting
    BY <1>1 DEF Closing
  <2>2. up /\ answered = turn /\ turn > 0 /\ ~exiting /\ wire = <<>> => LastOf(batch) \in Final
    BY <1>0, <1>1, <2>1 DEF Whole, Ended
  <2>3. "D" \notin Final
    BY DEF Final
  <2>4. QED
    BY <1>3, <1>7, <2>1, <2>2, <2>3 DEF Whole, Ended
<1>18. QED
  BY <1>14, <1>16, <1>17, Zenon DEF FlowInv

\* The empty run.
LEMMA EmptyChain ==
  ASSUME NEW t PROVE Chain(<<>>) /\ OfTurn(<<>>, t) /\ DOMAIN <<>> = {}
<1>1. Len(<<>>) = 0 /\ DOMAIN <<>> = {}
  OBVIOUS
<1>2. QED
  BY <1>1 DEF Chain, OfTurn

\* A unit of u2c's own: the sentinel and the last chunk.
LEMMA OwnUnit ==
  ASSUME TypeInv, resp.sse, NEW k \in {"S", "Z"}
  PROVE  LET x == <<[u |-> k, turn |-> resp.turn, key |-> None]>>
         IN  x \in Seq(SeenTo(answered)) /\ Chain(x) /\ OfTurn(x, resp.turn) /\ x # <<>> /\ FirstOf(x) = k /\ LastOf(x) = k
<1> DEFINE e == [u |-> k, turn |-> resp.turn, key |-> None]
<1>1. resp.turn \in 1..answered
  BY DEF TypeInv, Heard, RespTo, U2cShape
<1>2. e.u = k /\ e.turn = resp.turn
  OBVIOUS
<1>3. e \in SeenTo(answered)
  BY <1>1 DEF SeenTo, Kinds
<1> HIDE DEF e
<1>4. <<e>> \in Seq(SeenTo(answered))
  BY <1>3
<1>5. Chain(<<e>>) /\ <<e>> # <<>> /\ FirstOf(<<e>>) = k /\ LastOf(<<e>>) = k /\ OfTurn(<<e>>, resp.turn)
  BY <1>2, OneChain, Zenon
<1>6. QED
  BY <1>4, <1>5, Zenon DEF e

\* The sentinel of a rewritten response: it is read together with the last chunk, which u2c drops
\* and will write itself.
LEMMA FlowStop ==
  ASSUME TypeInv, FlowInv, Scope, RewriteStop PROVE FlowInv'
<1>0. Flow /\ Middle /\ Whole /\ U2cShape /\ Pieces(rx, batch, wire, turn)
  BY Zenon DEF FlowInv, TypeInv, Flow
<1>a. /\ rx \in Seq(SeenTo(answered)) /\ wire \in Seq(UnitTo(answered)) /\ batch \in Seq(UnitTo(answered))
      /\ answered \in Nat /\ turn \in Nat /\ held \in Seq(1..answered) /\ resp.key \in Keys \cup {None}
  BY StreamTypes, Zenon
<1>1. /\ UNCHANGED Others /\ UNCHANGED <<wire, resp, exiting>> /\ upc = "body" /\ Rewriting /\ Head(batch).u = "S"
      /\ rx' = rx \o (Reversed(TailBeforeStop) \o StopEvent)
      /\ held' = SubSeq(held, Len(TailBeforeStop) + 1, Len(held)) /\ batch' = <<>> /\ upc' = "flush"
  BY DEF RewriteStop, WriteOk
<1>2. TailBeforeStop = held
  <2>1. Provider = "anthropic"
    BY <1>1 DEF Scope, Rewriting, Replace, TypeInv, ClientTypes
  <2>2. QED
    BY <2>1 DEF TailBeforeStop
<1>3. held' = <<>> /\ rx' = rx \o (Reversed(held) \o StopEvent)
  <2>1. SubSeq(held, Len(held) + 1, Len(held)) = <<>>
    BY <1>a
  <2>2. QED
    BY <1>1, <1>2, <2>1
<1>4. UNCHANGED <<mode, turn, answered, up>> /\ (Replace' <=> Replace)
  BY <1>1, OthersSame, Zenon
<1>5. rx # <<>> /\ LastOf(rx) \in {"H", "D"} /\ resp.turn = turn /\ ~exiting /\ resp.sse /\ (\A i \in DOMAIN held : held[i] = turn)
      /\ batch # <<>> /\ LastOf(batch) # "S"
  BY <1>0, <1>1 DEF Middle, Rewriting, U2cShape
<1>6. wire = <<>>
  <2>1. batch[1].u = "S" /\ FirstOf(batch) = "S"
    <3>1. Head(batch) = batch[1]
      BY <1>5, <1>a, TailFacts, Zenon
    <3>2. QED
      BY <1>1, <3>1 DEF FirstOf
  <2>2. /\ Chain(Tail(batch)) /\ (Tail(batch) # <<>> => Follows(FirstOf(batch), FirstOf(Tail(batch))))
        /\ (Tail(batch) # <<>> => LastOf(Tail(batch)) = LastOf(batch)) /\ (Tail(batch) = <<>> => LastOf(batch) = FirstOf(batch))
    BY <1>0, <1>5, <1>a, TailChain, Zenon DEF Pieces
  <2> DEFINE b2 == Tail(batch)
  <2>3. b2 \in Seq(UnitTo(answered))
    BY <1>5, <1>a, TailFacts, Zenon
  <2> HIDE DEF b2
  <2>4. b2 # <<>> /\ FirstOf(b2) = "Z" /\ Chain(b2) /\ LastOf(b2) = LastOf(batch)
    BY <1>5, <2>1, <2>2, FollowsFacts, Zenon DEF b2
  <2>5. LastOf(b2) = "Z"
    <3>1. Tail(b2) # <<>> => Follows("Z", FirstOf(Tail(b2)))
      BY <2>3, <2>4, TailChain, Zenon
    <3>2. Tail(b2) = <<>>
      BY <3>1 DEF Follows
    <3>3. QED
      BY <2>3, <2>4, <3>2, TailChain, Zenon
  <2>6. wire # <<>> => Follows("Z", FirstOf(wire))
    BY <1>0, <1>5, <2>4, <2>5, Zenon DEF Pieces, Joined
  <2>7. QED
    BY <2>6 DEF Follows
<1> DEFINE x == Reversed(held)
           e == StopEvent
           y == x \o e
<1>7. /\ x \in Seq(SeenTo(answered)) /\ Chain(x) /\ OfTurn(x, turn) /\ (x # <<>> => FirstOf(x) = "D" /\ LastOf(x) = "D")
  BY <1>5, <1>a, ReversedChain, Zenon
<1>8. e \in Seq(SeenTo(answered)) /\ Chain(e) /\ OfTurn(e, turn) /\ e # <<>> /\ FirstOf(e) = "S" /\ LastOf(e) = "S"
  BY <1>5, OwnUnit DEF StopEvent
<1> HIDE DEF x, e
<1>9. Joined(x, e)
  BY <1>7, <1>8 DEF Joined, Follows
<1>10. /\ y \in Seq(SeenTo(answered)) /\ (Chain(x) /\ Chain(e) /\ Joined(x, e) => Chain(y))
       /\ (OfTurn(x, turn) /\ OfTurn(e, turn) => OfTurn(y, turn))
       /\ (e # <<>> => y # <<>> /\ LastOf(y) = LastOf(e)) /\ (x # <<>> => FirstOf(y) = FirstOf(x)) /\ (x = <<>> => y = e)
  <2>1. x \in Seq(SeenTo(answered)) /\ e \in Seq(SeenTo(answered))
    BY <1>7, <1>8
  <2>2. QED
    BY <2>1, ConcatChain, Zenon
<1> HIDE DEF y
<1>11. /\ y \in Seq(SeenTo(answered)) /\ Chain(y) /\ OfTurn(y, turn) /\ y # <<>> /\ LastOf(y) = "S" /\ FirstOf(y) \in {"D", "S"}
  <2>1. y \in Seq(SeenTo(answered)) /\ Chain(y) /\ OfTurn(y, turn) /\ y # <<>> /\ LastOf(y) = "S"
    BY <1>7, <1>8, <1>9, <1>10, Zenon
  <2>2. FirstOf(y) \in {"D", "S"}
    BY <1>7, <1>8, <1>10
  <2>3. QED
    BY <2>1, <2>2
<1>12. Fits(rx, y, <<>>, wire, turn)
  <2>1. Follows(LastOf(rx), FirstOf(y))
    BY <1>5, <1>11 DEF Follows
  <2>2. QED
    BY <1>5, <1>6, <1>11, <2>1, EmptyChain, Zenon DEF Fits, Joined
<1>13. Written(rx, y, <<>>, wire, turn)
  <2>1. y \in Seq(SeenTo(answered)) /\ rx \in Seq(SeenTo(answered)) /\ Pieces(rx, batch, wire, turn)
    BY <1>0, <1>11, <1>a, Zenon
  <2>2. QED
    BY <1>12, <2>1, PiecesWrite, Zenon
<1>14. Pieces(rx', batch', wire, turn) /\ rx' # <<>> /\ LastOf(rx') = "S"
  <2>1. rx' = rx \o y /\ batch' = <<>>
    BY <1>1, <1>3, Zenon DEF x, y, e
  <2>2. QED
    BY <1>11, <1>13, <2>1, Zenon DEF Written
<1>15. Flow'
  BY <1>0, <1>1, <1>4, <1>5, <1>14 DEF Flow
<1>16. Rewriting' /\ InTail' /\ Closing'
  <2>1. Rewriting'
    BY <1>1, <1>4, Zenon DEF Rewriting
  <2>2. QED
    BY <1>1, <1>5, <2>1 DEF InTail, Closing
<1>17. Middle'
  <2>1. \A i \in DOMAIN held' : held'[i] = turn'
    BY <1>3, EmptyChain, Zenon
  <2>2. resp.sse => resp.header
    BY <1>0 DEF Middle
  <2>3. QED
    BY <1>1, <1>3, <1>4, <1>5, <1>6, <1>14, <1>16, <2>1, <2>2 DEF Middle
<1>18. Whole'
  BY <1>16 DEF Whole
<1>19. QED
  BY <1>15, <1>17, <1>18, Zenon DEF FlowInv

\* What the buffer still holds: nothing when the sentinel has been met, the end of the text when
\* the upstream or c2u is gone.
LEMMA FlowFlush ==
  ASSUME TypeInv, FlowInv, Scope, FlushRepBuf PROVE FlowInv'
<1>0. Flow /\ Middle /\ Whole /\ U2cShape /\ Pieces(rx, batch, wire, turn)
  BY Zenon DEF FlowInv, TypeInv, Flow
<1>a. /\ rx \in Seq(SeenTo(answered)) /\ wire \in Seq(UnitTo(answered)) /\ batch \in Seq(UnitTo(answered))
      /\ answered \in Nat /\ turn \in Nat /\ held \in Seq(1..answered) /\ resp.key \in Keys \cup {None}
  BY StreamTypes, Zenon
<1>1. /\ UNCHANGED Others /\ UNCHANGED <<wire, batch, resp, exiting>> /\ upc = "flush" /\ upc' = "finalize" /\ held' = <<>>
  BY DEF FlushRepBuf
<1>2. rx' = rx \o Reversed(held)
  BY Zenon DEF FlushRepBuf, WriteOk, Scope
<1>3. UNCHANGED <<mode, turn, answered, up>> /\ (Replace' <=> Replace)
  BY <1>1, OthersSame, Zenon
<1> DEFINE x == Reversed(held)
<1>4. /\ x \in Seq(SeenTo(answered)) /\ Chain(x) /\ (x # <<>> <=> held # <<>>)
      /\ ((\A i \in DOMAIN held : held[i] = turn) => OfTurn(x, turn))
      /\ (held # <<>> => FirstOf(x) = "D" /\ LastOf(x) = "D")
  BY <1>a, ReversedChain, Zenon
<1> HIDE DEF x
<1>6. CASE held = <<>>
  <2>1. rx' = rx
    <3>1. x = <<>> /\ rx' = rx \o x
      BY <1>2, <1>4, <1>6, Zenon DEF x
    <3>2. rx \o x = rx
      BY <1>a, <1>4, <3>1, ConcatChain, Zenon
    <3>3. QED
      BY <3>1, <3>2
  <2>2. Flow'
    BY <1>0, <1>1, <1>3, <2>1 DEF Flow
  <2>3. (Rewriting' <=> Rewriting) /\ (Closing' <=> Closing) /\ InTail' /\ InTail
    <3>1. Rewriting' <=> Rewriting
      BY <1>1, <1>3, Zenon DEF Rewriting
    <3>2. QED
      BY <1>1, <3>1 DEF Closing, InTail
  <2>4. Middle'
    <3>1. \A i \in DOMAIN held' : held'[i] = turn'
      BY <1>1, EmptyChain, Zenon
    <3>2. QED
      BY <1>0, <1>1, <1>3, <2>1, <2>3, <3>1 DEF Middle
  <2>5. Whole'
    BY <1>0, <1>1, <1>3, <2>1, <2>3 DEF Whole
  <2>6. QED
    BY <2>2, <2>4, <2>5, Zenon DEF FlowInv
<1>7. CASE held # <<>>
  <2>1. Rewriting /\ exiting /\ InTail
    BY <1>0, <1>1, <1>7 DEF Middle, InTail, Closing
  <2>2. rx # <<>> /\ LastOf(rx) \in {"H", "D"} /\ resp.turn = turn /\ (\A i \in DOMAIN held : held[i] = turn)
    BY <1>0, <1>1, <2>1 DEF Middle
  <2>3. x # <<>> /\ Chain(x) /\ OfTurn(x, turn) /\ FirstOf(x) = "D" /\ LastOf(x) = "D" /\ rx' = rx \o x
    BY <1>2, <1>4, <1>7, <2>2, Zenon DEF x
  <2>4. Fits(rx, x, batch, wire, turn)
    <3>1. Follows(LastOf(rx), "D") /\ \A k : Follows(LastOf(rx), k) => Follows("D", k)
      BY <2>2 DEF Follows
    <3>2. QED
      BY <1>0, <2>2, <2>3, <3>1, Zenon DEF Fits, Joined, Pieces
  <2>5. Written(rx, x, batch, wire, turn)
    <3>1. x \in Seq(SeenTo(answered)) /\ rx \in Seq(SeenTo(answered)) /\ Pieces(rx, batch, wire, turn)
      BY <1>0, <1>4, <1>a, Zenon
    <3>2. QED
      BY <2>4, <3>1, PiecesWrite, Zenon
  <2>6. Pieces(rx', batch, wire, turn) /\ rx' # <<>> /\ LastOf(rx') = "D"
    BY <2>3, <2>5, Zenon DEF Written
  <2>7. Flow'
    BY <1>0, <1>1, <1>3, <2>2, <2>6 DEF Flow
  <2>8. Rewriting' /\ exiting' /\ InTail' /\ ~Closing'
    <3>1. Rewriting'
      BY <1>1, <1>3, <2>1, Zenon DEF Rewriting
    <3>2. QED
      BY <1>1, <2>1, <3>1 DEF Closing, InTail
  <2>9. Middle'
    <3>1. \A i \in DOMAIN held' : held'[i] = turn'
      BY <1>1, EmptyChain, Zenon
    <3>2. QED
      BY <1>0, <1>1, <1>3, <2>2, <2>6, <2>8, <3>1 DEF Middle
  <2>10. Whole'
    BY <2>8 DEF Whole
  <2>11. QED
    BY <2>7, <2>9, <2>10, Zenon DEF FlowInv
<1>8. QED
  BY <1>6, <1>7, Zenon

\* Storing a response and saving its vault.
LEMMA FlowStores ==
  ASSUME TypeInv, FlowInv, FinalizeResponse \/ StoreResponse \/ SaveVault PROVE FlowInv'
<1>0. Flow /\ Middle /\ Whole
  BY Zenon DEF FlowInv
<1>1. UNCHANGED Others /\ UNCHANGED <<rx, wire, batch, resp, held, exiting>> /\ upc \in {"finalize", "store", "save"}
  BY DEF FinalizeResponse, StoreResponse, SaveVault
<1>2. upc' \in {"store", "save", "after"}
  BY Zenon DEF FinalizeResponse, StoreResponse, SaveVault
<1>3. UNCHANGED <<mode, turn, answered, up>> /\ (Replace' <=> Replace)
  BY <1>1, OthersSame, Zenon
<1>4. (Rewriting' <=> Rewriting) /\ (Closing' <=> Closing) /\ InTail' /\ InTail
  <2>1. Rewriting' <=> Rewriting
    BY <1>1, <1>3, Zenon DEF Rewriting
  <2>2. QED
    BY <1>1, <1>2, <2>1 DEF Closing, InTail
<1>5. Flow'
  BY <1>0, <1>1, <1>3 DEF Flow
<1>6. Middle'
  BY <1>0, <1>1, <1>2, <1>3, <1>4 DEF Middle
<1>7. Whole'
  BY <1>0, <1>1, <1>2, <1>3, <1>4 DEF Whole
<1>8. QED
  BY <1>5, <1>6, <1>7, Zenon DEF FlowInv

\* A rewritten response is closed, once, behind its sentinel.
LEMMA FlowAfter ==
  ASSUME TypeInv, FlowInv, AfterResponse PROVE FlowInv'
<1>0. Flow /\ Middle /\ Whole /\ U2cShape /\ Pieces(rx, batch, wire, turn)
  BY Zenon DEF FlowInv, TypeInv, Flow
<1>a. /\ rx \in Seq(SeenTo(answered)) /\ wire \in Seq(UnitTo(answered)) /\ batch \in Seq(UnitTo(answered))
      /\ answered \in Nat /\ turn \in Nat
  BY StreamTypes, Zenon
<1>1. /\ UNCHANGED Others /\ UNCHANGED <<wire, batch, held, exiting>> /\ upc = "after"
  BY DEF AfterResponse
<1>2. \/ exiting /\ upc' = "done" /\ rx' = rx /\ resp' = resp
      \/ ~exiting /\ upc' = "read" /\ rx' = rx \o LastChunk /\ resp' = Reset
  BY DEF AfterResponse, WriteOk
<1>3. UNCHANGED <<mode, turn, answered, up>> /\ (Replace' <=> Replace)
  BY <1>1, OthersSame, Zenon
<1>4. held = <<>> /\ InTail
  BY <1>0, <1>1 DEF Middle, InTail
<1>5. \A i \in DOMAIN held' : held'[i] = turn'
  BY <1>1, <1>4, EmptyChain, Zenon
<1>6. CASE exiting /\ upc' = "done" /\ rx' = rx /\ resp' = resp
  <2>1. Flow'
    BY <1>0, <1>1, <1>3, <1>6 DEF Flow
  <2>2. ~InTail' /\ ~Closing'
    BY <1>6 DEF InTail, Closing
  <2>3. Middle'
    BY <1>0, <1>1, <1>3, <1>4, <1>5, <1>6, <2>2 DEF Middle
  <2>4. Whole'
    BY <1>6 DEF Whole
  <2>5. QED
    BY <2>1, <2>3, <2>4, Zenon DEF FlowInv
<1>7. CASE ~exiting /\ upc' = "read" /\ rx' = rx \o LastChunk /\ resp' = Reset
  <2>1. Closing /\ batch = <<>>
    BY <1>0, <1>1, <1>7 DEF Middle, Closing
  <2>2. ~resp'.sse /\ ~resp'.header /\ ~Rewriting' /\ ~InTail' /\ ~Closing'
    <3>1. ~Reset.sse /\ ~Reset.header
      BY DEF Reset
    <3>2. QED
      BY <1>7, <3>1 DEF Rewriting, InTail, Closing
  <2>3. Middle'
    BY <1>1, <1>4, <1>5, <1>7, <2>1, <2>2 DEF Middle
  <2>4. CASE Rewriting
    <3> DEFINE x == <<[u |-> "Z", turn |-> resp.turn, key |-> None]>>
    <3>1. rx # <<>> /\ LastOf(rx) = "S" /\ wire = <<>> /\ resp.turn = turn
      BY <1>0, <2>1, <2>4 DEF Middle
    <3>2. x \in Seq(SeenTo(answered)) /\ Chain(x) /\ OfTurn(x, turn) /\ x # <<>> /\ FirstOf(x) = "Z" /\ LastOf(x) = "Z"
      BY <2>4, <3>1, OwnUnit DEF Rewriting
    <3>3. rx' = rx \o x
      BY <1>7, <2>4 DEF LastChunk
    <3> HIDE DEF x
    <3>4. Fits(rx, x, <<>>, wire, turn)
      <4>1. Follows(LastOf(rx), FirstOf(x))
        BY <3>1, <3>2 DEF Follows
      <4>2. QED
        BY <3>1, <3>2, <4>1, EmptyChain, Zenon DEF Fits, Joined
    <3>5. Written(rx, x, <<>>, wire, turn)
      <4>1. x \in Seq(SeenTo(answered)) /\ rx \in Seq(SeenTo(answered)) /\ Pieces(rx, batch, wire, turn)
        BY <1>0, <1>a, <3>2, Zenon
      <4>2. QED
        BY <3>4, <4>1, PiecesWrite, Zenon
    <3>6. Pieces(rx', batch, wire, turn) /\ rx' # <<>> /\ LastOf(rx') = "Z"
      BY <2>1, <3>2, <3>3, <3>5, Zenon DEF Written
    <3>7. Flow'
      BY <1>0, <1>1, <1>3, <3>1, <3>6 DEF Flow
    <3>8. Whole'
      <4>1. "Z" \in Final
        BY DEF Final
      <4>2. QED
        BY <1>1, <2>1, <3>6, <4>1 DEF Whole, Ended
    <3>9. QED
      BY <2>3, <3>7, <3>8, Zenon DEF FlowInv
  <2>5. CASE ~Rewriting
    <3>1. rx' = rx
      <4>1. rx' = rx \o <<>>
        BY <1>7, <2>5 DEF LastChunk
      <4>2. QED
        BY <1>a, <4>1
    <3>2. Flow'
      BY <1>0, <1>1, <1>3, <3>1 DEF Flow
    <3>3. Whole'
      BY <1>0, <1>1, <1>3, <1>7, <2>5, <3>1 DEF Whole
    <3>4. QED
      BY <2>3, <3>2, <3>3, Zenon DEF FlowInv
  <2>6. QED
    BY <2>4, <2>5, Zenon
<1>8. QED
  BY <1>2, <1>6, <1>7, Zenon

\* A step keeps the flow.
LEMMA FlowStep ==
  ASSUME TypeInv, FlowInv, Scope, [Next]_vars PROVE FlowInv'
<1>1. ASSUME UNCHANGED vars PROVE FlowInv'
  <2>1. UNCHANGED <<mode, turn, rx, batch, wire, answered, resp, held, upc, exiting>> /\ up' = up
    BY <1>1 DEF vars, clientVars, u2cVars
  <2>2. QED
    BY <2>1, FlowSame, Zenon
<1>2. ASSUME U2c PROVE FlowInv'
  BY <1>2, FlowReads, FlowParses, FlowHeader, FlowRaw, FlowDelta, FlowStop, FlowFlush, FlowStores, FlowAfter, Zenon DEF U2c
<1>3. QED
  BY <1>1, <1>2, FlowEnvironment, FlowC2u, Zenon DEF Next, Over

\* The first state.
LEMMA FlowInit ==
  ASSUME Init PROVE FlowInv
<1>1. rx = <<>> /\ batch = <<>> /\ wire = <<>> /\ turn = 0 /\ upc = "read" /\ ~exiting /\ held = <<>> /\ resp = Reset
  BY DEF Init
<1>2. Flow
  BY <1>1, EmptyChain, Zenon DEF Flow, Pieces, Begins, Joined
<1>3. Middle
  <2>1. ~resp.sse /\ ~resp.header
    BY <1>1 DEF Reset
  <2>2. \A i \in DOMAIN held : held[i] = turn
    BY <1>1, EmptyChain, Zenon
  <2>3. QED
    BY <1>1, <2>1, <2>2 DEF Middle, Rewriting, InTail, Closing
<1>4. Whole
  BY <1>1 DEF Whole
<1>5. QED
  BY <1>2, <1>3, <1>4, Zenon DEF FlowInv

\* What the client has, what u2c has read and what is on the wire are, at every moment, the pieces
\* of one response, and the last of them is its end unless the upstream is gone.
THEOREM FlowInvariant == Scope /\ Spec => [](TypeInv /\ FlowInv)
<1>1. Init => FlowInv
  BY FlowInit, Zenon
<1>2. Scope /\ TypeInv /\ FlowInv /\ [Next]_vars => FlowInv'
  BY FlowStep, Zenon
<1>3. SUFFICES ASSUME Scope PROVE Spec => [](TypeInv /\ FlowInv)
  BY Zenon
<1>4. QED
  BY <1>1, <1>2, <1>3, TypeInvariant, PTL DEF Spec

\* Pieces of a response are framed as ResponseWellFramed says.
LEMMA FlowFramed ==
  ASSUME TypeInv, FlowInv PROVE ResponseWellFramed
<1> DEFINE order == [u \in {"H", "D", "S", "Z", "J", "B"} |->
                       CASE u \in {"H", "J"} -> 0 [] u \in {"D", "B"} -> 1 [] u = "S" -> 2 [] u = "Z" -> 3]
<1>1. /\ order["H"] = 0 /\ order["J"] = 0 /\ order["D"] = 1 /\ order["B"] = 1 /\ order["S"] = 2 /\ order["Z"] = 3
  OBVIOUS
<1> HIDE DEF order
<1>2. \A i \in DOMAIN rx : rx[i].turn = turn
  BY Zenon DEF FlowInv, Flow, Pieces, OfTurn
<1>3. ASSUME NEW i \in 1..(Len(rx) - 1)
      PROVE  order[rx[i].u] < order[rx[i + 1].u] \/ (rx[i].u = "D" /\ rx[i + 1].u = "D")
  <2>1. Follows(rx[i].u, rx[i + 1].u)
    BY Zenon DEF FlowInv, Flow, Pieces, Chain
  <2> DEFINE a == rx[i].u
             b == rx[i + 1].u
  <2>2. Follows(a, b)
    BY <2>1
  <2> HIDE DEF a, b
  <2>3. order[a] < order[b] \/ (a = "D" /\ b = "D")
    BY <1>1, <2>2 DEF Follows
  <2>4. QED
    BY <2>3 DEF a, b
<1>4. rx # <<>> => rx[1].u \in {"H", "J"}
  BY Zenon DEF FlowInv, Flow, Pieces, Begins, FirstOf
<1>5. QED
  BY <1>2, <1>3, <1>4, Zenon DEF ResponseWellFramed, order

\* For any number of turns and text events, in every PII mode, however reads split the responses
\* and the tasks interleave: what the client receives for its request is one response, in order.
THEOREM ResponseWellFramedAlways == Scope /\ Spec => []ResponseWellFramed
<1>1. TypeInv /\ FlowInv => ResponseWellFramed
  BY FlowFramed, Zenon
<1>2. QED
  BY <1>1, FlowInvariant, PTL

\* u2c waits for more only when the end of the response has gone to the client.
LEMMA FlowNothingWithheld ==
  ASSUME TypeInv, FlowInv PROVE NothingWithheld
<1>1. SUFFICES ASSUME upc = "read", wire = <<>>, up, answered = turn, turn > 0 PROVE Complete
  BY Zenon DEF NothingWithheld
<1>2. rx \in Seq(SeenTo(answered)) /\ answered \in Nat
  BY StreamTypes, Zenon
<1>3. batch = <<>> /\ ~exiting /\ ~Closing
  BY <1>1 DEF FlowInv, Middle, Closing
<1>4. rx # <<>> /\ LastOf(rx) \in Final
  BY <1>1, <1>3 DEF FlowInv, Whole, Ended
<1>5. Chain(rx) /\ Begins(rx) /\ OfTurn(rx, turn)
  BY Zenon DEF FlowInv, Flow, Pieces
<1>6. QED
  BY <1>2, <1>4, <1>5, CompleteLast, Zenon

\* No text is held back and no end of a response is lost while the upstream is there: when u2c
\* has nothing left to read of an answered request, its client has the whole response.
THEOREM NothingWithheldAlways == Scope /\ Spec => []NothingWithheld
<1>1. TypeInv /\ FlowInv => NothingWithheld
  BY FlowNothingWithheld, Zenon
<1>2. QED
  BY <1>1, FlowInvariant, PTL
-----------------------------------------------------------------------------
(* The vault a response passes through *)

\* A step that leaves c2u, the client's requests and what c2u shares alone.
LEMMA SharedSame ==
  ASSUME Shared, UNCHANGED <<mode, turn, answered, conv, convId, vault, keyOf, cpc>> PROVE Shared'
  BY DEF Shared, Replace

\* The next request begins when c2u is done with the one before.
LEMMA SharedBegins ==
  ASSUME TypeInv, NEW c \in Convs \cup {None}, NEW bare \in BOOLEAN, BeginRequest(c, bare) PROVE Shared'
<1>1. turn' = turn + 1 /\ UNCHANGED <<answered, cpc>> /\ (turn = 0 \/ Complete)
  BY DEF BeginRequest, c2uVars
<1>2. turn \in Nat /\ answered \in Nat
  BY StreamTypes, Zenon
<1>3. turn <= answered
  <2>1. Complete => turn <= answered
    BY CompleteAnswered, Zenon DEF TypeInv
  <2>2. QED
    BY <1>1, <1>2, <2>1
<1>4. answered' # turn' /\ cpc' \notin {"share", "check", "write"}
  BY <1>1, <1>2, <1>3 DEF TypeInv, Parts
<1>5. QED
  BY <1>4 DEF Shared

\* c2u: the conversation is found, then its vault shared, then the request forwarded.
LEMMA SharedC2u ==
  ASSUME TypeInv, Shared, C2u PROVE Shared'
<1>0. Parts /\ ClientTypes /\ C2uTypes /\ turn \in Nat /\ answered \in Nat /\ MaxTurns \in Nat
  BY StreamTypes, BoundAssumption, Zenon DEF TypeInv
<1>1. UNCHANGED clientVars
  BY DEF C2u, ReadClient, StopReading, PhaseA, Log, FindConversation, ShareVault, CheckGone, Forward, ForwardFails
<1>2. UNCHANGED <<mode, turn, conv>> /\ (Replace' <=> Replace)
  BY <1>1 DEF clientVars, Replace
<1>3. ASSUME NEW n \in 1..2, NEW refused \in BOOLEAN, ReadClient(n, refused) PROVE Shared'
  <2>1. cpc = "read" /\ UNCHANGED <<answered, convId, vault, keyOf>>
    BY <1>3 DEF ReadClient
  <2>2. cpc' \in {"done", "read", "phaseA"} \/ mode = "off"
    BY <1>3, Zenon DEF ReadClient
  <2>3. QED
    BY <1>2, <2>1, <2>2 DEF Shared, Replace
<1>4. ASSUME StopReading \/ CheckGone \/ ForwardFails PROVE Shared'
  <2>1. UNCHANGED <<answered, convId, vault, keyOf>>
    BY <1>4 DEF StopReading, CheckGone, ForwardFails
  <2>2. cpc' = "done" \/ (cpc = "check" /\ cpc' = "write")
    BY <1>4, Zenon DEF StopReading, CheckGone, ForwardFails
  <2>3. QED
    BY <1>2, <2>1, <2>2 DEF Shared
<1>5. ASSUME PhaseA PROVE Shared'
  <2>1. cpc = "phaseA" /\ cpc' = "share" /\ UNCHANGED <<answered, vault, keyOf>>
    BY <1>5 DEF PhaseA, FindConversation
  <2>2. convId' = IF conv[req] # None THEN conv[req] ELSE convId
    BY <1>5, Zenon DEF PhaseA, FindConversation
  <2>3. req = turn /\ answered # turn
    BY <1>0, <2>1 DEF Parts
  <2>4. QED
    BY <1>2, <2>1, <2>2, <2>3 DEF Shared
<1>6. ASSUME Log PROVE Shared'
  <2>1. mode = "off"
    BY <1>0, <1>6 DEF Log, FindConversation, Parts
  <2>2. QED
    BY <1>2, <2>1 DEF Shared, Replace
<1>7. ASSUME ShareVault PROVE Shared'
  <2>1. cpc = "share" /\ cpc' = "check" /\ UNCHANGED <<answered, convId>> /\ vault' = VaultKey
        /\ keyOf' = [keyOf EXCEPT ![req] = VaultKey]
    BY <1>7 DEF ShareVault
  <2>2. req = turn /\ turn \in Turns
    BY <1>0, <2>1 DEF Parts, ClientTypes, C2uTypes, Turns
  <2>3. keyOf'[turn] = VaultKey
    BY <1>0, <2>1, <2>2 DEF C2uTypes
  <2>4. Replace => conv[turn] \in {convId, None}
    BY <2>1 DEF Shared
  <2>5. Replace => VaultKey \in Keys /\ VaultKey \in {convId, SessionUuid}
    BY <1>0, <2>2, <2>4 DEF VaultKey, Keys, ClientTypes, C2uTypes
  <2>6. QED
    BY <1>2, <2>1, <2>3, <2>4, <2>5 DEF Shared
<1>8. ASSUME Forward PROVE Shared'
  <2>1. cpc = "write" /\ UNCHANGED <<convId, vault, keyOf>>
    BY <1>8 DEF Forward
  <2>2. cpc' \in {"log", "read"}
    BY <1>8, Zenon DEF Forward
  <2>3. QED
    BY <1>2, <2>1, <2>2 DEF Shared
<1>9. QED
  BY <1>3, <1>4, <1>5, <1>6, <1>7, <1>8, Zenon DEF C2u

\* Any step.
LEMMA SharedStep ==
  ASSUME TypeInv, Shared, [Next]_vars PROVE Shared'
<1>1. ASSUME UNCHANGED vars \/ SendPart \/ ClientClose \/ (\E reset \in BOOLEAN : UpstreamClose(reset)) PROVE Shared'
  <2>1. UNCHANGED <<mode, turn, answered, conv, convId, vault, keyOf, cpc>>
    BY <1>1 DEF vars, clientVars, c2uVars, SendPart, ClientClose, UpstreamClose
  <2>2. QED
    BY <2>1, SharedSame, Zenon
<1>2. ASSUME U2c PROVE Shared'
  <2>1. UNCHANGED Others
    BY <1>2 DEF U2c, ReadUpstream, UpstreamLost, SeeShutdown, WriteFails, ParseHeader, ForwardHeader, RawChunk, RewriteDelta,
                RewriteStop, FlushRepBuf, FinalizeResponse, StoreResponse, SaveVault, AfterResponse
  <2>2. UNCHANGED <<mode, turn, answered, conv, convId, vault, keyOf, cpc>>
    BY <2>1 DEF Others, clientVars, c2uVars
  <2>3. QED
    BY <2>2, SharedSame, Zenon
<1>3. QED
  BY <1>1, <1>2, SharedBegins, SharedC2u, Zenon DEF Next, Environment, Over

\* Text behind text.
LEMMA KeyedConcat ==
  ASSUME NEW X, NEW p \in Seq(X), NEW q \in Seq(X), NEW k, Keyed(p, k), Keyed(q, k)
  PROVE  Keyed(p \o q, k)
<1> DEFINE m == Len(p)
           n == Len(q)
           s == p \o q
<1>1. /\ m \in Nat /\ n \in Nat /\ s \in Seq(X) /\ Len(s) = m + n
      /\ \A i \in 1..m : s[i] = p[i]
      /\ \A i \in 1..n : s[m + i] = q[i]
      /\ DOMAIN p = 1..m /\ DOMAIN q = 1..n /\ DOMAIN s = 1..Len(s)
  OBVIOUS
<1> HIDE DEF m, n, s
<1>2. ASSUME NEW i \in DOMAIN s, s[i].u = "D" PROVE s[i].key = k /\ k # None
  <2>1. CASE i <= m
    <3>1. i \in DOMAIN p /\ s[i] = p[i]
      BY <1>1, <2>1
    <3>2. QED
      BY <1>2, <3>1 DEF Keyed
  <2>2. CASE i > m
    <3>1. i - m \in 1..n /\ m + (i - m) = i
      BY <1>1, <2>2
    <3>2. s[m + (i - m)] = q[i - m]
      BY <1>1, <3>1, Zenon
    <3>3. i - m \in DOMAIN q /\ s[i] = q[i - m]
      BY <1>1, <3>1, <3>2
    <3>4. QED
      BY <1>2, <3>3 DEF Keyed
  <2>3. QED
    BY <1>1, <2>1, <2>2
<1>3. QED
  BY <1>2, Zenon DEF Keyed, s

\* Reversed text is keyed; units that are not text are too.
LEMMA KeyedRuns ==
  ASSUME NEW a \in Nat, NEW k
  PROVE  /\ \A texts \in Seq(1..a) : resp.key \in Keys \cup {None} /\ (texts # <<>> => resp.key = k /\ k # None) => Keyed(Reversed(texts), k)
         /\ \A units \in Seq(UnitTo(a)) : (\A i \in DOMAIN units : units[i].u # "D") => Keyed(Raw(units), k)
         /\ \A e : e.u # "D" => Keyed(<<e>>, k)
         /\ Keyed(<<>>, k)
<1>1. ASSUME NEW texts \in Seq(1..a), resp.key \in Keys \cup {None}, texts # <<>> => resp.key = k /\ k # None
      PROVE  Keyed(Reversed(texts), k)
  <2>1. Reversed(texts) \in Seq(SeenTo(a)) /\ Len(Reversed(texts)) = Len(texts)
        /\ \A i \in 1..Len(texts) : Reversed(texts)[i].key = resp.key
    BY <1>1, ReversedFacts, Zenon
  <2>2. DOMAIN Reversed(texts) = 1..Len(texts)
    BY <2>1
  <2>3. texts = <<>> => Len(texts) = 0
    OBVIOUS
  <2>4. QED
    BY <1>1, <2>1, <2>2, <2>3 DEF Keyed
<1>2. ASSUME NEW units \in Seq(UnitTo(a)), \A i \in DOMAIN units : units[i].u # "D" PROVE Keyed(Raw(units), k)
  <2>1. Raw(units) \in Seq(SeenTo(a)) /\ Len(Raw(units)) = Len(units) /\ \A i \in 1..Len(units) : Raw(units)[i].u = units[i].u
    BY RawFacts, Zenon
  <2>2. DOMAIN Raw(units) = 1..Len(units) /\ DOMAIN units = 1..Len(units)
    BY <2>1
  <2>3. QED
    BY <1>2, <2>1, <2>2 DEF Keyed
<1>3. ASSUME NEW e, e.u # "D" PROVE Keyed(<<e>>, k)
  <2>1. DOMAIN <<e>> = 1..1 /\ <<e>>[1] = e
    OBVIOUS
  <2>2. QED
    BY <1>3, <2>1 DEF Keyed
<1>4. Keyed(<<>>, k)
  BY EmptyChain, Zenon DEF Keyed
<1>5. QED
  BY <1>1, <1>2, <1>3, <1>4, Zenon

\* Steps that leave u2c and the request alone.
LEMMA RewrittenSame ==
  ASSUME Rewritten, UNCHANGED <<mode, turn, rx, batch, resp, upc, exiting, keyOf>> PROVE Rewritten'
  BY DEF Rewritten, Replace, Closing

\* A new request.
LEMMA RewrittenBegins ==
  ASSUME TypeInv, FlowInv, Rewritten, NEW c \in Convs \cup {None}, NEW bare \in BOOLEAN, BeginRequest(c, bare)
  PROVE  Rewritten'
<1>1. rx' = <<>> /\ UNCHANGED <<mode, upc, batch, resp, exiting, keyOf>>
  BY DEF BeginRequest, u2cVars
<1>2. (rx = <<>> \/ LastOf(rx) \in Final) /\ ~(Rewriting /\ (upc \in {"read", "body"} \/ InTail))
  BY BeginsClean, Zenon
<1>3. "J" \notin Final
  BY DEF Final
<1>4. Replace => ~(resp.sse /\ upc \in {"read", "body", "flush"}) /\ ~(resp.header /\ ~resp.sse /\ upc \in {"read", "body"})
  BY <1>2, <1>3 DEF Rewritten, Rewriting, InTail
<1>5. Keyed(<<>>, keyOf'[turn'])
  BY KeyedRuns, Zenon
<1>6. QED
  BY <1>1, <1>4, <1>5 DEF Rewritten, Replace, Closing

\* c2u gives a turn its vault before it is answered.
LEMMA RewrittenC2u ==
  ASSUME TypeInv, FlowInv, Rewritten, C2u PROVE Rewritten'
<1>1. UNCHANGED clientVars /\ UNCHANGED u2cVars /\ UNCHANGED rx
  BY DEF C2u, ReadClient, StopReading, PhaseA, Log, FindConversation, ShareVault, CheckGone, Forward, ForwardFails
<1>2. UNCHANGED <<mode, turn, rx, batch, resp, upc, exiting>>
  BY <1>1 DEF clientVars, u2cVars
<1>3. CASE keyOf' = keyOf
  <2>1. UNCHANGED <<mode, turn, rx, batch, resp, upc, exiting, keyOf>>
    BY <1>2, <1>3
  <2>2. QED
    BY <2>1, RewrittenSame, Zenon
<1>4. CASE ShareVault
  <2>1. answered # turn /\ rx = <<>>
    <3>1. cpc = "share"
      BY <1>4 DEF ShareVault
    <3>2. turn \in Nat
      BY StreamTypes, Zenon
    <3>3. answered # turn
      BY <3>1, <3>2 DEF TypeInv, Parts
    <3>4. QED
      BY <3>3 DEF FlowInv, Flow
  <2>2. ~(Rewriting /\ (upc \in {"read", "body"} \/ InTail))
    BY <2>1 DEF FlowInv, Middle, InTail, Closing
  <2>3. Keyed(<<>>, keyOf'[turn'])
    BY KeyedRuns, Zenon
  <2>4. QED
    BY <1>2, <2>1, <2>2, <2>3 DEF Rewritten, Rewriting, Replace, Closing, InTail
<1>5. keyOf' = keyOf \/ ShareVault
  BY DEF C2u, ReadClient, StopReading, PhaseA, Log, FindConversation, CheckGone, Forward, ForwardFails
<1>6. QED
  BY <1>3, <1>4, <1>5, Zenon

\* Reads, and a failed write.
LEMMA RewrittenReads ==
  ASSUME TypeInv, FlowInv, Rewritten, (\E n \in 1..Len(wire) : ReadUpstream(n)) \/ UpstreamLost \/ SeeShutdown \/ WriteFails
  PROVE  Rewritten'
<1>1. UNCHANGED Others /\ UNCHANGED <<rx, resp>>
  BY DEF ReadUpstream, UpstreamLost, SeeShutdown, WriteFails
<1>2. (Replace' <=> Replace) /\ UNCHANGED <<mode, turn, keyOf>>
  BY <1>1 DEF Others, clientVars, Replace
<1>3. ASSUME NEW n \in 1..Len(wire), ReadUpstream(n) PROVE Rewritten'
  <2>1. upc = "read" /\ UNCHANGED exiting
    BY <1>3 DEF ReadUpstream
  <2>2. (upc' = "body" /\ resp.header) \/ (upc' = "parse" /\ ~resp.header)
    BY <1>3, Zenon DEF ReadUpstream
  <2>3. wire # <<>>
    <3>1. wire \in Seq(UnitTo(answered))
      BY StreamTypes, Zenon
    <3>2. Len(wire) \in Nat /\ Len(wire) > 0
      BY <3>1
    <3>3. QED
      BY <3>1, <3>2, NonEmpty, Zenon
  <2>4. rx = <<>> \/ LastOf(rx) \notin Final
    BY <2>3, PiecesEnded, Zenon DEF FlowInv, Flow
  <2>5. Replace /\ upc' = "parse" => rx = <<>>
    BY <2>1, <2>2, <2>4 DEF Rewritten
  <2>6. QED
    BY <1>1, <1>2, <2>1, <2>2, <2>5 DEF Rewritten, Closing
<1>4. ASSUME UpstreamLost \/ SeeShutdown PROVE Rewritten'
  <2>1. upc = "read" /\ upc' = "flush" /\ exiting'
    BY <1>4 DEF UpstreamLost, SeeShutdown
  <2>2. QED
    BY <1>1, <1>2, <2>1 DEF Rewritten, Closing
<1>5. ASSUME WriteFails PROVE Rewritten'
  <2>1. upc' = "done"
    BY <1>5 DEF WriteFails
  <2>2. QED
    BY <1>1, <1>2, <2>1 DEF Rewritten, Closing
<1>6. QED
  BY <1>3, <1>4, <1>5, Zenon

\* The header is parsed.
LEMMA RewrittenParses ==
  ASSUME TypeInv, FlowInv, Rewritten, NEW close \in BOOLEAN, ParseHeader(close) PROVE Rewritten'
<1>1. UNCHANGED Others /\ UNCHANGED <<rx, batch, exiting>> /\ upc = "parse" /\ upc' = "backoff"
  BY DEF ParseHeader
<1>2. resp' = [header |-> TRUE, sse |-> Head(batch).u = "H", sized |-> Head(batch).u = "J",
               key |-> None, turn |-> Head(batch).turn]
  BY DEF ParseHeader
<1>3. (Replace' <=> Replace) /\ UNCHANGED <<mode, turn, keyOf>>
  BY <1>1 DEF Others, clientVars, Replace
<1>4. Head(batch) = batch[1]
  <2>1. batch # <<>> /\ batch \in Seq(UnitTo(answered))
    BY <1>1, StreamTypes DEF TypeInv, U2cShape
  <2>2. QED
    BY <2>1, TailFacts, Zenon
<1>5. resp'.sized <=> batch[1].u = "J"
  BY <1>2, <1>4
<1>6. QED
  BY <1>1, <1>3, <1>5 DEF Rewritten, Closing

\* The header is forwarded: by then the vault of the turn is shared.
LEMMA RewrittenHeader ==
  ASSUME TypeInv, FlowInv, Shared, Rewritten, ForwardHeader PROVE Rewritten'
<1> DEFINE hd == [u |-> Head(batch).u, turn |-> Head(batch).turn, key |-> None]
<1>0. Middle /\ Pieces(rx, batch, wire, turn)
  BY Zenon DEF FlowInv, Flow
<1>a. rx \in Seq(SeenTo(answered)) /\ batch \in Seq(UnitTo(answered)) /\ answered \in Nat /\ turn \in Nat /\ resp \in RespTo(answered)
  BY StreamTypes, Zenon
<1>1. UNCHANGED Others /\ UNCHANGED exiting /\ upc = "backoff" /\ rx' = rx \o <<hd>>
  BY DEF ForwardHeader, WriteOk
<1>2. resp' = [resp EXCEPT !.key = IF Replace /\ resp.sse THEN vault ELSE None] /\ upc' \in {"body", "read"}
  BY Zenon DEF ForwardHeader
<1>3. (Replace' <=> Replace) /\ UNCHANGED <<mode, turn, keyOf>>
  BY <1>1 DEF Others, clientVars, Replace
<1>4. /\ resp'.sse = resp.sse /\ resp'.sized = resp.sized /\ resp'.header = resp.header
      /\ (Replace /\ resp.sse => resp'.key = vault)
  BY <1>2, <1>a DEF RespTo
<1>5. batch # <<>> /\ Head(batch) = batch[1]
  <2>1. batch # <<>>
    BY <1>1 DEF TypeInv, U2cShape
  <2>2. QED
    BY <1>a, <2>1, TailFacts, Zenon
<1>6. SUFFICES ASSUME Replace PROVE Rewritten'
  BY <1>3, Zenon DEF Rewritten
<1>7. rx = <<>> /\ (resp.sized <=> batch[1].u = "J") /\ resp.header /\ (resp.sse <=> batch[1].u = "H") /\ batch[1].u \in {"H", "J"}
  <2>1. rx = <<>> /\ (resp.sized <=> batch[1].u = "J")
    BY <1>1, <1>6 DEF Rewritten
  <2>2. resp.header /\ (resp.sse <=> batch[1].u = "H")
    BY <1>0, <1>1 DEF Middle
  <2>3. batch[1].u \in {"H", "J"}
    BY <1>0, <1>5, <2>1, Zenon DEF Pieces, Begins, FirstOf
  <2>4. QED
    BY <2>1, <2>2, <2>3
<1>8. rx' = <<hd>> /\ hd.u = batch[1].u
  BY <1>1, <1>5, <1>7
<1> HIDE DEF hd
<1>9. rx' # <<>> /\ LastOf(rx') = batch[1].u /\ Keyed(rx', keyOf[turn])
  <2>1. hd.u # "D"
    BY <1>7, <1>8
  <2>2. <<hd>> # <<>> /\ LastOf(<<hd>>) = hd.u
    BY OneChain, Zenon
  <2>3. Keyed(<<hd>>, keyOf[turn])
    BY <1>a, <2>1, KeyedRuns, Zenon
  <2>4. QED
    BY <1>8, <2>2, <2>3
<1>10. resp.sse => vault = keyOf[turn] /\ vault # None
  <2>1. answered = turn /\ turn > 0
    <3>1. batch[1] \in UnitTo(answered) /\ batch[1].turn = turn
      <4>1. batch[1] \in UnitTo(answered)
        BY <1>5, <1>a, TailFacts, Zenon
      <4>2. OfTurn(batch, turn)
        BY <1>0, Zenon DEF Pieces
      <4>3. batch[1].turn = turn
        BY <1>5, <1>a, <4>2, TailChain, Zenon
      <4>4. QED
        BY <4>1, <4>3
    <3>2. answered = turn
      BY <1>5 DEF FlowInv, Flow
    <3>3. QED
      BY <1>a, <3>1, <3>2 DEF UnitTo
  <2>2. vault = keyOf[turn] /\ vault \in Keys
    BY <1>6, <2>1 DEF Shared
  <2>3. QED
    BY <2>2, NameAssumption DEF Keys
<1>11. QED
  BY <1>1, <1>2, <1>3, <1>4, <1>7, <1>9, <1>10 DEF Rewritten, Closing

\* In replace mode, what is forwarded as it is is the body behind a header with a length.
LEMMA RawBody ==
  ASSUME TypeInv, FlowInv, Rewritten, Replace, RawChunk
  PROVE  /\ upc' = "flush" /\ ~resp.sse /\ LastOf(batch) = "B" /\ Keyed(Raw(batch), keyOf[turn])
         /\ (\A i \in DOMAIN batch : batch[i].u # "D")
<1>0. Pieces(rx, batch, wire, turn)
  BY Zenon DEF FlowInv, Flow
<1>a. rx \in Seq(SeenTo(answered)) /\ batch \in Seq(UnitTo(answered)) /\ answered \in Nat /\ resp.sse \in BOOLEAN
  BY StreamTypes, Zenon
<1>1. upc = "body" /\ ~resp.sse
  BY DEF RawChunk, Rewriting
<1>2. rx # <<>> /\ LastOf(rx) = "J" /\ resp.sized
  BY <1>1 DEF Rewritten
<1>3. batch # <<>>
  BY <1>1 DEF TypeInv, U2cShape
<1>4. batch[1].u = "B" /\ FirstOf(batch) = "B"
  <2>1. Follows("J", FirstOf(batch))
    BY <1>0, <1>2, <1>3, Zenon DEF Pieces, Joined
  <2>2. QED
    BY <2>1 DEF Follows, FirstOf
<1>5. Tail(batch) = <<>>
  <2>1. Chain(batch) /\ FirstOf(batch) \in Final
    BY <1>0, <1>4 DEF Pieces, Final
  <2>2. QED
    BY <1>3, <1>a, <2>1, TailChain, Zenon
<1>6. Len(batch) = 1 /\ DOMAIN batch = 1..1
  <2>1. Len(Tail(batch)) = Len(batch) - 1 /\ Len(batch) \in Nat
    BY <1>3, <1>a, TailFacts, Zenon
  <2>2. Len(batch) = 1
    <3>1. Len(<<>>) = 0
      OBVIOUS
    <3>2. Len(Tail(batch)) = 0
      BY <1>5, <3>1, Zenon
    <3>3. QED
      BY <2>1, <3>2
  <2>3. QED
    BY <1>a, <2>2
<1>7. LastOf(batch) = "B" /\ \A i \in DOMAIN batch : batch[i].u = "B"
  BY <1>4, <1>6 DEF LastOf
<1>8. upc' = "flush"
  <2>1. resp.sized /\ \E i \in DOMAIN batch : batch[i].u = "B"
    BY <1>2, <1>4, <1>6
  <2>2. QED
    BY <2>1, Zenon DEF RawChunk
<1>9. \A i \in DOMAIN batch : batch[i].u # "D"
  BY <1>7
<1>10. Keyed(Raw(batch), keyOf[turn])
  BY <1>9, <1>a, KeyedRuns, Zenon
<1>11. QED
  BY <1>1, <1>7, <1>8, <1>9, <1>10, Zenon

\* An event of a rewritten response is text, and passes through the vault of the turn or is held.
LEMMA DeltaFacts ==
  ASSUME TypeInv, FlowInv, Rewritten, NEW hold \in BOOLEAN, RewriteDelta(hold)
  PROVE  LET texts == held \o <<Head(batch).turn>>
         IN  /\ resp.key = keyOf[turn] /\ resp.key # None /\ resp.sse /\ Replace /\ Head(batch).turn = turn
             /\ upc' \in {"body", "read"} /\ resp.header
             /\ texts \in Seq(1..answered) /\ (\A i \in DOMAIN texts : texts[i] = turn)
             /\ \/ rx' = rx \o Reversed(texts) /\ acc' = Accumulate(texts)
                \/ rx' = rx /\ acc' = acc
<1> DEFINE event == Head(batch)
           texts == held \o <<event.turn>>
<1>0. Middle /\ Pieces(rx, batch, wire, turn)
  BY Zenon DEF FlowInv, Flow
<1>a. /\ rx \in Seq(SeenTo(answered)) /\ batch \in Seq(UnitTo(answered)) /\ answered \in Nat /\ turn \in Nat
      /\ held \in Seq(1..answered)
  BY StreamTypes, Zenon
<1>1. upc = "body" /\ Rewriting /\ batch # <<>>
  BY DEF RewriteDelta
<1>2. upc' \in {"body", "read"}
  BY Zenon DEF RewriteDelta
<1>3. Replace /\ resp.sse
  BY <1>1, Zenon DEF Rewriting
<1>4. resp.key = keyOf[turn] /\ resp.key # None /\ resp.header
  BY <1>1, <1>3 DEF Rewritten
<1>5. \/ rx' = rx \o Reversed(texts) /\ acc' = Accumulate(texts)
      \/ rx' = rx /\ acc' = acc
  BY <1>4 DEF RewriteDelta, WriteOk
<1>6. event \in UnitTo(answered) /\ event = batch[1]
  BY <1>1, <1>a, TailFacts, Zenon
<1>7. event.turn = turn
  <2>1. OfTurn(batch, turn)
    BY <1>0, Zenon DEF Pieces
  <2>2. batch[1].turn = turn
    BY <1>1, <1>a, <2>1, TailChain, Zenon
  <2>3. QED
    BY <1>6, <2>2
<1>8. event.turn \in 1..answered
  BY <1>6 DEF UnitTo
<1>9. \A i \in DOMAIN held : held[i] = turn
  BY <1>0, <1>1 DEF Middle
<1> DEFINE e == event.turn
<1>10. e \in 1..answered /\ e = turn
  BY <1>7, <1>8
<1> HIDE DEF e
<1>11. held \o <<e>> \in Seq(1..answered) /\ \A i \in DOMAIN (held \o <<e>>) : (held \o <<e>>)[i] = turn
  <2>1. held \o <<e>> \in Seq(1..answered) /\ Len(held \o <<e>>) = Len(held) + 1 /\ Len(held) \in Nat
    BY <1>a, <1>10
  <2>2. ASSUME NEW i \in 1..(Len(held) + 1) PROVE (held \o <<e>>)[i] = turn
    BY <1>a, <1>9, <1>10
  <2>3. DOMAIN (held \o <<e>>) = 1..(Len(held) + 1)
    BY <1>a, <2>1
  <2>4. QED
    BY <2>1, <2>2, <2>3
<1>12. QED
  BY <1>2, <1>3, <1>4, <1>5, <1>7, <1>11, Zenon DEF e

\* The body.
LEMMA RewrittenBody ==
  ASSUME TypeInv, FlowInv, Rewritten,
         RawChunk \/ (\E hold \in BOOLEAN : RewriteDelta(hold)) \/ RewriteStop
  PROVE  Rewritten'
<1>a. /\ rx \in Seq(SeenTo(answered)) /\ batch \in Seq(UnitTo(answered)) /\ answered \in Nat /\ held \in Seq(1..answered)
      /\ resp.key \in Keys \cup {None}
  BY StreamTypes, Zenon
<1>1. UNCHANGED Others /\ UNCHANGED <<resp, exiting>> /\ upc = "body"
  BY DEF RawChunk, RewriteDelta, RewriteStop
<1>2. (Replace' <=> Replace) /\ UNCHANGED <<mode, turn, keyOf>>
  BY <1>1 DEF Others, clientVars, Replace
<1>3. SUFFICES ASSUME Replace PROVE Rewritten'
  BY <1>2, Zenon DEF Rewritten
<1>4. Keyed(rx, keyOf[turn])
  BY <1>3 DEF Rewritten
<1>5. ASSUME RawChunk PROVE Rewritten'
  <2>1. upc' = "flush" /\ ~resp.sse /\ LastOf(batch) = "B" /\ Keyed(Raw(batch), keyOf[turn])
    BY <1>3, <1>5, RawBody, Zenon
  <2>2. rx' = rx \o Raw(batch) /\ Raw(batch) \in Seq(SeenTo(answered)) /\ batch # <<>>
    <3>1. rx' = rx \o Raw(batch)
      BY <1>5 DEF RawChunk, WriteOk
    <3>2. batch # <<>>
      BY <1>1 DEF TypeInv, U2cShape
    <3>3. QED
      BY <1>a, <3>1, <3>2, RawFacts, Zenon
  <2>3. LastOf(rx') = "B"
    <3>1. Raw(batch) # <<>> /\ LastOf(Raw(batch)) = "B"
      BY <1>a, <2>1, <2>2, RawChain, Zenon
    <3>2. LastOf(rx \o Raw(batch)) = LastOf(Raw(batch))
      BY <1>a, <2>2, <3>1, ConcatChain, Zenon
    <3>3. QED
      BY <2>2, <3>1, <3>2
  <2>4. Keyed(rx \o Raw(batch), keyOf[turn])
    BY <1>4, <1>a, <2>1, <2>2, KeyedConcat, Zenon
  <2>5. "B" \in Final /\ Keyed(rx', keyOf[turn])
    BY <2>2, <2>4 DEF Final
  <2>6. QED
    BY <1>1, <1>2, <2>1, <2>3, <2>5 DEF Rewritten, Closing
<1>6. ASSUME NEW hold \in BOOLEAN, RewriteDelta(hold) PROVE Rewritten'
  <2> DEFINE texts == held \o <<Head(batch).turn>>
  <2>1. /\ resp.key = keyOf[turn] /\ resp.key # None /\ resp.sse /\ upc' \in {"body", "read"} /\ resp.header
        /\ texts \in Seq(1..answered) /\ (rx' = rx \o Reversed(texts) \/ rx' = rx)
    BY <1>6, DeltaFacts, Zenon
  <2> HIDE DEF texts
  <2>2. Keyed(Reversed(texts), keyOf[turn]) /\ Reversed(texts) \in Seq(SeenTo(answered))
    BY <1>a, <2>1, KeyedRuns, ReversedFacts, Zenon
  <2>3. Keyed(rx \o Reversed(texts), keyOf[turn])
    BY <1>4, <1>a, <2>2, KeyedConcat, Zenon
  <2>4. Keyed(rx', keyOf[turn])
    BY <1>4, <2>1, <2>3, Zenon
  <2>5. QED
    BY <1>1, <1>2, <2>1, <2>4 DEF Rewritten, Closing
<1>7. ASSUME RewriteStop PROVE Rewritten'
  <2>1. rx' = rx \o (Reversed(TailBeforeStop) \o StopEvent) /\ upc' = "flush"
    BY <1>7 DEF RewriteStop, WriteOk
  <2>2. resp.sse
    BY <1>7, Zenon DEF RewriteStop, Rewriting
  <2>3. resp.key = keyOf[turn] /\ resp.key # None
    BY <1>1, <1>3, <2>2 DEF Rewritten
  <2>4. TailBeforeStop \in Seq(1..answered)
    BY <1>a, StopFacts, Zenon
  <2>5. Keyed(Reversed(TailBeforeStop), keyOf[turn]) /\ Reversed(TailBeforeStop) \in Seq(SeenTo(answered))
    BY <1>a, <2>3, <2>4, KeyedRuns, ReversedFacts, Zenon
  <2>6. Keyed(StopEvent, keyOf[turn]) /\ StopEvent \in Seq(SeenTo(answered))
    <3>1. StopEvent \in Seq(SeenTo(answered))
      BY <2>2, OwnUnit DEF StopEvent
    <3> DEFINE e == [u |-> "S", turn |-> resp.turn, key |-> None]
    <3>2. e.u # "D"
      OBVIOUS
    <3> HIDE DEF e
    <3>3. Keyed(<<e>>, keyOf[turn])
      BY <1>a, <3>2, KeyedRuns, Zenon
    <3>4. QED
      BY <3>1, <3>3, Zenon DEF StopEvent, e
  <2> DEFINE y == Reversed(TailBeforeStop) \o StopEvent
  <2>7. Keyed(y, keyOf[turn]) /\ y \in Seq(SeenTo(answered))
    <3>1. y \in Seq(SeenTo(answered))
      BY <2>5, <2>6, ConcatChain, Zenon
    <3>2. QED
      BY <2>5, <2>6, <3>1, KeyedConcat, Zenon
  <2> HIDE DEF y
  <2>8. Keyed(rx \o y, keyOf[turn])
    BY <1>4, <1>a, <2>7, KeyedConcat, Zenon
  <2>9. Keyed(rx', keyOf[turn])
    BY <2>1, <2>8, Zenon DEF y
  <2>10. QED
    BY <1>1, <1>2, <2>1, <2>2, <2>3, <2>9 DEF Rewritten, Closing
<1>8. QED
  BY <1>5, <1>6, <1>7, Zenon

\* The end of a response.
LEMMA RewrittenEnd ==
  ASSUME TypeInv, FlowInv, Scope, Rewritten,
         FlushRepBuf \/ FinalizeResponse \/ StoreResponse \/ SaveVault \/ AfterResponse
  PROVE  Rewritten'
<1>a. /\ rx \in Seq(SeenTo(answered)) /\ answered \in Nat /\ held \in Seq(1..answered) /\ resp.key \in Keys \cup {None}
      /\ resp.sse \in BOOLEAN
  BY StreamTypes, Zenon
<1>1. UNCHANGED Others /\ UNCHANGED exiting
  BY DEF FlushRepBuf, FinalizeResponse, StoreResponse, SaveVault, AfterResponse
<1>2. (Replace' <=> Replace) /\ UNCHANGED <<mode, turn, keyOf>>
  BY <1>1 DEF Others, clientVars, Replace
<1>3. SUFFICES ASSUME Replace PROVE Rewritten'
  BY <1>2, Zenon DEF Rewritten
<1>4. Keyed(rx, keyOf[turn])
  BY <1>3 DEF Rewritten
<1>5. ASSUME FlushRepBuf PROVE Rewritten'
  <2>1. upc = "flush" /\ upc' = "finalize" /\ UNCHANGED <<resp, batch>>
    BY <1>5 DEF FlushRepBuf
  <2>2. rx' = rx \o Reversed(held)
    BY <1>5, Zenon DEF FlushRepBuf, WriteOk, Scope
  <2>3. held # <<>> => resp.sse /\ resp.key = keyOf[turn] /\ resp.key # None
    BY <1>3, <2>1 DEF FlowInv, Middle, Rewriting, Rewritten
  <2>4. Keyed(Reversed(held), keyOf[turn]) /\ Reversed(held) \in Seq(SeenTo(answered)) /\ (held = <<>> => Reversed(held) = <<>>)
    BY <1>a, <2>3, KeyedRuns, ReversedChain, Zenon
  <2>5. Keyed(rx \o Reversed(held), keyOf[turn])
    BY <1>4, <1>a, <2>4, KeyedConcat, Zenon
  <2>6. held = <<>> => rx' = rx
    <3>1. Reversed(held) = <<>> => rx \o Reversed(held) = rx
      BY <1>a, <2>4, ConcatChain, Zenon
    <3>2. QED
      BY <2>2, <2>4, <3>1
  <2>7. Keyed(rx', keyOf[turn])
    BY <2>2, <2>5
  <2>8. QED
    BY <1>1, <1>2, <1>3, <2>1, <2>3, <2>6, <2>7 DEF Rewritten, Closing
<1>6. ASSUME FinalizeResponse \/ StoreResponse \/ SaveVault PROVE Rewritten'
  <2>1. UNCHANGED <<rx, batch, resp>> /\ upc \in {"finalize", "store", "save"}
    BY <1>6 DEF FinalizeResponse, StoreResponse, SaveVault
  <2>2. upc' \in {"store", "save", "after"}
    BY <1>6, Zenon DEF FinalizeResponse, StoreResponse, SaveVault
  <2>3. QED
    BY <1>1, <1>2, <1>3, <2>1, <2>2 DEF Rewritten, Closing
<1>7. ASSUME AfterResponse PROVE Rewritten'
  <2>1. upc = "after" /\ UNCHANGED batch
    BY <1>7 DEF AfterResponse
  <2>2. \/ exiting /\ upc' = "done" /\ rx' = rx /\ resp' = resp
        \/ ~exiting /\ upc' = "read" /\ rx' = rx \o LastChunk /\ resp' = Reset
    BY <1>7 DEF AfterResponse, WriteOk
  <2>3. CASE exiting /\ upc' = "done" /\ rx' = rx /\ resp' = resp
    BY <1>1, <1>2, <1>3, <2>1, <2>3 DEF Rewritten, Closing
  <2>4. CASE ~exiting /\ upc' = "read" /\ rx' = rx \o LastChunk /\ resp' = Reset
    <3>1. ~resp'.sse /\ ~resp'.header
      <4>1. ~Reset.sse /\ ~Reset.header
        BY DEF Reset
      <4>2. QED
        BY <2>4, <4>1
    <3>2. (rx' = <<>> \/ LastOf(rx') \in Final) /\ Keyed(rx', keyOf[turn])
      <4>1. CASE resp.sse
        <5> DEFINE e == [u |-> "Z", turn |-> resp.turn, key |-> None]
        <5>1. LastChunk = <<e>> /\ e.u = "Z"
          BY <1>3, <4>1 DEF LastChunk, Rewriting
        <5>2. <<e>> \in Seq(SeenTo(answered)) /\ <<e>> # <<>> /\ LastOf(<<e>>) = "Z"
          BY <4>1, OwnUnit
        <5> HIDE DEF e
        <5>3. Keyed(<<e>>, keyOf[turn])
          <6>1. e.u # "D"
            BY <5>1
          <6>2. QED
            BY <1>a, <6>1, KeyedRuns, Zenon
        <5>4. Keyed(rx \o <<e>>, keyOf[turn]) /\ LastOf(rx \o <<e>>) = LastOf(<<e>>)
          BY <1>4, <1>a, <5>2, <5>3, KeyedConcat, ConcatChain, Zenon
        <5>5. "Z" \in Final
          BY DEF Final
        <5>6. QED
          BY <2>4, <5>1, <5>2, <5>4, <5>5
      <4>2. CASE ~resp.sse
        <5>1. rx' = rx \o <<>>
          BY <2>4, <4>2 DEF LastChunk, Rewriting
        <5>2. rx' = rx
          BY <1>a, <5>1
        <5>3. Closing
          BY <2>1, <2>4 DEF Closing
        <5>4. QED
          BY <1>3, <1>4, <4>2, <5>2, <5>3 DEF Rewritten
      <4>3. QED
        BY <4>1, <4>2
    <3>3. QED
      BY <1>2, <2>4, <3>1, <3>2 DEF Rewritten, Closing
  <2>5. QED
    BY <2>2, <2>3, <2>4, Zenon
<1>8. QED
  BY <1>5, <1>6, <1>7, Zenon

\* Any step.
LEMMA RewrittenStep ==
  ASSUME TypeInv, FlowInv, Scope, Shared, Rewritten, [Next]_vars PROVE Rewritten'
<1>1. ASSUME UNCHANGED vars \/ SendPart \/ ClientClose \/ (\E reset \in BOOLEAN : UpstreamClose(reset)) PROVE Rewritten'
  <2>1. UNCHANGED <<mode, turn, rx, batch, resp, upc, exiting, keyOf>>
    BY <1>1 DEF vars, clientVars, u2cVars, SendPart, ClientClose, UpstreamClose
  <2>2. QED
    BY <2>1, RewrittenSame, Zenon
<1>2. ASSUME U2c PROVE Rewritten'
  BY <1>2, RewrittenReads, RewrittenParses, RewrittenHeader, RewrittenBody, RewrittenEnd, Zenon DEF U2c
<1>3. QED
  BY <1>1, <1>2, RewrittenBegins, RewrittenC2u, Zenon DEF Next, Environment, Over

\* The conversation, the vault and the text of a turn agree from the first state on.
LEMMA RewrittenInit ==
  ASSUME Init PROVE Shared /\ Rewritten
<1>1. rx = <<>> /\ turn = 0 /\ upc = "read" /\ cpc = "read" /\ ~exiting /\ resp = Reset
  BY DEF Init
<1>2. Shared
  BY <1>1 DEF Shared
<1>3. Keyed(<<>>, keyOf[turn])
  BY KeyedRuns, Zenon
<1>4. ~resp.sse /\ ~resp.header
  BY <1>1 DEF Reset
<1>5. Rewritten
  BY <1>1, <1>3, <1>4 DEF Rewritten, Closing
<1>6. QED
  BY <1>2, <1>5, Zenon

\* The vault u2c finds shared is the one of the turn it answers.
THEOREM RewrittenInvariant == Scope /\ Spec => [](TypeInv /\ FlowInv /\ Shared /\ Rewritten)
<1>1. Init => Shared /\ Rewritten
  BY RewrittenInit, Zenon
<1>2. Scope /\ TypeInv /\ FlowInv /\ Shared /\ Rewritten /\ [Next]_vars => Shared' /\ Rewritten'
  BY SharedStep, RewrittenStep, Zenon
<1>3. SUFFICES ASSUME Scope PROVE Spec => [](TypeInv /\ FlowInv /\ Shared /\ Rewritten)
  BY Zenon
<1>4. QED
  BY <1>1, <1>2, <1>3, FlowInvariant, PTL DEF Spec

\* In replace mode every piece of text reaches the client through the vault its own request was
\* processed with: c2u shares the vault before it forwards, and does not touch it again before the
\* client has the whole response.
THEOREM TextReversedAlways == Scope /\ Spec => []TextReversed
<1>1. TypeInv /\ FlowInv /\ Shared /\ Rewritten => TextReversed
  <2> SUFFICES ASSUME TypeInv, FlowInv, Rewritten, Replace, NEW i \in DOMAIN rx, rx[i].u = "D"
               PROVE  rx[i].key = keyOf[rx[i].turn] /\ rx[i].key # None
    BY Zenon DEF TextReversed
  <2>1. rx[i].turn = turn
    BY Zenon DEF FlowInv, Flow, Pieces, OfTurn
  <2>2. rx[i].key = keyOf[turn] /\ keyOf[turn] # None
    BY Zenon DEF Rewritten, Keyed
  <2>3. QED
    BY <2>1, <2>2
<1>2. QED
  BY <1>1, RewrittenInvariant, PTL
-----------------------------------------------------------------------------
(* What is stored of a response *)

\* The text of q behind that of p.
TextsApart(p, q) == Texts(p \o q) = Texts(p) \o Texts(q)

\* The text of two runs.
LEMMA TextsConcat ==
  ASSUME NEW a \in Nat, NEW p \in Seq(SeenTo(a)), NEW q \in Seq(SeenTo(a))
  PROVE  TextsApart(p, q)
<1> DEFINE s  == p \o q
           m  == Len(p)
           n  == Len(q)
           fp == [i \in DOMAIN p |-> p[i].turn]
           fq == [i \in DOMAIN q |-> q[i].turn]
           fs == [i \in DOMAIN s |-> s[i].turn]
           Ip == {i \in DOMAIN p : p[i].u = "D"}
           Iq == {i \in DOMAIN q : q[i].u = "D"}
           Is == {i \in DOMAIN s : s[i].u = "D"}
           J  == {i \in DOMAIN fq : Len(fp) + i \in Is}
<1>1. /\ m \in Nat /\ n \in Nat /\ s \in Seq(SeenTo(a)) /\ Len(s) = m + n
      /\ \A i \in 1..m : s[i] = p[i]
      /\ \A i \in 1..n : s[m + i] = q[i]
      /\ DOMAIN p = 1..m /\ DOMAIN q = 1..n /\ DOMAIN s = 1..(m + n)
      /\ \A i \in 1..m : p[i] \in SeenTo(a)
      /\ \A i \in 1..n : q[i] \in SeenTo(a)
      /\ \A i \in 1..(m + n) : s[i] \in SeenTo(a)
  OBVIOUS
<1> HIDE DEF s, m, n
<1>2. \A x \in SeenTo(a) : x.turn \in 1..a
  BY DEF SeenTo
<1>3. /\ fp \in Seq(1..a) /\ Len(fp) = m /\ DOMAIN fp = 1..m /\ \A i \in 1..m : fp[i] = p[i].turn
  <2>1. fp = [i \in 1..m |-> p[i].turn] /\ fp \in [1..m -> 1..a]
    BY <1>1, <1>2
  <2>2. fp \in Seq(1..a)
    BY <1>1, <2>1, SeqDef, SMTT(60)
  <2>3. QED
    BY <1>1, <2>1, <2>2
<1>4. /\ fq \in Seq(1..a) /\ Len(fq) = n /\ DOMAIN fq = 1..n /\ \A i \in 1..n : fq[i] = q[i].turn
  <2>1. fq = [i \in 1..n |-> q[i].turn] /\ fq \in [1..n -> 1..a]
    BY <1>1, <1>2
  <2>2. fq \in Seq(1..a)
    BY <1>1, <2>1, SeqDef, SMTT(60)
  <2>3. QED
    BY <1>1, <2>1, <2>2
<1>5. /\ fs \in Seq(1..a) /\ Len(fs) = m + n /\ DOMAIN fs = 1..(m + n) /\ \A i \in 1..(m + n) : fs[i] = s[i].turn
  <2>1. fs = [i \in 1..(m + n) |-> s[i].turn] /\ fs \in [1..(m + n) -> 1..a]
    BY <1>1, <1>2
  <2>2. fs \in Seq(1..a)
    BY <1>1, <2>1, SeqDef, SMTT(60)
  <2>3. QED
    BY <1>1, <2>1, <2>2
<1>6. /\ \A i \in DOMAIN fp : i \in Is <=> i \in Ip
      /\ \A i \in DOMAIN fq : i \in J <=> i \in Iq
  <2>1. ASSUME NEW i \in 1..m PROVE i \in Is <=> i \in Ip
    BY <1>1
  <2>2. ASSUME NEW i \in 1..n PROVE i \in J <=> i \in Iq
    <3>1. m + i \in 1..(m + n) /\ s[m + i] = q[i]
      BY <1>1
    <3>2. QED
      BY <1>1, <1>3, <1>4, <3>1
  <2>3. QED
    BY <1>3, <1>4, <2>1, <2>2
<1>7. fs = fp \o fq
  <2>1. fp \o fq \in Seq(1..a) /\ Len(fp \o fq) = m + n
    BY <1>1, <1>3, <1>4
  <2> HIDE DEF fp, fq, fs
  <2>2. ASSUME NEW i \in 1..(m + n) PROVE (fp \o fq)[i] = fs[i]
    <3>1. CASE i <= m
      <4>1. (fp \o fq)[i] = fp[i]
        BY <1>1, <1>3, <1>4, <3>1
      <4>2. fp[i] = p[i].turn /\ fs[i] = s[i].turn /\ s[i] = p[i]
        BY <1>1, <1>3, <1>5, <3>1
      <4>3. QED
        BY <4>1, <4>2
    <3>2. CASE i > m
      <4>0. i - m \in 1..n /\ m + (i - m) = i
        BY <1>1, <3>2
      <4>1. (fp \o fq)[i] = fq[i - m]
        BY <1>1, <1>3, <1>4, <3>2, <4>0
      <4>2. fq[i - m] = q[i - m].turn /\ fs[i] = s[i].turn
        BY <1>4, <1>5, <4>0
      <4>3. s[m + (i - m)] = q[i - m]
        BY <1>1, <4>0, Zenon
      <4>4. QED
        BY <4>0, <4>1, <4>2, <4>3
    <3>3. i <= m \/ i > m
      BY <1>1
    <3>4. QED
      BY <3>1, <3>2, <3>3, Zenon
  <2>3. QED
    BY <1>5, <2>1, <2>2, SeqEqual
<1>8. PicksApart(fp, fq, Is)
  BY <1>3, <1>4, PickedConcat, Zenon
<1>9. Picked(fp, Is) = Picked(fp, Ip) /\ Picked(fq, J) = Picked(fq, Iq)
  <2>1. fp \in Seq(1..a) /\ fq \in Seq(1..a)
    BY <1>3, <1>4
  <2> HIDE DEF fp, fq, Is, Ip, J, Iq
  <2>2. QED
    BY <1>6, <2>1, PickedSame, Zenon
<1>10. Picked(fp \o fq, Is) = Picked(fp, Is) \o Picked(fq, J)
  BY <1>8, Zenon DEF PicksApart
<1> HIDE DEF fp, fq, Is, Ip, J, Iq, fs
<1>11. Picked(fs, Is) = Picked(fp, Ip) \o Picked(fq, Iq)
  BY <1>7, <1>9, <1>10
<1>12. Texts(s) = Picked(fs, Is) /\ Texts(p) = Picked(fp, Ip) /\ Texts(q) = Picked(fq, Iq)
  BY Zenon DEF Texts, fp, fq, fs, Is, Ip, Iq
<1>13. QED
  BY <1>11, <1>12, Zenon DEF TextsApart, s

\* A run without text.
LEMMA TextsNone ==
  ASSUME NEW a \in Nat, NEW q \in Seq(SeenTo(a)), \A i \in DOMAIN q : q[i].u # "D"
  PROVE  Texts(q) = <<>>
<1> DEFINE f == [i \in DOMAIN q |-> q[i].turn]
           I == {i \in DOMAIN q : q[i].u = "D"}
<1>1. Len(q) \in Nat /\ DOMAIN q = 1..Len(q) /\ \A i \in 1..Len(q) : q[i] \in SeenTo(a)
  OBVIOUS
<1>2. f \in Seq(1..a)
  <2>1. \A x \in SeenTo(a) : x.turn \in 1..a
    BY DEF SeenTo
  <2>2. f \in [1..Len(q) -> 1..a]
    BY <1>1, <2>1
  <2>3. QED
    BY <1>1, <2>2, SeqDef, SMTT(60)
<1>3. DOMAIN f \cap I = {}
  OBVIOUS
<1> HIDE DEF f, I
<1>4. Picked(f, I) = <<>>
  BY <1>2, <1>3, PickedNone, Zenon
<1>5. QED
  BY <1>4, Zenon DEF Texts, f, I

\* The text of reversed text.
LEMMA TextsReversed ==
  ASSUME NEW a \in Nat, NEW texts \in Seq(1..a), resp.key \in Keys \cup {None}
  PROVE  Texts(Reversed(texts)) = texts
<1> DEFINE q == Reversed(texts)
           f == [i \in DOMAIN q |-> q[i].turn]
           I == {i \in DOMAIN q : q[i].u = "D"}
<1>1. q \in Seq(SeenTo(a)) /\ Len(q) = Len(texts) /\ \A i \in 1..Len(texts) : q[i].u = "D" /\ q[i].turn = texts[i]
  BY ReversedFacts, Zenon
<1>2. Len(texts) \in Nat /\ DOMAIN q = 1..Len(texts) /\ DOMAIN texts = 1..Len(texts) /\ texts = [i \in 1..Len(texts) |-> texts[i]]
  BY <1>1
<1> HIDE DEF q
<1>3. f = texts
  BY <1>1, <1>2
<1>4. DOMAIN texts \subseteq I
  BY <1>1, <1>2
<1> HIDE DEF f, I
<1>5. Picked(texts, I) = texts
  BY <1>4, PickedAll, Zenon
<1>6. Picked(f, I) = texts
  BY <1>3, <1>5, Zenon
<1>7. QED
  BY <1>6, Zenon DEF Texts, q, f, I

\* What is accumulated covers the text that has been sent.
LEMMA CoversMore ==
  ASSUME NEW a \in Nat, acc \in Seq(1..a), NEW T \in Seq(1..a), NEW x \in Seq(1..a), Covers(acc, T)
  PROVE  Covers(Accumulate(x), T \o x)
<1>1. CASE ~Full
  <2>1. acc = T
    BY <1>1 DEF Covers, Full
  <2>2. Accumulate(x) = T \o x
    BY <1>1, <2>1 DEF Accumulate
  <2>3. QED
    BY <2>2 DEF Covers
<1>2. CASE Full
  <2>1. Accumulate(x) = acc /\ Len(acc) > MaxBuffer
    BY <1>2 DEF Accumulate, Full
  <2>2. Len(acc) \in Nat /\ Len(acc) <= Len(T) /\ Len(T) \in Nat /\ \A i \in 1..Len(acc) : acc[i] = T[i]
    <3>1. CASE acc = T
      BY <3>1
    <3>2. CASE IsPrefix(acc, T)
      <4>1. Len(acc) <= Len(T) /\ SubSeq(acc, 1, Len(acc)) = SubSeq(T, 1, Len(acc))
        BY <3>2 DEF IsPrefix
      <4>2. \A i \in 1..Len(acc) : SubSeq(acc, 1, Len(acc))[i] = acc[i] /\ SubSeq(T, 1, Len(acc))[i] = T[i]
        BY <4>1
      <4>3. QED
        BY <4>1, <4>2
    <3>3. QED
      BY <3>1, <3>2 DEF Covers
  <2>3. T \o x \in Seq(1..a) /\ Len(acc) <= Len(T \o x) /\ \A i \in 1..Len(acc) : acc[i] = (T \o x)[i]
    BY <2>2
  <2> DEFINE y == T \o x
  <2> HIDE DEF y
  <2>4. y \in Seq(1..a) /\ Len(acc) <= Len(y) /\ \A i \in 1..Len(acc) : acc[i] = y[i]
    BY <2>3, Zenon DEF y
  <2>5. SubSeq(acc, 1, Len(acc)) = SubSeq(y, 1, Len(acc))
    BY <2>2, <2>4
  <2>6. IsPrefix(acc, y)
    BY <2>4, <2>5 DEF IsPrefix
  <2>7. Covers(acc, y)
    BY <2>1, <2>6 DEF Covers
  <2>8. QED
    BY <2>1, <2>7, Zenon DEF y
<1>3. QED
  BY <1>1, <1>2, Zenon
\* A step of c2u changes the conversation only before it has forwarded the request: nothing of the
\* response is there yet, and none is being rewritten.
LEMMA ConversationSettled ==
  ASSUME TypeInv, FlowInv, Replace, C2u, convId' # convId
  PROVE  rx = <<>> /\ ~(Rewriting /\ (upc \in {"read", "body"} \/ InTail))
<1>1. PhaseA \/ Log
  BY DEF C2u, ReadClient, StopReading, ShareVault, CheckGone, Forward, ForwardFails
<1>2. cpc \in {"phaseA", "log"}
  BY <1>1 DEF PhaseA, Log, FindConversation
<1>3. cpc = "phaseA"
  BY <1>2 DEF TypeInv, Parts, Replace
<1>4. answered # turn
  <2>1. answered = turn - 1 /\ turn \in Nat
    BY <1>3, StreamTypes DEF TypeInv, Parts
  <2>2. QED
    BY <2>1
<1>5. rx = <<>>
  BY <1>4 DEF FlowInv, Flow
<1>6. ~(Rewriting /\ (upc \in {"read", "body"} \/ InTail))
  BY <1>5, StreamTypes DEF FlowInv, Middle, Closing, InTail
<1>7. QED
  BY <1>5, <1>6, Zenon

\* Elements of what is accumulated come from before or from the new text.
LEMMA AccumulateTurn ==
  ASSUME NEW a \in Nat, acc \in Seq(1..a), NEW x \in Seq(1..a), NEW t,
         \A i \in DOMAIN acc : acc[i] = t, \A i \in DOMAIN x : x[i] = t
  PROVE  \A i \in DOMAIN Accumulate(x) : Accumulate(x)[i] = t
<1> DEFINE m == Len(acc)
           n == Len(x)
           s == acc \o x
<1>1. /\ m \in Nat /\ n \in Nat /\ s \in Seq(1..a) /\ Len(s) = m + n
      /\ \A i \in 1..m : s[i] = acc[i]
      /\ \A i \in 1..n : s[m + i] = x[i]
      /\ DOMAIN acc = 1..m /\ DOMAIN x = 1..n /\ DOMAIN s = 1..Len(s)
  OBVIOUS
<1> HIDE DEF m, n, s
<1>2. ASSUME NEW i \in DOMAIN s PROVE s[i] = t
  <2>1. CASE i <= m
    BY <1>1, <2>1
  <2>2. CASE i > m
    <3>1. i - m \in 1..n /\ m + (i - m) = i
      BY <1>1, <2>2
    <3>2. s[m + (i - m)] = x[i - m]
      BY <1>1, <3>1, Zenon
    <3>3. QED
      BY <1>1, <3>1, <3>2
  <2>3. i <= m \/ i > m
    BY <1>1
  <2>4. QED
    BY <2>1, <2>2, <2>3, Zenon
<1>3. Accumulate(x) = acc \/ Accumulate(x) = s
  BY Zenon DEF Accumulate, s
<1>4. QED
  BY <1>2, <1>3

\* Steps that leave u2c, the request and the conversation alone.
LEMMA PendingSame ==
  ASSUME Pending, UNCHANGED <<mode, turn, acc, resp, upc, fin, convId>> PROVE Pending'
  BY DEF Pending, Replace

\* The next request begins with nothing accumulated.
LEMMA PendingBegins ==
  ASSUME TypeInv, FlowInv, Pending, NEW c \in Convs \cup {None}, NEW bare \in BOOLEAN, BeginRequest(c, bare)
  PROVE  Pending'
<1>1. UNCHANGED <<mode, upc, resp, acc, fin, convId>>
  BY DEF BeginRequest, u2cVars
<1>2. ~(Rewriting /\ (upc \in {"read", "body"} \/ InTail))
  BY BeginsClean, Zenon
<1>3. upc \in {"read", "body", "parse", "backoff", "done"} \/ InTail
  BY DEF TypeInv, U2cTypes, InTail
<1>4. Replace => upc = "done" \/ acc = <<>>
  BY <1>2, <1>3, StreamTypes DEF Pending, Rewriting, FlowInv, Middle
<1>5. QED
  BY <1>1, <1>4, EmptyChain DEF Pending, Replace

\* c2u does not change the conversation of a response that is being stored.
LEMMA PendingC2u ==
  ASSUME TypeInv, FlowInv, Pending, C2u PROVE Pending'
<1>1. UNCHANGED clientVars /\ UNCHANGED u2cVars
  BY DEF C2u, ReadClient, StopReading, PhaseA, Log, FindConversation, ShareVault, CheckGone, Forward, ForwardFails
<1>2. UNCHANGED <<mode, turn, acc, resp, upc, fin>>
  BY <1>1 DEF clientVars, u2cVars
<1>3. Replace /\ convId' # convId => upc \notin {"store", "save"}
  BY ConversationSettled DEF Pending, Rewriting, InTail
<1>4. QED
  BY <1>2, <1>3 DEF Pending, Replace

\* The head of a response and reads.
LEMMA PendingReads ==
  ASSUME TypeInv, FlowInv, Pending,
         \/ \E n \in 1..Len(wire) : ReadUpstream(n)
         \/ UpstreamLost \/ SeeShutdown \/ WriteFails \/ (\E close \in BOOLEAN : ParseHeader(close)) \/ ForwardHeader
  PROVE  Pending'
<1>1. UNCHANGED Others /\ UNCHANGED <<acc, fin>>
  BY DEF ReadUpstream, UpstreamLost, SeeShutdown, WriteFails, ParseHeader, ForwardHeader
<1>2. (Replace' <=> Replace) /\ UNCHANGED <<turn, convId>>
  BY <1>1 DEF Others, clientVars, Replace
<1>3. SUFFICES ASSUME Replace PROVE Pending'
  BY <1>2, Zenon DEF Pending
<1>4. ASSUME (\E n \in 1..Len(wire) : ReadUpstream(n)) \/ UpstreamLost \/ SeeShutdown PROVE Pending'
  <2>1. upc = "read" /\ UNCHANGED resp
    BY <1>4 DEF ReadUpstream, UpstreamLost, SeeShutdown
  <2>2. upc' \in {"body", "parse", "flush"}
    BY <1>4, Zenon DEF ReadUpstream, UpstreamLost, SeeShutdown
  <2>3. QED
    BY <1>1, <1>2, <1>3, <2>1, <2>2 DEF Pending
<1>5. ASSUME WriteFails PROVE Pending'
  BY <1>5 DEF WriteFails, Pending
<1>6. ASSUME NEW close \in BOOLEAN, ParseHeader(close) PROVE Pending'
  <2>1. upc = "parse" /\ upc' = "backoff"
    BY <1>6 DEF ParseHeader
  <2>2. ~resp.sse
    BY <2>1, StreamTypes DEF FlowInv, Middle
  <2>3. acc = <<>>
    BY <1>3, <2>1, <2>2 DEF Pending
  <2>4. QED
    BY <1>1, <2>1, <2>3, EmptyChain DEF Pending
<1>7. ASSUME ForwardHeader PROVE Pending'
  <2>1. upc = "backoff"
    BY <1>7 DEF ForwardHeader
  <2>2. upc' \in {"body", "read"}
    BY <1>7, Zenon DEF ForwardHeader
  <2>3. acc = <<>>
    BY <1>3, <2>1 DEF Pending
  <2>4. QED
    BY <1>1, <2>2, <2>3, EmptyChain DEF Pending
<1>8. QED
  BY <1>4, <1>5, <1>6, <1>7, Zenon

\* The body.
LEMMA PendingBody ==
  ASSUME TypeInv, FlowInv, Scope, Rewritten, Pending,
         RawChunk \/ (\E hold \in BOOLEAN : RewriteDelta(hold)) \/ RewriteStop
  PROVE  Pending'
<1>a. answered \in Nat /\ held \in Seq(1..answered) /\ acc \in Seq(1..answered) /\ resp.sse \in BOOLEAN
  BY StreamTypes, Zenon
<1>1. UNCHANGED Others /\ UNCHANGED <<resp, fin>> /\ upc = "body"
  BY DEF RawChunk, RewriteDelta, RewriteStop
<1>2. (Replace' <=> Replace) /\ UNCHANGED <<turn, convId>>
  BY <1>1 DEF Others, clientVars, Replace
<1>3. SUFFICES ASSUME Replace PROVE Pending'
  BY <1>2, Zenon DEF Pending
<1>4. \A i \in DOMAIN acc : acc[i] = turn
  BY <1>1, <1>3 DEF Pending
<1>5. ASSUME RawChunk PROVE Pending'
  <2>1. upc' = "flush" /\ ~resp.sse
    BY <1>3, <1>5, RawBody, Zenon
  <2>2. acc' = acc
    BY <1>5, <2>1, Zenon DEF RawChunk
  <2>3. QED
    BY <1>1, <1>2, <1>3, <2>1, <2>2 DEF Pending
<1>6. ASSUME NEW hold \in BOOLEAN, RewriteDelta(hold) PROVE Pending'
  <2> DEFINE texts == held \o <<Head(batch).turn>>
  <2>1. /\ resp.sse /\ upc' \in {"body", "read"} /\ texts \in Seq(1..answered) /\ (\A i \in DOMAIN texts : texts[i] = turn)
        /\ (acc' = Accumulate(texts) \/ acc' = acc)
    BY <1>6, DeltaFacts, Zenon
  <2> HIDE DEF texts
  <2>2. \A i \in DOMAIN Accumulate(texts) : Accumulate(texts)[i] = turn
    BY <1>4, <1>a, <2>1, AccumulateTurn, Zenon
  <2>3. \A i \in DOMAIN acc' : acc'[i] = turn'
    BY <1>2, <1>4, <2>1, <2>2
  <2>4. QED
    BY <1>1, <2>1, <2>3 DEF Pending
<1>7. ASSUME RewriteStop PROVE Pending'
  <2>1. acc' = Accumulate(TailBeforeStop) /\ upc' = "flush" /\ Rewriting
    BY <1>7 DEF RewriteStop
  <2>2. TailBeforeStop = held
    <3>1. Provider = "anthropic"
      BY <1>3 DEF Scope, Replace, TypeInv, ClientTypes
    <3>2. QED
      BY <3>1 DEF TailBeforeStop
  <2>3. \A i \in DOMAIN held : held[i] = turn
    BY <1>1 DEF FlowInv, Middle
  <2>4. \A i \in DOMAIN Accumulate(held) : Accumulate(held)[i] = turn
    BY <1>4, <1>a, <2>3, AccumulateTurn, Zenon
  <2>5. resp.sse
    BY <2>1, Zenon DEF Rewriting
  <2>6. QED
    BY <1>1, <1>2, <2>1, <2>2, <2>4, <2>5 DEF Pending
<1>8. QED
  BY <1>5, <1>6, <1>7, Zenon

\* The end of a response.
LEMMA PendingEnd ==
  ASSUME TypeInv, FlowInv, Pending,
         FlushRepBuf \/ FinalizeResponse \/ StoreResponse \/ SaveVault \/ AfterResponse
  PROVE  Pending'
<1>a. answered \in Nat /\ held \in Seq(1..answered) /\ acc \in Seq(1..answered) /\ resp.sse \in BOOLEAN
  BY StreamTypes, Zenon
<1>1. UNCHANGED Others
  BY DEF FlushRepBuf, FinalizeResponse, StoreResponse, SaveVault, AfterResponse
<1>2. (Replace' <=> Replace) /\ UNCHANGED <<turn, convId>>
  BY <1>1 DEF Others, clientVars, Replace
<1>3. SUFFICES ASSUME Replace PROVE Pending'
  BY <1>2, Zenon DEF Pending
<1>4. ASSUME FlushRepBuf PROVE Pending'
  <2>1. upc = "flush" /\ upc' = "finalize" /\ UNCHANGED resp /\ acc' = Accumulate(held)
    BY <1>4 DEF FlushRepBuf
  <2>2. (\A i \in DOMAIN acc : acc[i] = turn) /\ (\A i \in DOMAIN held : held[i] = turn) /\ (~resp.sse => acc = <<>> /\ held = <<>>)
    BY <1>3, <2>1 DEF Pending, FlowInv, Middle, Rewriting
  <2>3. \A i \in DOMAIN Accumulate(held) : Accumulate(held)[i] = turn
    BY <1>a, <2>2, AccumulateTurn, Zenon
  <2>4. ~resp.sse => Accumulate(held) = <<>>
    <3>1. <<>> \o <<>> = <<>>
      OBVIOUS
    <3>2. QED
      BY <2>2, <3>1, Zenon DEF Accumulate
  <2>5. QED
    BY <1>2, <2>1, <2>3, <2>4 DEF Pending
<1>5. ASSUME FinalizeResponse PROVE Pending'
  <2>1. upc = "finalize" /\ fin' = convId /\ UNCHANGED <<resp, acc>>
    BY <1>5 DEF FinalizeResponse
  <2>2. upc' = "after" \/ (upc' = "store" /\ acc # <<>>)
    BY <1>5, Zenon DEF FinalizeResponse
  <2>3. QED
    BY <1>2, <1>3, <2>1, <2>2 DEF Pending
<1>6. ASSUME StoreResponse PROVE Pending'
  <2>1. upc = "store" /\ UNCHANGED <<resp, fin>> /\ acc' = <<>>
    BY <1>6 DEF StoreResponse
  <2>2. upc' = "save"
    BY <1>3, <1>6, Zenon DEF StoreResponse
  <2>3. QED
    BY <1>2, <1>3, <2>1, <2>2, EmptyChain DEF Pending
<1>7. ASSUME SaveVault PROVE Pending'
  <2>1. upc = "save" /\ upc' = "after" /\ UNCHANGED <<resp, acc>>
    BY <1>7 DEF SaveVault
  <2>2. QED
    BY <1>2, <1>3, <2>1 DEF Pending
<1>8. ASSUME AfterResponse PROVE Pending'
  <2>1. upc' = "done" \/ (upc' = "read" /\ acc' = <<>>)
    BY <1>8 DEF AfterResponse
  <2>2. QED
    BY <2>1, EmptyChain DEF Pending
<1>9. QED
  BY <1>4, <1>5, <1>6, <1>7, <1>8, Zenon

\* Any step.
LEMMA PendingStep ==
  ASSUME TypeInv, FlowInv, Scope, Rewritten, Pending, [Next]_vars PROVE Pending'
<1>1. ASSUME UNCHANGED vars \/ SendPart \/ ClientClose \/ (\E reset \in BOOLEAN : UpstreamClose(reset)) PROVE Pending'
  <2>1. UNCHANGED <<mode, turn, acc, resp, upc, fin, convId>>
    BY <1>1 DEF vars, clientVars, u2cVars, SendPart, ClientClose, UpstreamClose
  <2>2. QED
    BY <2>1, PendingSame, Zenon
<1>2. ASSUME U2c PROVE Pending'
  BY <1>2, PendingReads, PendingBody, PendingEnd, Zenon DEF U2c
<1>3. QED
  BY <1>1, <1>2, PendingBegins, PendingC2u, Zenon DEF Next, Environment, Over
\* Steps that leave u2c, the client and the conversation alone.
LEMMA KeptSame ==
  ASSUME Kept, UNCHANGED <<mode, rx, acc, resp, upc, convId, stored>> PROVE Kept'
  BY DEF Kept, Replace, StoredOk

\* The client and c2u: a new request starts from an empty stream, and the conversation changes
\* only while it is empty.
LEMMA KeptOthers ==
  ASSUME TypeInv, FlowInv, Kept, Environment \/ C2u PROVE Kept'
<1>1. ASSUME SendPart \/ ClientClose \/ (\E reset \in BOOLEAN : UpstreamClose(reset)) PROVE Kept'
  <2>1. UNCHANGED <<mode, rx, acc, resp, upc, convId, stored>>
    BY <1>1 DEF clientVars, u2cVars, SendPart, ClientClose, UpstreamClose
  <2>2. QED
    BY <2>1, KeptSame, Zenon
<1>2. ASSUME NEW c \in Convs \cup {None}, NEW bare \in BOOLEAN, BeginRequest(c, bare) PROVE Kept'
  <2>1. rx' = <<>> /\ UNCHANGED <<mode, upc, resp>>
    BY <1>2 DEF BeginRequest, u2cVars
  <2>2. ~(Rewriting /\ (upc \in {"read", "body"} \/ InTail))
    BY <1>2, BeginsClean, Zenon
  <2>3. QED
    BY <2>1, <2>2 DEF Kept, Replace, Rewriting, InTail
<1>3. ASSUME C2u PROVE Kept'
  <2>1. UNCHANGED clientVars /\ UNCHANGED u2cVars /\ UNCHANGED <<rx, stored>>
    BY <1>3 DEF C2u, ReadClient, StopReading, PhaseA, Log, FindConversation, ShareVault, CheckGone, Forward, ForwardFails
  <2>2. UNCHANGED <<mode, rx, acc, resp, upc, stored>>
    BY <2>1 DEF clientVars, u2cVars
  <2>3. CASE convId' = convId
    <3>1. UNCHANGED <<mode, rx, acc, resp, upc, convId, stored>>
      BY <2>2, <2>3
    <3>2. QED
      BY <3>1, KeptSame, Zenon
  <2>4. CASE convId' # convId
    <3>1. Replace => rx = <<>> /\ ~(Rewriting /\ (upc \in {"read", "body"} \/ InTail))
      BY <1>3, <2>4, ConversationSettled, Zenon
    <3>2. QED
      BY <2>2, <3>1 DEF Kept, Replace, Rewriting, InTail
  <2>5. QED
    BY <2>3, <2>4, Zenon
<1>4. QED
  BY <1>1, <1>2, <1>3, Zenon DEF Environment

\* Reads and the head of a response: no text yet.
LEMMA KeptReads ==
  ASSUME TypeInv, FlowInv, Rewritten, Pending, Kept, Rewritten', FlowInv',
         \/ \E n \in 1..Len(wire) : ReadUpstream(n)
         \/ UpstreamLost \/ SeeShutdown \/ WriteFails \/ (\E close \in BOOLEAN : ParseHeader(close)) \/ ForwardHeader
  PROVE  Kept'
<1>a. rx \in Seq(SeenTo(answered)) /\ batch \in Seq(UnitTo(answered)) /\ answered \in Nat /\ resp.sse \in BOOLEAN
  BY StreamTypes, Zenon
<1>1. UNCHANGED Others /\ UNCHANGED <<acc, stored>>
  BY DEF ReadUpstream, UpstreamLost, SeeShutdown, WriteFails, ParseHeader, ForwardHeader
<1>2. (Replace' <=> Replace) /\ UNCHANGED <<turn, convId>>
  BY <1>1 DEF Others, clientVars, Replace
<1>3. SUFFICES ASSUME Replace PROVE Kept'
  BY <1>2, Zenon DEF Kept
<1>4. ASSUME (\E n \in 1..Len(wire) : ReadUpstream(n)) \/ UpstreamLost \/ SeeShutdown PROVE Kept'
  <2>1. upc = "read" /\ UNCHANGED <<resp, rx>>
    BY <1>4 DEF ReadUpstream, UpstreamLost, SeeShutdown
  <2>2. upc' \in {"body", "parse", "flush"}
    BY <1>4, Zenon DEF ReadUpstream, UpstreamLost, SeeShutdown
  <2>3. QED
    BY <1>1, <1>2, <1>3, <2>1, <2>2 DEF Kept, StoredOk
<1>5. ASSUME WriteFails \/ (\E close \in BOOLEAN : ParseHeader(close)) PROVE Kept'
  <2>1. upc' \in {"done", "backoff"} /\ UNCHANGED rx
    BY <1>5 DEF WriteFails, ParseHeader
  <2>2. QED
    BY <1>1, <1>2, <1>3, <2>1 DEF Kept, StoredOk
<1>6. ASSUME ForwardHeader PROVE Kept'
  <2> DEFINE hd == [u |-> Head(batch).u, turn |-> Head(batch).turn, key |-> None]
  <2>1. upc = "backoff" /\ rx' = rx \o <<hd>>
    BY <1>6 DEF ForwardHeader, WriteOk
  <2>2. upc' \in {"body", "read"}
    BY <1>6, Zenon DEF ForwardHeader
  <2>3. acc = <<>> /\ rx = <<>> /\ batch # <<>>
    BY <1>3, <2>1 DEF Pending, Rewritten, TypeInv, U2cShape
  <2>4. hd.u \in {"H", "J"} /\ hd \in SeenTo(answered)
    <3>1. Head(batch) = batch[1] /\ Head(batch) \in UnitTo(answered)
      BY <1>a, <2>3, TailFacts, Zenon
    <3>2. Begins(batch)
      BY <2>3, Zenon DEF FlowInv, Flow, Pieces
    <3>3. Head(batch).u \in {"H", "J"}
      BY <2>3, <3>1, <3>2 DEF Begins, FirstOf
    <3>4. QED
      BY <3>1, <3>3 DEF UnitTo, SeenTo
  <2> HIDE DEF hd
  <2>5. rx' = <<hd>>
    BY <2>1, <2>3
  <2>6. Texts(<<hd>>) = <<>> /\ LastOf(<<hd>>) # "Z"
    <3>1. <<hd>> \in Seq(SeenTo(answered)) /\ DOMAIN <<hd>> = 1..1 /\ <<hd>>[1] = hd /\ Len(<<hd>>) = 1
      BY <2>4
    <3>2. \A i \in DOMAIN <<hd>> : <<hd>>[i].u # "D"
      BY <2>4, <3>1
    <3>3. Texts(<<hd>>) = <<>>
      BY <1>a, <3>1, <3>2, TextsNone, Zenon
    <3>4. QED
      BY <2>4, <3>1, <3>3 DEF LastOf
  <2>7. acc' = Texts(rx') /\ LastOf(rx') # "Z"
    BY <1>1, <2>3, <2>5, <2>6
  <2>8. QED
    BY <2>2, <2>7 DEF Kept, Covers
<1>7. QED
  BY <1>4, <1>5, <1>6, Zenon

\* The text of what the client gets from the buffer.
LEMMA TextsMore ==
  ASSUME NEW a \in Nat, NEW p \in Seq(SeenTo(a)), NEW texts \in Seq(1..a), resp.key \in Keys \cup {None}
  PROVE  Texts(p \o Reversed(texts)) = Texts(p) \o texts
<1>1. Reversed(texts) \in Seq(SeenTo(a))
  BY ReversedFacts, Zenon
<1>2. TextsApart(p, Reversed(texts))
  BY <1>1, TextsConcat, Zenon
<1>3. Texts(Reversed(texts)) = texts
  BY TextsReversed, Zenon
<1>4. QED
  BY <1>2, <1>3, Zenon DEF TextsApart

\* The text the client has is a sequence of turns.
LEMMA TextsSeen ==
  ASSUME NEW a \in Nat, NEW p \in Seq(SeenTo(a)) PROVE Texts(p) \in Seq(1..a)
<1>1. \A x \in SeenTo(a) : x.turn \in 1..a
  BY DEF SeenTo
<1>2. QED
  BY <1>1, TextsType, Zenon

\* Units of u2c's own add no text.
LEMMA TextsOwn ==
  ASSUME NEW a \in Nat, NEW p \in Seq(SeenTo(a)), NEW e \in SeenTo(a), e.u # "D"
  PROVE  Texts(p \o <<e>>) = Texts(p)
<1>1. <<e>> \in Seq(SeenTo(a)) /\ DOMAIN <<e>> = 1..1 /\ <<e>>[1] = e
  OBVIOUS
<1>2. \A i \in DOMAIN <<e>> : <<e>>[i].u # "D"
  BY <1>1
<1>3. Texts(<<e>>) = <<>>
  BY <1>1, <1>2, TextsNone, Zenon
<1>4. TextsApart(p, <<e>>)
  BY <1>1, TextsConcat, Zenon
<1>5. Texts(p) \in Seq(1..a)
  BY TextsSeen, Zenon
<1>6. Texts(p) \o <<>> = Texts(p)
  BY <1>5
<1>7. QED
  BY <1>3, <1>4, <1>6, Zenon DEF TextsApart

\* The body: text is accumulated as it is sent.
LEMMA KeptBody ==
  ASSUME TypeInv, FlowInv, Scope, Rewritten, Kept, FlowInv',
         RawChunk \/ (\E hold \in BOOLEAN : RewriteDelta(hold)) \/ RewriteStop
  PROVE  Kept'
<1>a. /\ rx \in Seq(SeenTo(answered)) /\ batch \in Seq(UnitTo(answered)) /\ answered \in Nat /\ held \in Seq(1..answered)
      /\ resp.key \in Keys \cup {None} /\ acc \in Seq(1..answered) /\ resp.sse \in BOOLEAN /\ exiting \in BOOLEAN
  BY StreamTypes, Zenon
<1>1. UNCHANGED Others /\ UNCHANGED <<resp, stored, exiting>> /\ upc = "body"
  BY DEF RawChunk, RewriteDelta, RewriteStop
<1>2. (Replace' <=> Replace) /\ UNCHANGED <<turn, convId>>
  BY <1>1 DEF Others, clientVars, Replace
<1>3. SUFFICES ASSUME Replace PROVE Kept'
  BY <1>2, Zenon DEF Kept
<1>4. Texts(rx) \in Seq(1..answered)
  BY <1>a, TextsSeen, Zenon
<1>5. ASSUME RawChunk PROVE Kept'
  <2>1. upc' = "flush" /\ ~resp.sse /\ LastOf(batch) = "B"
    BY <1>3, <1>5, RawBody, Zenon
  <2>2. rx' = rx \o Raw(batch) /\ Raw(batch) \in Seq(SeenTo(answered)) /\ batch # <<>>
    <3>1. rx' = rx \o Raw(batch)
      BY <1>5 DEF RawChunk, WriteOk
    <3>2. batch # <<>>
      BY <1>1 DEF TypeInv, U2cShape
    <3>3. QED
      BY <1>a, <3>1, <3>2, RawFacts, Zenon
  <2>3. LastOf(rx') = "B"
    <3>1. Raw(batch) # <<>> /\ LastOf(Raw(batch)) = "B"
      BY <1>a, <2>1, <2>2, RawChain, Zenon
    <3>2. LastOf(rx \o Raw(batch)) = LastOf(Raw(batch))
      BY <1>a, <2>2, <3>1, ConcatChain, Zenon
    <3>3. QED
      BY <2>2, <3>1, <3>2
  <2>4. QED
    BY <1>1, <2>1, <2>3 DEF Kept
<1>6. ASSUME NEW hold \in BOOLEAN, RewriteDelta(hold) PROVE Kept'
  <2> DEFINE texts == held \o <<Head(batch).turn>>
  <2>1. /\ resp.sse /\ upc' \in {"body", "read"} /\ texts \in Seq(1..answered)
        /\ \/ rx' = rx \o Reversed(texts) /\ acc' = Accumulate(texts)
           \/ rx' = rx /\ acc' = acc
    BY <1>6, DeltaFacts, Zenon
  <2> HIDE DEF texts
  <2>2. Covers(acc, Texts(rx))
    BY <1>1, <1>3, <2>1 DEF Kept
  <2>3. Covers(Accumulate(texts), Texts(rx) \o texts)
    BY <1>4, <1>a, <2>1, <2>2, CoversMore, Zenon
  <2>4. Texts(rx \o Reversed(texts)) = Texts(rx) \o texts
    BY <1>a, <2>1, TextsMore, Zenon
  <2>5. Covers(acc', Texts(rx'))
    BY <2>1, <2>2, <2>3, <2>4, Zenon
  <2>6. LastOf(rx') # "Z"
    BY <1>1, <1>2, <1>3, <2>1 DEF FlowInv, Middle, Rewriting
  <2>7. QED
    BY <2>1, <2>5, <2>6 DEF Kept
<1>7. ASSUME RewriteStop PROVE Kept'
  <2> DEFINE e == [u |-> "S", turn |-> resp.turn, key |-> None]
  <2>1. acc' = Accumulate(TailBeforeStop) /\ upc' = "flush" /\ Rewriting /\ rx' = rx \o (Reversed(TailBeforeStop) \o StopEvent)
    BY <1>7 DEF RewriteStop, WriteOk
  <2>2. TailBeforeStop = held
    <3>1. Provider = "anthropic"
      BY <1>3 DEF Scope, Replace, TypeInv, ClientTypes
    <3>2. QED
      BY <3>1 DEF TailBeforeStop
  <2>3. resp.sse
    BY <2>1, Zenon DEF Rewriting
  <2>4. StopEvent = <<e>> /\ e \in SeenTo(answered) /\ e.u = "S"
    <3>1. resp.turn \in 1..answered
      BY <2>3 DEF TypeInv, Heard, RespTo, U2cShape
    <3>2. QED
      BY <3>1 DEF SeenTo, Kinds, StopEvent
  <2> HIDE DEF e
  <2>5. Reversed(held) \in Seq(SeenTo(answered))
    BY <1>a, ReversedFacts, Zenon
  <2> DEFINE y == rx \o Reversed(held)
             x == Reversed(held)
  <2>6. y \in Seq(SeenTo(answered)) /\ rx' = y \o <<e>>
    <3> HIDE DEF x
    <3>1. x \in Seq(SeenTo(answered)) /\ <<e>> \in Seq(SeenTo(answered))
      BY <2>4, <2>5 DEF x
    <3>2. rx \o x \in Seq(SeenTo(answered)) /\ rx \o (x \o <<e>>) = (rx \o x) \o <<e>>
      BY <1>a, <3>1
    <3>3. QED
      BY <2>1, <2>2, <2>4, <3>2, Zenon DEF x
  <2>7. Texts(y) = Texts(rx) \o held
    BY <1>a, TextsMore, Zenon
  <2> HIDE DEF y
  <2>8. Texts(y \o <<e>>) = Texts(y)
    <3>1. e.u # "D"
      BY <2>4
    <3>2. QED
      BY <1>a, <2>4, <2>6, <3>1, TextsOwn, Zenon
  <2>9. Covers(acc, Texts(rx))
    BY <1>1, <1>3, <2>3 DEF Kept
  <2>10. Covers(Accumulate(held), Texts(rx) \o held)
    BY <1>4, <1>a, <2>9, CoversMore, Zenon
  <2>11. Covers(acc', Texts(rx'))
    BY <2>1, <2>2, <2>6, <2>7, <2>8, <2>10, Zenon
  <2>12. LastOf(rx') # "Z"
    BY <1>1, <1>2, <1>3, <1>a, <2>1, <2>3 DEF FlowInv, Middle, Rewriting, Closing, InTail
  <2>13. QED
    BY <1>1, <2>1, <2>11, <2>12 DEF Kept
<1>8. QED
  BY <1>5, <1>6, <1>7, Zenon
\* The end of a response: what is accumulated is stored before the last chunk is sent.
LEMMA KeptEnd ==
  ASSUME TypeInv, FlowInv, Scope, Pending, Kept, FlowInv',
         FlushRepBuf \/ FinalizeResponse \/ StoreResponse \/ SaveVault \/ AfterResponse
  PROVE  Kept'
<1>a. /\ rx \in Seq(SeenTo(answered)) /\ answered \in Nat /\ held \in Seq(1..answered) /\ resp.key \in Keys \cup {None}
      /\ acc \in Seq(1..answered) /\ resp.sse \in BOOLEAN /\ exiting \in BOOLEAN
  BY StreamTypes, Zenon
<1>1. UNCHANGED Others /\ UNCHANGED exiting
  BY DEF FlushRepBuf, FinalizeResponse, StoreResponse, SaveVault, AfterResponse
<1>2. (Replace' <=> Replace) /\ UNCHANGED <<turn, convId>>
  BY <1>1 DEF Others, clientVars, Replace
<1>3. SUFFICES ASSUME Replace PROVE Kept'
  BY <1>2, Zenon DEF Kept
<1>4. Texts(rx) \in Seq(1..answered)
  BY <1>a, TextsSeen, Zenon
<1>5. resp.sse /\ InTail => rx # <<>> /\ LastOf(rx) # "Z"
  BY <1>3, <1>a DEF FlowInv, Middle, Rewriting, Closing, InTail
<1>6. ASSUME FlushRepBuf PROVE Kept'
  <2>1. upc = "flush" /\ upc' = "finalize" /\ UNCHANGED <<resp, stored>> /\ acc' = Accumulate(held)
    BY <1>6 DEF FlushRepBuf
  <2>2. rx' = rx \o Reversed(held)
    BY <1>6, Zenon DEF FlushRepBuf, WriteOk, Scope
  <2>3. CASE resp.sse
    <3>1. Covers(acc, Texts(rx))
      BY <1>3, <2>1, <2>3 DEF Kept
    <3>2. Covers(Accumulate(held), Texts(rx) \o held)
      BY <1>4, <1>a, <3>1, CoversMore, Zenon
    <3>3. Texts(rx \o Reversed(held)) = Texts(rx) \o held
      BY <1>a, TextsMore, Zenon
    <3>4. Covers(acc', Texts(rx'))
      BY <2>1, <2>2, <3>2, <3>3, Zenon
    <3>5. LastOf(rx') # "Z"
      BY <1>1, <1>2, <1>3, <1>a, <2>1, <2>3 DEF FlowInv, Middle, Rewriting, Closing, InTail
    <3>6. QED
      BY <2>1, <3>4, <3>5 DEF Kept
  <2>4. CASE ~resp.sse
    <3>1. held = <<>>
      BY <2>4 DEF FlowInv, Middle, Rewriting
    <3>2. Reversed(held) = <<>>
      BY <1>a, <3>1, ReversedChain, Zenon
    <3>3. rx' = rx
      BY <1>a, <2>2, <3>2
    <3>4. QED
      BY <1>2, <1>3, <2>1, <2>4, <3>3 DEF Kept, StoredOk
  <2>5. QED
    BY <2>3, <2>4, Zenon
<1>7. ASSUME FinalizeResponse PROVE Kept'
  <2>1. upc = "finalize" /\ UNCHANGED <<resp, acc, rx, stored>>
    BY <1>7 DEF FinalizeResponse
  <2>2. (upc' = "after" /\ (convId = None \/ acc = <<>>)) \/ upc' = "store"
    BY <1>7, Zenon DEF FinalizeResponse
  <2>3. resp.sse => Covers(acc, Texts(rx))
    BY <1>3, <2>1 DEF Kept
  <2>4. resp.sse /\ acc = <<>> => Texts(rx) = <<>>
    <3>1. Len(<<>>) = 0 /\ ~(0 > MaxBuffer)
      BY BoundAssumption
    <3>2. QED
      BY <2>3, <3>1 DEF Covers
  <2>5. QED
    BY <1>2, <1>3, <2>1, <2>2, <2>3, <2>4 DEF Kept, StoredOk
<1>8. ASSUME StoreResponse PROVE Kept'
  <2> DEFINE s == [conv |-> fin, text |-> acc]
  <2>1. upc = "store" /\ UNCHANGED <<resp, rx>> /\ s \in stored'
    BY <1>8 DEF StoreResponse
  <2>2. upc' = "save"
    BY <1>3, <1>8, Zenon DEF StoreResponse
  <2>3. resp.sse /\ fin = convId
    BY <1>3, <2>1 DEF Pending
  <2>4. Covers(acc, Texts(rx))
    BY <1>3, <2>1, <2>3 DEF Kept
  <2>5. s.conv = convId /\ Covers(s.text, Texts(rx))
    BY <2>3, <2>4
  <2> HIDE DEF s
  <2>6. StoredOk'
    BY <1>2, <2>1, <2>5 DEF StoredOk
  <2>7. QED
    BY <2>2, <2>6 DEF Kept
<1>9. ASSUME SaveVault PROVE Kept'
  <2>1. upc = "save" /\ upc' = "after" /\ UNCHANGED <<resp, rx, stored>>
    BY <1>9 DEF SaveVault
  <2>2. QED
    BY <1>2, <1>3, <2>1 DEF Kept, StoredOk
<1>10. ASSUME AfterResponse PROVE Kept'
  <2>1. upc = "after" /\ UNCHANGED stored
    BY <1>10 DEF AfterResponse
  <2>2. \/ exiting /\ upc' = "done" /\ rx' = rx
        \/ ~exiting /\ upc' = "read" /\ rx' = rx \o LastChunk /\ resp' = Reset
    BY <1>10 DEF AfterResponse, WriteOk
  <2>3. CASE exiting /\ upc' = "done" /\ rx' = rx
    BY <1>2, <1>3, <2>1, <2>3 DEF Kept, StoredOk
  <2>4. CASE ~exiting /\ upc' = "read" /\ rx' = rx \o LastChunk /\ resp' = Reset
    <3>1. ~resp'.sse
      BY <2>4 DEF Reset
    <3>2. CASE resp.sse
      <4> DEFINE e == [u |-> "Z", turn |-> resp.turn, key |-> None]
      <4>1. LastChunk = <<e>> /\ e.u # "D"
        BY <1>3, <3>2 DEF LastChunk, Rewriting
      <4>2. resp.turn \in 1..answered
        BY <3>2 DEF TypeInv, Heard, RespTo, U2cShape
      <4>3. e \in SeenTo(answered)
        BY <4>2 DEF SeenTo, Kinds
      <4> HIDE DEF e
      <4>4. Texts(rx \o <<e>>) = Texts(rx)
        BY <1>a, <4>1, <4>3, TextsOwn, Zenon
      <4>5. Texts(rx') = Texts(rx)
        BY <2>4, <4>1, <4>4
      <4>6. StoredOk
        BY <1>3, <2>1, <3>2 DEF Kept
      <4>7. StoredOk'
        BY <1>2, <2>1, <4>5, <4>6 DEF StoredOk
      <4>8. QED
        BY <3>1, <4>7 DEF Kept
    <3>3. CASE ~resp.sse
      <4>1. rx' = rx \o <<>>
        BY <2>4, <3>3 DEF LastChunk, Rewriting
      <4>2. rx' = rx
        BY <1>a, <4>1
      <4>3. QED
        BY <1>2, <1>3, <2>1, <3>1, <4>2 DEF Kept, StoredOk
    <3>4. QED
      BY <3>2, <3>3, Zenon
  <2>5. QED
    BY <2>2, <2>3, <2>4, Zenon
<1>11. QED
  BY <1>6, <1>7, <1>8, <1>9, <1>10, Zenon

\* Any step.
LEMMA KeptStep ==
  ASSUME TypeInv, FlowInv, Scope, Shared, Rewritten, Pending, Kept, [Next]_vars PROVE Kept'
<1>0. FlowInv' /\ Rewritten'
  BY FlowStep, RewrittenStep, Zenon
<1>1. ASSUME UNCHANGED vars PROVE Kept'
  <2>1. UNCHANGED <<mode, rx, acc, resp, upc, convId, stored>>
    BY <1>1 DEF vars, clientVars, u2cVars
  <2>2. QED
    BY <2>1, KeptSame, Zenon
<1>2. ASSUME U2c PROVE Kept'
  BY <1>0, <1>2, KeptReads, KeptBody, KeptEnd, Zenon DEF U2c
<1>3. QED
  BY <1>1, <1>2, KeptOthers, Zenon DEF Next, Over

\* What is stored and saved stays with its conversation when the conversations of past turns do.
LEMMA OwnSame ==
  ASSUME StoredOwn, SavedOwn, UNCHANGED <<mode, turn, conv, stored, saved>> PROVE StoredOwn' /\ SavedOwn'
  BY DEF StoredOwn, SavedOwn, Replace, VaultSavedWithItsConversation

\* Any step: a response is stored under the conversation of its turn, a vault saved with it.
LEMMA OwnStep ==
  ASSUME TypeInv, FlowInv, Shared, Pending, StoredOwn, SavedOwn, [Next]_vars PROVE StoredOwn' /\ SavedOwn'
<1>a. /\ rx \in Seq(SeenTo(answered)) /\ answered \in Nat /\ turn \in Nat /\ acc \in Seq(1..answered)
      /\ resp.sse \in BOOLEAN /\ exiting \in BOOLEAN /\ MaxTurns \in Nat
  BY StreamTypes, BoundAssumption, Zenon
<1>1. ASSUME UNCHANGED <<mode, turn, conv, stored, saved>> PROVE StoredOwn' /\ SavedOwn'
  BY <1>1, OwnSame, Zenon
<1>2. ASSUME NEW c \in Convs \cup {None}, NEW bare \in BOOLEAN, BeginRequest(c, bare) PROVE StoredOwn' /\ SavedOwn'
  <2>1. turn' = turn + 1 /\ conv' = [conv EXCEPT ![turn + 1] = c] /\ UNCHANGED <<mode, stored, saved>>
    BY <1>2 DEF BeginRequest
  <2>2. SavedOwn'
    BY <2>1 DEF SavedOwn, Replace, VaultSavedWithItsConversation
  <2>3. \A t \in 1..turn : t \in 1..turn' /\ conv'[t] = conv[t]
    <3>1. turn \in 0..MaxTurns /\ conv \in [Turns -> Convs \cup {None}]
      BY DEF TypeInv, ClientTypes
    <3>2. \A t \in 1..turn : t \in Turns /\ t # turn + 1 /\ t \in 1..turn'
      BY <1>a, <2>1, <3>1 DEF Turns
    <3>3. QED
      BY <2>1, <3>1, <3>2
  <2>4. StoredOwn'
    BY <2>1, <2>3 DEF StoredOwn, Replace
  <2>5. QED
    BY <2>2, <2>4
<1>3. ASSUME StoreResponse PROVE StoredOwn' /\ SavedOwn'
  <2> DEFINE s == [conv |-> fin, text |-> acc]
  <2>1. upc = "store" /\ UNCHANGED saved /\ stored' = stored \cup {s} /\ UNCHANGED Others
    BY <1>3 DEF StoreResponse
  <2>2. UNCHANGED <<mode, turn, conv>>
    BY <2>1 DEF Others, clientVars
  <2>3. SavedOwn'
    BY <2>1, <2>2 DEF SavedOwn, Replace, VaultSavedWithItsConversation
  <2>4. ASSUME Replace PROVE turn \in 1..turn /\ (\A i \in DOMAIN s.text : s.text[i] = turn) /\ conv[turn] \in {s.conv, None}
    <3>1. resp.sse /\ fin = convId /\ acc # <<>> /\ \A i \in DOMAIN acc : acc[i] = turn
      BY <2>1, <2>4 DEF Pending
    <3>2. rx # <<>>
      BY <1>a, <2>1, <2>4, <3>1 DEF FlowInv, Middle, Rewriting, Closing, InTail
    <3>3. answered = turn
      BY <3>2 DEF FlowInv, Flow
    <3>4. turn > 0
      <4>1. Len(acc) > 0 /\ Len(acc) \in Nat
        BY <1>a, <3>1
      <4>2. acc[1] \in 1..answered
        BY <1>a, <4>1
      <4>3. QED
        BY <1>a, <3>3, <4>2
    <3>5. conv[turn] \in {convId, None}
      BY <2>4, <3>3, <3>4 DEF Shared
    <3>6. QED
      BY <1>a, <3>1, <3>4, <3>5
  <2> HIDE DEF s
  <2>5. StoredOwn'
    BY <2>1, <2>2, <2>4 DEF StoredOwn, Replace
  <2>6. QED
    BY <2>3, <2>5
<1>4. ASSUME SaveVault PROVE StoredOwn' /\ SavedOwn'
  <2> DEFINE s == [conv |-> fin, key |-> vault]
  <2>1. upc = "save" /\ UNCHANGED stored /\ UNCHANGED Others
    BY <1>4 DEF SaveVault
  <2>2. saved' = saved \/ saved' = saved \cup {s}
    BY <1>4, Zenon DEF SaveVault
  <2>3. UNCHANGED <<mode, turn, conv>>
    BY <2>1 DEF Others, clientVars
  <2>4. StoredOwn'
    BY <2>1, <2>3 DEF StoredOwn, Replace
  <2>5. ASSUME Replace PROVE s.key \in {s.conv, SessionUuid}
    <3>1. resp.sse /\ fin = convId
      BY <2>1, <2>5 DEF Pending
    <3>2. rx # <<>> /\ resp.turn = turn
      BY <1>a, <2>1, <2>5, <3>1 DEF FlowInv, Middle, Rewriting, Closing, InTail
    <3>3. answered = turn
      BY <3>2 DEF FlowInv, Flow
    <3>4. turn > 0
      BY <3>1, <3>2 DEF TypeInv, U2cShape
    <3>5. vault \in {convId, SessionUuid}
      BY <2>5, <3>3, <3>4 DEF Shared
    <3>6. QED
      BY <3>1, <3>5
  <2> HIDE DEF s
  <2>6. SavedOwn'
    BY <2>2, <2>3, <2>5 DEF SavedOwn, Replace, VaultSavedWithItsConversation
  <2>7. QED
    BY <2>4, <2>6
<1>5. ASSUME UNCHANGED vars \/ SendPart \/ ClientClose \/ (\E reset \in BOOLEAN : UpstreamClose(reset)) \/ C2u
      PROVE  StoredOwn' /\ SavedOwn'
  <2>1. UNCHANGED <<mode, turn, conv, stored, saved>>
    BY <1>5 DEF vars, clientVars, SendPart, ClientClose, UpstreamClose, C2u, ReadClient, StopReading, PhaseA, Log,
                FindConversation, ShareVault, CheckGone, Forward, ForwardFails
  <2>2. QED
    BY <1>1, <2>1, Zenon
<1>6. ASSUME U2c, ~StoreResponse, ~SaveVault PROVE StoredOwn' /\ SavedOwn'
  <2>1. UNCHANGED Others /\ UNCHANGED <<stored, saved>>
    BY <1>6 DEF U2c, ReadUpstream, UpstreamLost, SeeShutdown, WriteFails, ParseHeader, ForwardHeader, RawChunk, RewriteDelta,
                RewriteStop, FlushRepBuf, FinalizeResponse, AfterResponse
  <2>2. UNCHANGED <<mode, turn, conv, stored, saved>>
    BY <2>1 DEF Others, clientVars
  <2>3. QED
    BY <1>1, <2>2, Zenon
<1>7. QED
  BY <1>2, <1>3, <1>4, <1>5, <1>6, Zenon DEF Next, Environment, Over
\* Any step: vaults are saved in replace mode only.
LEMMA SavesOnlyReplaceStep ==
  ASSUME SavesOnlyReplace, [Next]_vars PROVE SavesOnlyReplace'
<1>1. UNCHANGED mode
  BY DEF Next, Environment, BeginRequest, SendPart, ClientClose, UpstreamClose, C2u, ReadClient, StopReading, PhaseA, Log,
         FindConversation, ShareVault, CheckGone, Forward, ForwardFails, U2c, ReadUpstream, UpstreamLost, SeeShutdown,
         WriteFails, ParseHeader, ForwardHeader, RawChunk, RewriteDelta, RewriteStop, FlushRepBuf, FinalizeResponse,
         StoreResponse, SaveVault, AfterResponse, Over, vars, Others, clientVars
<1>2. SUFFICES ASSUME ~Replace PROVE saved' = {} /\ upc' # "save"
  BY <1>1 DEF SavesOnlyReplace, Replace
<1>3. saved = {} /\ upc # "save"
  BY <1>2 DEF SavesOnlyReplace
<1>4. ASSUME U2c PROVE saved' = {} /\ upc' # "save"
  <2>1. UNCHANGED saved
    BY <1>3, <1>4 DEF U2c, ReadUpstream, UpstreamLost, SeeShutdown, WriteFails, ParseHeader, ForwardHeader, RawChunk,
                      RewriteDelta, RewriteStop, FlushRepBuf, FinalizeResponse, StoreResponse, SaveVault, AfterResponse
  <2>2. upc' # "save"
    <3>1. ASSUME StoreResponse PROVE upc' # "save"
      <4>1. upc' = "after"
        BY <1>2, <3>1, Zenon DEF StoreResponse
      <4>2. QED
        BY <4>1
    <3>2. ASSUME ~StoreResponse PROVE upc' # "save"
      BY <1>4, <3>2 DEF U2c, ReadUpstream, UpstreamLost, SeeShutdown, WriteFails, ParseHeader, ForwardHeader, RawChunk,
                        RewriteDelta, RewriteStop, FlushRepBuf, FinalizeResponse, SaveVault, AfterResponse
    <3>3. QED
      BY <3>1, <3>2
  <2>3. QED
    BY <1>3, <2>1, <2>2
<1>5. ASSUME ~U2c PROVE saved' = {} /\ upc' # "save"
  <2>1. UNCHANGED saved /\ UNCHANGED u2cVars
    BY <1>5 DEF Next, Environment, BeginRequest, SendPart, ClientClose, UpstreamClose, C2u, ReadClient, StopReading, PhaseA, Log,
                FindConversation, ShareVault, CheckGone, Forward, ForwardFails, Over, vars
  <2>2. UNCHANGED upc
    BY <2>1 DEF u2cVars
  <2>3. QED
    BY <1>3, <2>1, <2>2
<1>6. QED
  BY <1>4, <1>5

\* Nothing is accumulated, stored or saved at first.
LEMMA AccountedInit ==
  ASSUME Init PROVE Accounted /\ SavesOnlyReplace
<1>1. rx = <<>> /\ turn = 0 /\ upc = "read" /\ resp = Reset /\ acc = <<>> /\ stored = {} /\ saved = {}
  BY DEF Init
<1>2. ~resp.sse
  BY <1>1 DEF Reset
<1>3. Pending
  BY <1>1, <1>2, EmptyChain DEF Pending
<1>4. Kept
  BY <1>1, <1>2 DEF Kept
<1>5. StoredOwn /\ SavedOwn /\ SavesOnlyReplace
  BY <1>1 DEF StoredOwn, SavedOwn, SavesOnlyReplace, VaultSavedWithItsConversation
<1>6. QED
  BY <1>3, <1>4, <1>5, Zenon DEF Accounted

\* The text of a rewritten response is accounted for at every point of u2c.
THEOREM AccountedInvariant ==
  Scope /\ Spec => [](TypeInv /\ FlowInv /\ Shared /\ Rewritten /\ Accounted /\ SavesOnlyReplace)
<1>1. Init => Accounted /\ SavesOnlyReplace
  BY AccountedInit, Zenon
<1>2. Scope /\ TypeInv /\ FlowInv /\ Shared /\ Rewritten /\ Accounted /\ SavesOnlyReplace /\ [Next]_vars
        => Accounted' /\ SavesOnlyReplace'
  BY PendingStep, KeptStep, OwnStep, SavesOnlyReplaceStep, Zenon DEF Accounted
<1>3. SUFFICES ASSUME Scope
               PROVE  Spec => [](TypeInv /\ FlowInv /\ Shared /\ Rewritten /\ Accounted /\ SavesOnlyReplace)
  BY Zenon
<1>4. QED
  BY <1>1, <1>2, <1>3, RewrittenInvariant, PTL DEF Spec

\* A response with a length has no text.
LEMMA SizedNoText ==
  ASSUME NEW a \in Nat, NEW q \in Seq(SeenTo(a)), Chain(q), q # <<>>, LastOf(q) = "B"
  PROVE  Texts(q) = <<>>
<1> DEFINE l == Len(q)
<1>1. l \in Nat /\ l > 0 /\ DOMAIN q = 1..l
  <2>1. l > 0
    BY NonEmpty, Zenon
  <2>2. QED
    BY <2>1
<1>2. q[l].u = "B" /\ \A i \in 1..(l - 1) : Follows(q[i].u, q[i + 1].u)
  BY Zenon DEF Chain, LastOf, l
<1> HIDE DEF l
<1>3. ASSUME l > 1 PROVE q[l - 1].u = "J"
  <2>1. l - 1 \in 1..(l - 1) /\ (l - 1) + 1 = l
    BY <1>1, <1>3
  <2>2. Follows(q[l - 1].u, q[l].u)
    BY <1>2, <2>1
  <2>3. QED
    BY <1>2, <2>2 DEF Follows
<1>4. ASSUME l > 2 PROVE FALSE
  <2>1. l - 2 \in 1..(l - 1) /\ (l - 2) + 1 = l - 1
    BY <1>1, <1>4
  <2>2. Follows(q[l - 2].u, q[l - 1].u)
    BY <1>2, <2>1
  <2>3. q[l - 1].u = "J"
    BY <1>1, <1>3, <1>4
  <2>4. QED
    BY <2>2, <2>3 DEF Follows
<1>5. ASSUME NEW i \in DOMAIN q PROVE q[i].u # "D"
  <2>1. i = l \/ (l > 1 /\ i = l - 1)
    BY <1>1, <1>4
  <2>2. QED
    BY <1>2, <1>3, <2>1
<1>6. QED
  BY <1>5, TextsNone, Zenon

\* A sequence is a prefix of itself.
LEMMA PrefixSelf ==
  ASSUME NEW X, NEW q \in Seq(X) PROVE IsPrefix(q, q)
<1>1. Len(q) <= Len(q) /\ SubSeq(q, 1, Len(q)) = SubSeq(q, 1, Len(q))
  OBVIOUS
<1>2. QED
  BY <1>1 DEF IsPrefix

\* A client that has the whole of a rewritten response, and so may send its next request or go,
\* finds the text it got stored under the conversation, up to the buffer limit.
THEOREM StoredBeforeCompleteAlways == Scope /\ Spec => []StoredBeforeComplete
<1>1. TypeInv /\ FlowInv /\ Accounted => StoredBeforeComplete
  <2> SUFFICES ASSUME TypeInv, FlowInv, Accounted, Replace, Complete, convId # None, Texts(rx) # <<>>
               PROVE  \E s \in stored : /\ s.conv = convId /\ IsPrefix(s.text, Texts(rx))
                                        /\ s.text = Texts(rx) \/ Len(s.text) > MaxBuffer
    BY Zenon DEF StoredBeforeComplete
  <2>a. rx \in Seq(SeenTo(answered)) /\ answered \in Nat
    BY StreamTypes, Zenon
  <2>0. Chain(rx) /\ Begins(rx) /\ OfTurn(rx, turn)
    BY Zenon DEF FlowInv, Flow, Pieces
  <2>1. rx # <<>> /\ LastOf(rx) \in Final
    BY <2>0, <2>a, CompleteLast, Zenon
  <2>2. LastOf(rx) # "B"
    BY <2>0, <2>1, <2>a, SizedNoText, Zenon
  <2>3. LastOf(rx) = "Z"
    BY <2>1, <2>2 DEF Final
  <2>4. StoredOk
    BY <2>1, <2>3, Zenon DEF Accounted, Kept
  <2>5. PICK s \in stored : s.conv = convId /\ Covers(s.text, Texts(rx))
    BY <2>4, Zenon DEF StoredOk
  <2>6. Texts(rx) \in Seq(1..answered)
    BY <2>a, TextsSeen, Zenon
  <2>7. IsPrefix(Texts(rx), Texts(rx))
    BY <2>6, PrefixSelf, Zenon
  <2>8. QED
    BY <2>5, <2>7, Zenon DEF Covers
<1>2. QED
  BY <1>1, AccountedInvariant, PTL

\* A vault is saved with the conversation it belongs to, whatever the client asks for next: the
\* handle u2c reads after the response is still that of the turn it answered.
THEOREM VaultSavedWithItsConversationAlways == Scope /\ Spec => []VaultSavedWithItsConversation
<1>1. Accounted /\ SavesOnlyReplace => VaultSavedWithItsConversation
  BY Zenon DEF Accounted, SavedOwn, SavesOnlyReplace, VaultSavedWithItsConversation
<1>2. QED
  BY <1>1, AccountedInvariant, PTL

\* In replace mode a response is stored under the conversation of the request it answers, and no
\* text of two turns is stored together.
THEOREM StoredUnderOwnConversationAlways ==
  Scope /\ Modes = {"replace"} /\ Spec => []StoredUnderOwnConversation
<1>1. TypeInv /\ Accounted /\ Modes = {"replace"} => StoredUnderOwnConversation
  <2> SUFFICES ASSUME TypeInv, Accounted, Modes = {"replace"} PROVE StoredUnderOwnConversation
    BY Zenon
  <2>1. Replace /\ turn \in 0..MaxTurns
    BY DEF TypeInv, ClientTypes, Replace
  <2>2. 1..turn \subseteq Turns
    BY <2>1, BoundAssumption DEF Turns
  <2>3. QED
    BY <2>1, <2>2, Zenon DEF Accounted, StoredOwn, StoredUnderOwnConversation
<1>2. SUFFICES ASSUME Modes = {"replace"} PROVE Scope /\ Spec => []StoredUnderOwnConversation
  BY Zenon
<1>3. QED
  BY <1>1, <1>2, AccountedInvariant, PTL
=============================================================================
