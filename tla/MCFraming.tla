------------------------------ MODULE MCFraming ------------------------------
(* Framing for TLC: small bodies and event streams, chunked in all ways. *)
EXTENDS Framing

\* All ways to cut s into at most three non-empty chunks.
Chunkings(s) ==
  {<<s>>} \cup
  {<<SubSeq(s, 1, i), Drop(s, i)>> : i \in 1..(Len(s) - 1)} \cup
  {<<SubSeq(s, 1, c[1]), SubSeq(s, c[1] + 1, c[2]), Drop(s, c[2])>> :
     c \in {d \in (1..(Len(s) - 1)) \X (1..(Len(s) - 1)) : d[1] < d[2]}}

Request(framing, chunks) ==
  [framing |-> framing, chunks |-> chunks, last |-> LastChunk, sse |-> FALSE, events |-> <<>>,
   early |-> FALSE]

\* JSON bodies: digits and line feeds, but no carriage returns.
Bodies == {<<TEXT>>, <<0>>, <<SECRET, 0>>, <<0, LF, LF, 0>>, <<LF, SECRET, TEXT>>}

WithBody == UNION {{Request("length", <<b>>)} \cup {Request("chunked", c) : c \in Chunkings(b)} : b \in Bodies}
Bodyless == {Request("none", <<>>), Request("length", <<>>), Request("chunked", <<>>)}
Few == {Request("length", <<<<0, LF>>>>), Request("chunked", <<<<SECRET>>, <<0>>>>)} \cup Bodyless

\* A request whose length is not known can only be the last one.
InTurn ==
  {<<r>> : r \in WithBody \cup Bodyless} \cup
  {<<r, s>> : r \in Few \ {Request("none", <<>>)}, s \in Few}

Early(r) == [r EXCEPT !.early = TRUE]

\* A second request may come early behind one that passthrough keeps back and
\* that has a body.
Overtaking ==
  {<<r, Early(s)>> : r \in {q \in Few : q.framing = "chunked" /\ q.chunks # <<>>}, s \in Few}

MCScripts == [m \in {"passthrough", "pii"} |->
               InTurn \cup IF m = "passthrough" THEN Overtaking ELSE {}]

-----------------------------------------------------------------------------
Event(t, d) == [type |-> t, data |-> d]
Streams == {
  <<Event(<<DELTA>>, <<<<TEXT>>>>), Event(<<STOP>>, <<<<TEXT>>>>)>>,
  <<Event(<<>>, <<<<0>>>>), Event(<<>>, <<<<DONE>>>>)>>}

Written(e, eol) ==
  (IF e.type = <<>> THEN <<NOTE>> \o eol ELSE <<EVENT>> \o e.type \o eol)
  \o FlattenSeq([i \in DOMAIN e.data |-> <<DATA>> \o e.data[i] \o eol]) \o eol

EventStream(es, eol) == FlattenSeq([i \in DOMAIN es |-> Written(es[i], eol)])

\* Event streams whose chunks end anywhere; only the decoder can handle them.
Cut == UNION {{[framing |-> "chunked", chunks |-> c, last |-> LastChunk, sse |-> TRUE, events |-> s, early |-> FALSE] :
                 c \in Chunkings(EventStream(s, eol))} : s \in Streams, eol \in {<<LF>>, CRLF}}

\* Event streams with an event per chunk.
Aligned == {[framing |-> "chunked", chunks |-> [i \in DOMAIN s |-> Written(s[i], eol)],
             last |-> LastChunk, sse |-> TRUE, events |-> s, early |-> FALSE] : s \in Streams, eol \in {<<LF>>, CRLF}}

Documents == {[r EXCEPT !.framing = f] : f \in {"length", "chunked"}, r \in WithBody}

MCResponses == [m \in {"passthrough", "pii"} |->
                 Documents \cup Aligned \cup IF m = "pii" THEN Cut ELSE {}]

\* Where the events of a response end: with the blocks it was written in, or
\* with the data of the chunks.
Blocks(pii, r) ==
  IF pii THEN LET eol == CHOOSE eol \in {<<LF>>, CRLF} : EventStream(r.events, eol) = Body(r)
              IN [i \in DOMAIN r.events |-> Written(r.events[i], eol)]
  ELSE [i \in DOMAIN r.chunks |->
         (IF i = 1 THEN <<>> ELSE CRLF) \o <<Len(r.chunks[i])>> \o CRLF \o r.chunks[i]]

\* The responses of MCResponses are the ones that the theorems are about.
ASSUME ProperResponses ==
  Responses = MCResponses =>
    \A m \in {"passthrough", "pii"} : \A r \in Responses[m] :
      LET pii == m = "pii"
          blocks == Blocks(pii, r)
          rest == Drop(Parsed(pii, r), Len(FlattenSeq(blocks)))
      IN IsResponse(pii, r, blocks, rest)

\* So are the requests of MCScripts.
ASSUME ProperScripts ==
  Scripts = MCScripts => \A m \in {"passthrough", "pii"} : \A s \in Scripts[m] : IsScript(m, s)

-----------------------------------------------------------------------------
(* Inputs that the handlers do not cope with; see the README. *)

\* Chunks that end inside of an event, for the parser without the decoder.
CutResponses == [m \in {"passthrough", "pii"} |-> IF m = "pii" THEN {} ELSE Cut]

\* An event with two data lines, and one that ends with the connection.
TwoLines == <<Event(<<>>, <<<<0>>, <<TEXT>>>>), Event(<<>>, <<<<DONE>>>>)>>
TwoLineResponses == [m \in {"passthrough", "pii"} |->
  {[framing |-> "chunked", chunks |-> <<EventStream(TwoLines, <<LF>>)>>, last |-> LastChunk,
    sse |-> TRUE, events |-> TwoLines, early |-> FALSE]}]
UnchunkedResponses == [m \in {"passthrough", "pii"} |->
  {[r EXCEPT !.framing = "none"] : r \in Aligned}]

\* A chunk that looks like the last one, a last chunk with a trailer, and a
\* request without a length before another one.
LastChunkInside == [m \in {"passthrough", "pii"} |-> {<<Request("chunked", <<LastChunk>>)>>}]
WithTrailer == [m \in {"passthrough", "pii"} |->
  {<<[Request("chunked", <<<<TEXT>>>>) EXCEPT !.last = <<0>> \o CRLF \o <<LINE>> \o Blank]>>}]
BodylessFirst == [m \in {"passthrough", "pii"} |->
  {<<Request("none", <<>>), Request("length", <<<<TEXT>>>>)>>}]

\* A request that comes early behind one that is forwarded as it comes.
Pipelined == [m \in {"passthrough", "pii"} |->
  {<<Request("length", <<<<TEXT>>>>), Early(Request("length", <<<<0>>>>))>>}]

\* The same behind a chunked request without a body.
BehindEmpty == [m \in {"passthrough", "pii"} |->
  {<<Request("chunked", <<>>), Early(Request("chunked", <<<<TEXT>>>>))>>}]
=============================================================================
