------------------------------- MODULE Framing -------------------------------
(***************************************************************************)
(* HTTP/1.1 and SSE framing (src/src/proxy/intercept/framing.rs,           *)
(* src/src/parser/sse.rs) as the two directions of a connection use them:  *)
(* bytes arrive in reads of any size, and the handlers find where headers, *)
(* bodies, chunks and events end.                                          *)
(*                                                                         *)
(* A behaviour is one direction: the requests of one client, read by       *)
(* handle_c2u_passthrough or handle_c2u_pii, or one response, read by      *)
(* handle_u2c.  A byte is an integer.  A natural number stands for the     *)
(* digits that write it; separators, field names, header lines and values, *)
(* which nobody looks into, are one negative number each.                  *)
(***************************************************************************)
EXTENDS Integers, Sequences, FiniteSetsExt, SequencesExt, Subsequences

CONSTANTS
  Scripts,     \* pii_mode -> the sequences of requests that a client may send
  Responses    \* pii_mode -> the responses that an upstream may send

CR == -1
LF == -2
LINE == -3        \* a header line of no interest
TE == -4          \* Transfer-Encoding: chunked
CL == -5          \* Content-Length:
AE == -6          \* Accept-Encoding: as the client sends it
IDENTITY == -7    \* Accept-Encoding: identity
SSE == -8         \* Content-Type: text/event-stream
EVENT == -9       \* event:
DATA == -10       \* data:
NOTE == -11       \* a comment line
DELTA == -12      \* content_block_delta
STOP == -13       \* message_stop
DONE == -14       \* [DONE]
TEXT == -15       \* a JSON value
SECRET == -16     \* something that the pipeline replaces
TOKEN == -17      \* a byte of its replacement

Absent == -100
Bytes == Seq(Int)
CRLF  == <<CR, LF>>
Blank == CRLF \o CRLF
LastChunk == <<0>> \o Blank

VARIABLES
  dir,        \* "request" or "response"
  pii_mode,   \* "passthrough", or "pii" with replacement
  script,     \* the requests, or the response as a sequence of one
  sent,       \* how many of them were sent
  wire,       \* bytes sent and not read yet
  raw,        \* raw; body_buf once the headers of a response are done
  st,         \* HttpFramingState, and is_sse
  dec,        \* ChunkedDecoder
  sse,        \* SseParser::buffer
  place,      \* where the handler is in its loop
  out,        \* bytes written to the other side
  seen        \* request bodies logged; SSE events handled

framingVars == <<dir, pii_mode, script, sent, wire, raw, st, dec, sse, place, out, seen>>

Take(s, n) == SubSeq(s, 1, n)
Drop(s, n) == SubSeq(s, n + 1, Len(s))

\* Where s begins in d for the first time, 0 if nowhere.
Index(d, s) ==
  LET hits == {i \in 1..(Len(d) - Len(s) + 1) : SubSeq(d, i, i + Len(s) - 1) = s}
  IN IF hits = {} THEN 0 ELSE Min(hits)

Unterminated(l) == IF l # <<>> /\ Last(l) = CR THEN Front(l) ELSE l

\* The lines of d from each of its positions, without their ends.
LinesFrom(d) ==
  LET from[p \in 1..(Len(d) + 1)] ==
        LET i == Index(Drop(d, p - 1), <<LF>>)
        IN IF i = 0 THEN <<Unterminated(Drop(d, p - 1))>>
           ELSE <<Unterminated(SubSeq(d, p, p + i - 2))>> \o from[p + i]
  IN from

Lines(d) == LinesFrom(d)[1]

\* The lines that begin with b.
Starting(d, b) == {i \in DOMAIN Lines(d) : Lines(d)[i] # <<>> /\ Head(Lines(d)[i]) = b}

-----------------------------------------------------------------------------
(* framing.rs *)

\* Length of the header, 0 while its end has not arrived.
FindHeaderEnd(d) == LET i == Index(d, Blank) IN IF i = 0 THEN 0 ELSE i + 3

ParseContentLength(h) ==
  IF Starting(h, CL) = {} THEN Absent ELSE Lines(h)[Min(Starting(h, CL))][2]

IsChunkedEncoding(h) == Starting(h, TE) # {}

\* Mutant: the blank line behind the last chunk is not waited for.
FindLastChunkLine(b) ==
  LET i == Index(b, CRLF \o <<0>> \o CRLF)
  IN IF i > 0 THEN i + 4
     ELSE IF IsPrefix(<<0>> \o CRLF, b) THEN 3 ELSE 0

\* Length of a chunked body, found by its last bytes; 0 while it is not found.
FindChunkedBodyEnd(b) ==
  LET i == Index(b, CRLF \o LastChunk)
  IN IF i > 0 THEN i + 6
     ELSE IF IsPrefix(LastChunk, b) THEN 5 ELSE 0

\* A chunk-size line up to its extension.
SizeOf(line) == IF line # <<>> /\ Head(line) >= 0 THEN Head(line) ELSE Absent

Decoded(b) == [res |-> "some", body |-> b]
Failed == [res |-> "none", body |-> <<>>]
Panic  == [res |-> "panic", body |-> <<>>]

\* What the chunks of d from each of its positions decode to.  A chunk that
\* ends less than two bytes before the end of the slice makes the next index
\* run past it.
DecodedFrom(d) ==
  LET from[p \in 1..(Len(d) + 3)] ==
        LET i == Index(Drop(d, p - 1), CRLF)
            size == SizeOf(SubSeq(d, p, p + i - 2))
            data == p + i + 1
            rest == from[data + size + 2]
        IN IF p > Len(d) + 1 THEN Panic
           ELSE IF i = 0 \/ size = Absent THEN Failed
           ELSE IF size = 0 THEN Decoded(<<>>)
           ELSE IF data + size - 1 > Len(d) THEN Failed
           ELSE [rest EXCEPT !.body = SubSeq(d, data, data + size - 1) \o @]
  IN from

\* decode_chunked_body
DecodeChunkedBody(d) == DecodedFrom(d)[1]

\* rebuild_request_with_content_length
Rebuilt(h, body) ==
  LET kept == Picked(Lines(h), {i \in DOMAIN Lines(h) : Lines(h)[i] # <<>> /\ Head(Lines(h)[i]) \notin {TE, CL, AE}})
  IN FlattenSeq([i \in DOMAIN kept |-> kept[i] \o CRLF])
     \o <<CL, Len(body)>> \o CRLF \o <<IDENTITY>> \o Blank \o body

\* write_http_chunk
Chunk(d) == <<Len(d)>> \o CRLF \o d \o CRLF

-----------------------------------------------------------------------------
(* sse.rs, and reconstruct_sse_event_bytes of pii_sse.rs *)

\* find_double_newline: <<where the block ends, where the separator ends>>.
FindDoubleNewline(b) ==
  LET crs == Index(b, Blank)
      lfs == Index(b, <<LF, LF>>)
  IN CASE crs = 0 /\ lfs = 0 -> <<>>
       [] crs > 0 /\ (lfs = 0 \/ crs < lfs) -> <<crs - 1, crs + 3>>
       [] OTHER -> <<lfs - 1, lfs + 1>>

Joined(parts) ==
  FlattenSeq([i \in DOMAIN parts |-> IF i = 1 THEN parts[i] ELSE <<LF>> \o parts[i]])

\* parse_event_block: the last event: line, and all data: lines.
ParseEventBlock(b) ==
  LET values(f) == LET ls == Picked(Lines(b), Starting(b, f))
                   IN [i \in DOMAIN ls |-> Tail(ls[i])]
  IN [type |-> IF values(EVENT) = <<>> THEN <<>> ELSE Last(values(EVENT)),
      some |-> values(DATA) # <<>>,
      data |-> Joined(values(DATA))]

\* The event that ends a response: [DONE], or Anthropic's message_stop.
EndsResponse(e) == e.data = <<DONE>> \/ e.type = <<STOP>>

Reconstruct(e) ==
  (IF e.type = <<>> THEN <<>> ELSE <<EVENT>> \o e.type \o <<LF>>)
  \o <<DATA>> \o e.data \o <<LF, LF>>

-----------------------------------------------------------------------------
(* The two peers *)

Body(m) == FlattenSeq(m.chunks)

HeaderLines(m) ==
  <<<<LINE>>, <<AE>>>>
  \o (IF m.sse THEN <<<<SSE>>>> ELSE <<>>)
  \o CASE m.framing = "length"  -> <<<<CL, Len(Body(m))>>>>
       [] m.framing = "chunked" -> <<<<TE>>>>
       [] m.framing = "none"    -> <<>>

\* The lines of a header, with a blank one behind them.
Header(lines) == FlattenSeq([i \in DOMAIN lines |-> lines[i] \o CRLF]) \o CRLF

Payload(m) ==
  IF m.framing = "chunked"
  THEN FlattenSeq([i \in DOMAIN m.chunks |-> Chunk(m.chunks[i])]) \o m.last ELSE Body(m)

Encoded(m) == Header(HeaderLines(m)) \o Payload(m)

\* What the pipeline makes of a body; it gets longer.
Masked(b) == FlattenSeq([i \in DOMAIN b |-> IF b[i] = SECRET THEN <<TOKEN, TOKEN>> ELSE <<b[i]>>])

\* An event as its reader expects it, with a field per line.
ShownEvent(e) ==
  (IF e.type = <<>> THEN <<>> ELSE <<EVENT>> \o e.type \o <<LF>>)
  \o FlattenSeq([i \in DOMAIN e.data |-> <<DATA>> \o e.data[i] \o <<LF>>]) \o <<LF>>

\* What the other side has to get for m.
Due(m) ==
  LET head(b) == <<LINE>> \o CRLF \o <<CL, Len(b)>> \o CRLF \o <<IDENTITY>> \o Blank
      framed(d) == IF m.framing = "chunked" THEN Chunk(d) ELSE d
      end == IF m.framing = "chunked" THEN LastChunk ELSE <<>>
  IN CASE dir = "request" /\ pii_mode = "pii" -> head(Masked(Body(m))) \o Masked(Body(m))
       [] dir = "request" /\ pii_mode # "pii" /\ m.framing = "chunked" -> head(Body(m)) \o Body(m)
       [] dir = "response" /\ pii_mode = "pii" /\ m.sse ->
            Take(Encoded(m), Index(Encoded(m), Blank) + 3)
            \o FlattenSeq([i \in DOMAIN m.events |-> framed(ShownEvent(m.events[i]))]) \o end
       [] OTHER -> Encoded(m)

\* What has to be logged or handled for m.
Told(m) ==
  IF dir = "request" THEN (IF Body(m) = <<>> THEN <<>> ELSE <<Body(m)>>)
  ELSE [i \in DOMAIN m.events |-> [type |-> m.events[i].type, data |-> Joined(m.events[i].data)]]

Sofar(F(_)) == FlattenSeq([i \in 1..sent |-> F(script[i])])

Idle == [header_done |-> FALSE, content_length |-> Absent, is_chunked |-> FALSE, is_sse |-> FALSE,
         body_start |-> 0, forwarded |-> 0, body_received |-> 0]

FramingInit ==
  /\ dir \in {"request", "response"}
  /\ pii_mode \in {"passthrough", "pii"}
  /\ script \in IF dir = "request" THEN Scripts[pii_mode] ELSE {<<r>> : r \in Responses[pii_mode]}
  /\ sent = 0
  /\ wire = <<>>
  /\ raw = <<>>
  /\ st = Idle
  /\ dec = [buf |-> <<>>, chunk_remaining |-> 0, state |-> "ReadingSize"]
  /\ sse = <<>>
  /\ place = "read"
  /\ out = <<>>
  /\ seen = <<>>

\* A client waits until the upstream has answered, and so has its request,
\* unless it sends this one early.
Send ==
  /\ sent < Len(script)
  /\ script[sent + 1].early \/ (wire = <<>> /\ out = Sofar(Due))
  /\ sent' = sent + 1
  /\ wire' = wire \o Encoded(script[sent + 1])
  /\ UNCHANGED <<dir, pii_mode, script, raw, st, dec, sse, place, out, seen>>

-----------------------------------------------------------------------------
(* Client -> upstream: handle_c2u_passthrough and handle_c2u_pii *)

BodySoFar == Drop(raw, st.body_start)

\* needs_more; handle_c2u_pii reads in every round.
NeedsMore ==
  \/ pii_mode = "pii"
  \/ ~st.header_done /\ FindHeaderEnd(raw) = 0
  \/ st.header_done /\ CASE st.content_length # Absent -> Len(raw) < st.body_start + st.content_length
                         [] st.is_chunked -> FindChunkedBodyEnd(BodySoFar) = 0
                         [] OTHER -> TRUE

ReadRequest ==
  /\ dir = "request" /\ place = "read" /\ NeedsMore
  /\ \E n \in 1..Len(wire) :
       /\ raw' = raw \o Take(wire, n)
       /\ wire' = Drop(wire, n)
       /\ st' = IF st.header_done THEN [st EXCEPT !.body_received = @ + n] ELSE st
  /\ place' = "header"
  /\ UNCHANGED <<dir, pii_mode, script, sent, dec, sse, out, seen>>

KeepRequest ==
  /\ dir = "request" /\ place = "read" /\ ~NeedsMore
  /\ place' = "header"
  /\ UNCHANGED <<dir, pii_mode, script, sent, wire, raw, st, dec, sse, out, seen>>

HeaderState(h) ==
  LET cl == ParseContentLength(h) IN
  [st EXCEPT !.header_done = TRUE,
             !.body_start = Len(h),
             !.content_length = cl,
             !.is_chunked = cl = Absent /\ IsChunkedEncoding(h),
             !.is_sse = \E i \in DOMAIN h : h[i] = SSE,
             !.body_received = Len(raw) - Len(h)]

ParseRequestHeader ==
  /\ dir = "request" /\ place = "header"
  /\ LET e == FindHeaderEnd(raw) IN
     IF st.header_done THEN st' = st /\ place' = "body"
     ELSE IF e = 0 THEN st' = st /\ place' = "read"
     ELSE st' = HeaderState(Take(raw, e)) /\ place' = "body"
  /\ UNCHANGED <<dir, pii_mode, script, sent, wire, raw, dec, sse, out, seen>>

\* Passthrough: a body that is not chunked is forwarded as it comes.
ForwardEagerly ==
  /\ dir = "request" /\ place = "body" /\ pii_mode = "passthrough"
  /\ IF st.is_chunked THEN UNCHANGED <<out, st>>
     ELSE /\ out' = out \o Drop(raw, st.forwarded)
          /\ st' = [st EXCEPT !.forwarded = Len(raw)]
  /\ place' = "complete"
  /\ UNCHANGED <<dir, pii_mode, script, sent, wire, raw, dec, sse, seen>>

\* log_request, create_or_find_conversation: an empty body does not parse.
Logged(b) == IF b = <<>> THEN seen ELSE Append(seen, b)

\* The bytes of the request are taken out of raw, and its state is reset.
Consume(n) == raw' = Drop(raw, n) /\ st' = Idle

CompleteLength ==
  /\ dir = "request" /\ place = "complete" /\ st.content_length # Absent
  /\ IF Len(raw) >= st.body_start + st.content_length
     THEN /\ seen' = Logged(Take(BodySoFar, st.content_length))
          /\ Consume(st.body_start + st.content_length)
     ELSE UNCHANGED <<seen, raw, st>>
  /\ place' = "read"
  /\ UNCHANGED <<dir, pii_mode, script, sent, wire, dec, sse, out>>

CompleteChunked ==
  /\ dir = "request" /\ place = "complete" /\ st.is_chunked
  /\ LET end == FindChunkedBodyEnd(BodySoFar)
         got == DecodeChunkedBody(Take(BodySoFar, end))
     IN IF end = 0 THEN place' = "read" /\ UNCHANGED <<raw, st, out, seen>>
        ELSE IF got.res = "panic" THEN place' = "dead" /\ UNCHANGED <<raw, st, out, seen>>
        ELSE /\ IF got.res = "some"
                THEN /\ out' = out \o Rebuilt(Take(raw, st.body_start), got.body)
                     /\ seen' = Logged(got.body)
                ELSE /\ out' = out \o Take(raw, st.body_start + end)
                     /\ seen' = seen
             /\ Consume(st.body_start + end)
             /\ place' = "read"
  /\ UNCHANGED <<dir, pii_mode, script, sent, wire, dec, sse>>

CompleteUnknown ==
  /\ dir = "request" /\ place = "complete" /\ st.content_length = Absent /\ ~st.is_chunked
  /\ place' = "read"
  /\ UNCHANGED <<dir, pii_mode, script, sent, wire, raw, st, dec, sse, out, seen>>

BodyDone ==
  CASE st.content_length # Absent -> st.body_received >= st.content_length
    [] st.is_chunked -> FindChunkedBodyEnd(BodySoFar) > 0
    [] OTHER -> TRUE

\* handle_c2u_pii: the whole request, masked, with a new Content-Length.
ForwardMasked ==
  /\ dir = "request" /\ place = "body" /\ pii_mode = "pii"
  /\ LET n == IF st.is_chunked THEN FindChunkedBodyEnd(BodySoFar)
              ELSE IF st.content_length # Absent THEN st.content_length ELSE st.body_received
         slice == Take(BodySoFar, n)
         got == IF st.is_chunked THEN DecodeChunkedBody(slice) ELSE Decoded(slice)
         body == IF got.res = "some" THEN got.body ELSE slice
     IN IF ~BodyDone THEN place' = "read" /\ UNCHANGED <<raw, st, out, seen>>
        ELSE IF got.res = "panic" THEN place' = "dead" /\ UNCHANGED <<raw, st, out, seen>>
        ELSE /\ out' = out \o Rebuilt(Take(raw, st.body_start), Masked(body))
             /\ seen' = Logged(body)
             /\ Consume(st.body_start + n)
             /\ place' = "read"
  /\ UNCHANGED <<dir, pii_mode, script, sent, wire, dec, sse>>

\* End of input: what came without a length is logged now.
RequestEof ==
  /\ dir = "request" /\ place = "read" /\ NeedsMore
  /\ sent = Len(script) /\ wire = <<>>
  /\ place' = "done"
  /\ seen' = IF pii_mode = "passthrough" /\ st.header_done /\ st.content_length = Absent /\ ~st.is_chunked
             THEN Logged(BodySoFar) ELSE seen
  /\ UNCHANGED <<dir, pii_mode, script, sent, wire, raw, st, dec, sse, out>>

-----------------------------------------------------------------------------
(* Upstream -> client: handle_u2c *)

Rewriting(f) == pii_mode = "pii" /\ f.is_sse

\* The body bytes b of one read, under the header f, go to the decoder and on
\* to the parser, or to the client as they are and to the parser or body_buf.
Deliver(f, b, written) ==
  IF Rewriting(f)
  THEN /\ out' = written
       /\ IF f.is_chunked THEN dec' = [dec EXCEPT !.buf = @ \o b] /\ sse' = sse /\ place' = "decode"
                          ELSE dec' = dec /\ sse' = sse \o b /\ place' = "parse"
       /\ raw' = <<>>
  ELSE /\ out' = written \o b
       /\ dec' = dec
       /\ IF f.is_sse THEN sse' = sse \o b /\ raw' = <<>> /\ place' = "parse"
                      ELSE sse' = sse /\ raw' = (IF st.header_done THEN raw ELSE <<>>) \o b /\ place' = "end"

ReadResponseHeader ==
  /\ dir = "response" /\ place = "read" /\ ~st.header_done
  /\ \E n \in 1..Len(wire) : raw' = raw \o Take(wire, n) /\ wire' = Drop(wire, n)
  /\ place' = "header"
  /\ UNCHANGED <<dir, pii_mode, script, sent, st, dec, sse, out, seen>>

ParseResponseHeader ==
  /\ dir = "response" /\ place = "header"
  /\ LET e == FindHeaderEnd(raw)
         f == HeaderState(Take(raw, e))
     IN IF e = 0 THEN place' = "read" /\ UNCHANGED <<raw, st, dec, sse, out>>
        ELSE st' = f /\ Deliver(f, Drop(raw, e), out \o Take(raw, e))
  /\ UNCHANGED <<dir, pii_mode, script, sent, wire, seen>>

ReadResponseBody ==
  /\ dir = "response" /\ place = "read" /\ st.header_done
  /\ \E n \in 1..Len(wire) :
       /\ Deliver(st, Take(wire, n), out)
       /\ wire' = Drop(wire, n)
       /\ st' = [st EXCEPT !.body_received = @ + n]
  /\ UNCHANGED <<dir, pii_mode, script, sent, seen>>

\* One round of ChunkedDecoder::push in each of its states.
SizeLine == Take(dec.buf, Index(dec.buf, CRLF) - 1)
Stuck == Index(dec.buf, CRLF) = 0 \/ SizeOf(SizeLine) = Absent

DecodeSize ==
  /\ place = "decode" /\ dec.state = "ReadingSize"
  /\ CASE Stuck -> dec' = dec /\ place' = "parse"
       [] ~Stuck /\ SizeOf(SizeLine) = 0 -> dec' = [dec EXCEPT !.buf = <<>>] /\ place' = "parse"
       [] OTHER -> /\ dec' = [buf |-> Drop(dec.buf, Len(SizeLine) + 2),
                              chunk_remaining |-> SizeOf(SizeLine), state |-> "ReadingBody"]
                   /\ place' = "decode"
  /\ UNCHANGED <<dir, pii_mode, script, sent, wire, raw, st, sse, out, seen>>

DecodeBody ==
  /\ place = "decode" /\ dec.state = "ReadingBody"
  /\ LET take == Min({dec.chunk_remaining, Len(dec.buf)})
         left == dec.chunk_remaining - take
     IN /\ sse' = sse \o Take(dec.buf, take)
        /\ dec' = [buf |-> Drop(dec.buf, take), chunk_remaining |-> left,
                   state |-> IF left = 0 THEN "BodyTrail" ELSE "ReadingBody"]
        /\ place' = IF left = 0 THEN "decode" ELSE "parse"
  /\ UNCHANGED <<dir, pii_mode, script, sent, wire, raw, st, out, seen>>

\* Mutant: one byte is enough to skip the end of a chunk.
DecodeTrailEarly ==
  /\ place = "decode" /\ dec.state = "BodyTrail"
  /\ IF dec.buf = <<>> THEN dec' = dec /\ place' = "parse"
     ELSE dec' = [dec EXCEPT !.buf = Drop(@, 2), !.state = "ReadingSize"] /\ place' = "decode"
  /\ UNCHANGED <<dir, pii_mode, script, sent, wire, raw, st, sse, out, seen>>

DecodeTrail ==
  /\ place = "decode" /\ dec.state = "BodyTrail"
  /\ IF Len(dec.buf) < 2 THEN dec' = dec /\ place' = "parse"
     ELSE dec' = [dec EXCEPT !.buf = Drop(@, 2), !.state = "ReadingSize"] /\ place' = "decode"
  /\ UNCHANGED <<dir, pii_mode, script, sent, wire, raw, st, sse, out, seen>>

\* One event of SseParser::push and what the caller does with it.
ParseEvent ==
  /\ place = "parse" /\ FindDoubleNewline(sse) # <<>>
  /\ LET cut == FindDoubleNewline(sse)
         e == ParseEventBlock(Take(sse, cut[1]))
         ends == e.some /\ EndsResponse(e)
     IN /\ sse' = Drop(sse, cut[2])
        /\ seen' = IF e.some THEN Append(seen, [type |-> e.type, data |-> e.data]) ELSE seen
        /\ out' = IF ~Rewriting(st) \/ ~e.some THEN out
                  ELSE out \o Chunk(Reconstruct(e)) \o (IF ends THEN LastChunk ELSE <<>>)
        /\ place' = IF ends THEN "done" ELSE "parse"
  /\ UNCHANGED <<dir, pii_mode, script, sent, wire, raw, st, dec>>

\* Mutant: the beginning of an event is not kept for the next read.
RestForgotten ==
  /\ place = "parse" /\ FindDoubleNewline(sse) = <<>>
  /\ place' = "read"
  /\ sse' = <<>>
  /\ UNCHANGED <<dir, pii_mode, script, sent, wire, raw, st, dec, out, seen>>

NoMoreEvents ==
  /\ place = "parse" /\ FindDoubleNewline(sse) = <<>>
  /\ place' = "read"
  /\ UNCHANGED <<dir, pii_mode, script, sent, wire, raw, st, dec, sse, out, seen>>

\* A response that is no event stream is complete by its length or last chunk.
EndOfRead ==
  /\ place = "end"
  /\ place' = IF \/ st.content_length # Absent /\ st.body_received >= st.content_length
                 \/ st.is_chunked /\ FindChunkedBodyEnd(raw) > 0
              THEN "done" ELSE "read"
  /\ UNCHANGED <<dir, pii_mode, script, sent, wire, raw, st, dec, sse, out, seen>>

FramingNext ==
  \/ Send
  \/ ReadRequest \/ KeepRequest \/ ParseRequestHeader \/ ForwardEagerly
  \/ CompleteLength \/ CompleteChunked \/ CompleteUnknown \/ ForwardMasked \/ RequestEof
  \/ ReadResponseHeader \/ ParseResponseHeader \/ ReadResponseBody
  \/ DecodeSize \/ DecodeBody \/ DecodeTrail
  \/ ParseEvent \/ NoMoreEvents \/ EndOfRead

FramingSpec == FramingInit /\ [][FramingNext]_framingVars

-----------------------------------------------------------------------------
(* Messages that the handlers are written for *)

IsMessage(m) ==
  /\ m.framing \in {"length", "chunked", "none"}
  /\ m.sse \in BOOLEAN
  /\ m.last = LastChunk
  /\ m.chunks \in Seq(Bytes) /\ \A i \in DOMAIN m.chunks : m.chunks[i] # <<>>
  /\ m.events \in Seq([type : Bytes, data : Seq(Bytes)])

\* Nothing in the chunks looks like the last chunk.
LastChunkApart(m) == Index(Payload(m), CRLF \o LastChunk) \in {0, Len(Payload(m)) - 6}

\* The parser finds the events of m in blocks, each as soon as its block is
\* there; rest follows them.  The last event, and no other one, ends the
\* response.
IsStream(m, blocks, rest) ==
  /\ blocks \in Seq(Bytes) /\ rest \in Bytes
  /\ m.events # <<>> /\ Len(blocks) = Len(m.events)
  /\ \A i \in DOMAIN blocks :
       LET cut == FindDoubleNewline(blocks[i])
           e == ParseEventBlock(Take(blocks[i], cut[1]))
       IN /\ cut # <<>> /\ cut[2] = Len(blocks[i])
          /\ e = [type |-> m.events[i].type, some |-> TRUE, data |-> Joined(m.events[i].data)]
          /\ EndsResponse(e) <=> i = Len(blocks)

\* What reaches the parser: the decoded body where it is rewritten, and the
\* body with its chunk sizes elsewhere.
Parsed(pii, m) == IF pii THEN Body(m) ELSE Payload(m)

IsResponse(pii, m, blocks, rest) ==
  /\ IsMessage(m) /\ m.framing # "none"
  /\ ~m.sse => m.events = <<>> /\ (m.framing = "chunked" => LastChunkApart(m))
  /\ m.sse => IsStream(m, blocks, rest) /\ Parsed(pii, m) = FlattenSeq(blocks) \o rest
  /\ m.sse /\ pii => m.framing = "chunked" /\ \A i \in DOMAIN m.events : Len(m.events[i].data) = 1

\* A request without a length has no body.
IsRequest(m) ==
  /\ IsMessage(m) /\ ~m.sse
  /\ m.framing = "chunked" => LastChunkApart(m)
  /\ m.framing = "none" => m.chunks = <<>>

\* Passthrough can tell the next request from one that it keeps back and that
\* has a body, and from one whose end it knows if the client waits for it.
IsScript(mode, reqs) ==
  /\ Len(reqs) \in Nat
  /\ \A i \in 1..Len(reqs) :
       IsRequest(reqs[i]) /\ (reqs[i].framing = "none" /\ mode = "passthrough" => i = Len(reqs))
  /\ \A i \in 2..Len(reqs) :
       reqs[i].early => mode = "passthrough" /\ reqs[i - 1].framing = "chunked" /\ reqs[i - 1].chunks # <<>>

-----------------------------------------------------------------------------
(* Properties *)

\* Everything that was sent has been read and worked on.
AllRead == wire = <<>> /\ (place = "done" \/ (place = "read" /\ (dir = "request" => NeedsMore)))

\* The other side gets, byte by byte, what is due for the messages that were
\* sent, and all of it once they have been read, wherever the reads and the
\* chunks end (handle_c2u_*, handle_u2c).
OutputExact ==
  /\ IsPrefix(out, Sofar(Due))
  /\ AllRead => out = Sofar(Due)

\* The bodies that are logged, and the events that are handled, are the ones
\* that were sent: the incremental decoder and parser find the same as a look
\* at the whole would (openspec/specs/sse-parser/spec.md, "Incremental Chunk
\* Stability").
ObservedExact ==
  /\ IsPrefix(seen, Sofar(Told))
  /\ AllRead => seen = Sofar(Told)

\* A message counts as complete once its last byte has been read and not
\* before, so that nothing of it is taken for the next one (an event stream
\* ends with its last event).
CompleteExactly ==
  /\ place # "dead"
  /\ dir = "request" /\ AllRead /\ st.content_length # Absent => ~st.header_done
  /\ dir = "request" /\ AllRead /\ ~st.header_done => raw = <<>>
  /\ dir = "response" /\ AllRead /\ sent = 1 => place = "done"
  /\ dir = "response" /\ place = "done" /\ ~st.is_sse => wire = <<>>
=============================================================================
