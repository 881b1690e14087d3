------------------------------- MODULE Llhttp -------------------------------
(***************************************************************************)
(* The response parser: the states of the generated source/corehttp/       *)
(* llhttp.c (its loose half, from line 7589) that responses reach, with    *)
(* http.c, and the callbacks of core_http_client.cpp that it calls: those  *)
(* of HTTPClient_Send, and those of HTTPClient_ReadHeader, which looks for *)
(* one header in a response that was received.                             *)
(*                                                                         *)
(* A response is a sequence of tokens [k, v], pieces that no receive cuts: *)
(* the protocol version of a status line ("http"), its code, words of a    *)
(* reason phrase, line ends, pieces of field names and of values, values   *)
(* behind a line break and white space ("lws"), colons, chunk sizes and    *)
(* parameters, bytes of a body.  Names, values, phrases and bodies are     *)
(* spans: they are reported piece by piece when receives cut them.         *)
(*                                                                         *)
(* A record s holds what llhttp_t, HTTPParsingContext_t and HTTPResponse_t *)
(* hold.  Locations are positions in the response buffer, 0 is NULL.       *)
(***************************************************************************)
EXTENDS Integers, Sequences

CONSTANTS
  RespSize,   \* bufferLen of the response
  MaxLength,  \* ULLONG_MAX, the greatest length of llhttp
  Sizes       \* how many values a size_t has

ASSUME ResponseAssumption ==
  RespSize \in Nat \ {0} /\ MaxLength \in Nat /\ Sizes \in Nat \ {0}

\* header_state: the headers llhttp itself looks at, and the words of their
\* values.  Tokens of names and values carry them.
General    == 0
Connection == 1
Length     == 2
Encoding   == 3
Upgrade    == 4
KeepAlive  == 5
Closing    == 6
Switching  == 7
Chunked    == 8

NoText == [at |-> 0, len |-> 0]

NoSearch == [field |-> <<>>, fieldFound |-> FALSE, valueFound |-> FALSE, value |-> NoText]

InitialState(head) ==
  [st |-> "start", err |-> "HPE_OK", version |-> 0, code |-> 0, flags |-> {}, length |-> 0,
   upgrade |-> FALSE, header |-> General, span |-> "none", from |-> 0,     \* llhttp_t
   state |-> "none", cur |-> 1, field |-> NoText, value |-> NoText,
   head |-> head,                                       \* HTTPParsingContext_t
   buf |-> [i \in 1 .. RespSize |-> [k |-> "empty", v |-> 0]], statusCode |-> 0,
   hdr |-> 0, hdrLen |-> 0, count |-> 0, contentLength |-> 0, respFlags |-> {},
   body |-> 0, bodyLen |-> 0,                                \* HTTPResponse_t
   find |-> NoSearch,                                   \* findHeaderContext_t
   seen |-> <<>>,     \* what onHeaderCallback was given so far
   begun |-> 0,       \* how many messages have begun (history)
   failed |-> FALSE]  \* has an assert of a callback failed?

Asserted(s, condition) == [s EXCEPT !.failed = @ \/ ~condition]

Text(s, t) == SubSeq(s.buf, t.at, t.at + t.len - 1)

-----------------------------------------------------------------------------
(* The callbacks of core_http_client.cpp; loc and n are the span.          *)

ProcessCompleteHeader(s) ==
  IF s.field.at = 0 \/ s.value.at = 0 THEN s
  ELSE [s EXCEPT !.count = @ + 1,
                 !.seen = Append(@, <<Text(s, s.field), Text(s, s.value)>>),
                 !.field = NoText,
                 !.value = NoText]

\* A later piece of a text that was begun makes it longer.
Extend(t, loc, n) == IF t.at = 0 THEN [at |-> loc, len |-> n] ELSE [t EXCEPT !.len = @ + n]

OnMessageBegin(s) == [s EXCEPT !.state = "incomplete", !.begun = @ + 1]

OnStatus(s, loc, n) ==
  [s EXCEPT !.cur = loc + n, !.field = NoText, !.value = NoText, !.statusCode = s.code]

OnHeaderField(s, loc, n) ==
  [ProcessCompleteHeader([s EXCEPT !.hdr = IF @ = 0 THEN loc ELSE @, !.cur = loc + n])
     EXCEPT !.field = Extend(@, loc, n)]

\* The definitions named Wrong... are the code with a plausible mistake.
WrongOnHeaderValue(s, loc, n) ==  \* a header is taken for complete with its value
  ProcessCompleteHeader(Asserted([s EXCEPT !.cur = loc + n, !.value = Extend(@, loc, n)],
                                 s.field.at # 0))

OnHeaderValue(s, loc, n) ==
  Asserted([s EXCEPT !.cur = loc + n, !.value = Extend(@, loc, n)], s.field.at # 0)

OnHeadersComplete(s) ==
  LET a == Asserted(s, s.cur \in 1 .. RespSize /\ (s.hdr # 0 => s.hdr < s.cur))
  IN  ProcessCompleteHeader(
        [a EXCEPT !.hdrLen = IF s.hdr = 0 THEN 0 ELSE s.cur - s.hdr,
                  !.contentLength = IF s.length = MaxLength THEN 0 ELSE s.length % Sizes,
                  !.respFlags = @ \cup (s.flags \cap {"close", "keep-alive"}),
                  !.flags = IF s.head THEN @ \cup {"skipbody"} ELSE @])

\* memmove of the n bytes at loc to the position to.
Moved(buf, to, loc, n) ==
  [i \in DOMAIN buf |-> IF i - to \in 0 .. n - 1 THEN buf[loc + i - to] ELSE buf[i]]

WrongOnBody(s, loc, n) ==  \* chunks are left where they were received
  [s EXCEPT !.body = IF @ = 0 THEN loc ELSE @, !.bodyLen = @ + n, !.cur = loc + n]

\* The body is moved up over chunk headers.
OnBody(s, loc, n) ==
  LET first == s.body = 0
      body  == IF first THEN loc ELSE s.body
      next  == IF first THEN loc ELSE s.body + s.bodyLen
  IN  Asserted([s EXCEPT !.body = body,
                         !.buf = IF loc > next THEN Moved(@, next, loc, n) ELSE @,
                         !.bodyLen = IF first THEN n ELSE @ + n,
                         !.cur = loc + n],
               loc \in 1 .. RespSize)

OnMessageComplete(s) == [s EXCEPT !.state = "complete"]

-----------------------------------------------------------------------------
(* The callbacks of HTTPClient_ReadHeader.                                 *)

Searching(s) == s.find.field # <<>>

FindField(s, loc, n) ==
  [Asserted(s, ~s.find.fieldFound /\ ~s.find.valueFound) EXCEPT
     !.find.fieldFound = @ \/ SubSeq(s.buf, loc, loc + n - 1) = s.find.field]

WrongFindValue(s, loc, n) ==  \* the name of the header is not looked at
  [s EXCEPT !.find.valueFound = TRUE, !.find.value = [at |-> loc, len |-> n],
            !.find.fieldFound = TRUE, !.err = "HPE_USER"]

\* LLHTTP_STOP_PARSING once the value is there.
FindValue(s, loc, n) ==
  LET a == Asserted(s, ~s.find.valueFound)
  IN  IF ~s.find.fieldFound THEN a
      ELSE [a EXCEPT !.find.valueFound = TRUE,
                     !.find.value = IF n > 0 THEN [at |-> loc, len |-> n] ELSE NoText,
                     !.err = "HPE_USER"]

-----------------------------------------------------------------------------
(* llhttp.                                                                 *)

\* The callback of the open span, with the part of it in front of q.
Report(s, q) ==
  LET loc == s.from
      n   == q - s.from
  IN  IF Searching(s)
      THEN CASE s.span = "field" -> FindField(s, loc, n)
             [] s.span = "value" -> FindValue(s, loc, n)
             [] OTHER -> s
      ELSE CASE s.span = "status" -> OnStatus(s, loc, n)
             [] s.span = "field"  -> OnHeaderField(s, loc, n)
             [] s.span = "value"  -> OnHeaderValue(s, loc, n)
             [] s.span = "body"   -> OnBody(s, loc, n)
             [] OTHER -> s

Goto(s, st)       == [s EXCEPT !.st = st]
Open(s, span, q)  == [s EXCEPT !.span = span, !.from = q]
Fail(s, err)      == [s EXCEPT !.err = IF @ = "HPE_OK" THEN err ELSE @, !.st = "error"]

\* The next state is st, unless the callback stops the parser.
EndSpan(s, q, st) ==
  LET r == Report(s, q)
  IN  [r EXCEPT !.span = "none", !.from = 0, !.st = IF r.err = "HPE_OK" THEN st ELSE "error"]

\* llhttp_message_needs_eof, for responses.
NeedsEof(s) ==
  /\ s.code \div 100 # 1 /\ s.code \notin {204, 304}
  /\ "skipbody" \notin s.flags
  /\ s.flags \cap {"chunked", "length"} = {} \/ ("transfer" \in s.flags /\ "chunked" \notin s.flags)

\* llhttp_should_keep_alive; only a version whose minor number is not zero
\* counts as 1.1.
ShouldKeepAlive(s) ==
  /\ IF s.version > 10 /\ s.version % 10 > 0 THEN "close" \notin s.flags ELSE "keep-alive" \in s.flags
  /\ ~NeedsEof(s)

MessageBegin(s)  == IF Searching(s) THEN s ELSE OnMessageBegin(s)
MessageEnd(s)    == IF Searching(s) THEN s ELSE OnMessageComplete(s)

\* on_message_complete, then llhttp__after_message_complete.
MessageComplete(s) ==
  [MessageEnd(s) EXCEPT !.st = IF ShouldKeepAlive(s) THEN "start" ELSE "closed", !.flags = {}]

PauseUpgrade(s) == Fail(MessageEnd(s), "HPE_PAUSED_UPGRADE")

\* on_message_complete behind a body.
BodyComplete(s) == IF s.upgrade THEN PauseUpgrade(s) ELSE MessageComplete(s)

\* llhttp__before_headers_complete; the method of a response is none.
BeforeHeaders(s) ==
  [s EXCEPT !.upgrade = {"upgrade", "switch"} \subseteq s.flags /\ s.code = 101]

\* llhttp__on_headers_complete: the callback of HTTPClient_ReadHeader returns 1,
\* which sets the flag for no body.
HeadersComplete(s) ==
  IF Searching(s) THEN [s EXCEPT !.flags = @ \cup {"skipbody"}] ELSE OnHeadersComplete(s)

\* llhttp__after_headers_complete.
AfterHeaders(s) ==
  LET hasBody == "chunked" \in s.flags \/ s.length > 0 IN
  IF s.upgrade /\ ("skipbody" \in s.flags \/ ~hasBody) THEN PauseUpgrade(s)
  ELSE CASE "skipbody" \in s.flags -> MessageComplete(s)
         [] "skipbody" \notin s.flags /\ "chunked" \in s.flags -> [s EXCEPT !.st = "size", !.length = 0]
         [] s.flags \cap {"skipbody", "chunked"} = {} /\ "transfer" \in s.flags -> Goto(s, "eof")
         [] s.flags \cap {"skipbody", "chunked", "transfer"} = {} ->
              IF "length" \in s.flags
              THEN IF s.length = 0 THEN MessageComplete(s) ELSE Goto(s, "identity")
              ELSE IF NeedsEof(s) THEN Goto(s, "eof") ELSE MessageComplete(s)

\* The empty line after the headers, or after the trailer of a chunked body.
HeadersDone(s) ==
  IF "trailing" \in s.flags THEN BodyComplete(s)
  ELSE IF {"transfer", "length"} \subseteq s.flags THEN Fail(s, "HPE_UNEXPECTED_CONTENT_LENGTH")
  ELSE AfterHeaders(HeadersComplete(BeforeHeaders(s)))

\* header_field_start.
FieldStart(s, q) ==
  CASE s.buf[q].k = "nl"    -> HeadersDone(s)
    [] s.buf[q].k = "field" -> [Goto(Open(s, "field", q), "field") EXCEPT !.header = s.buf[q].v]
    [] OTHER -> Fail(s, "HPE_INVALID_HEADER_TOKEN")

FieldName(s, q, t) ==
  CASE t.k = "field" -> s
    [] t.k = "colon" -> EndSpan(s, q, "discard_ws")
    [] OTHER -> Fail(s, "HPE_INVALID_HEADER_TOKEN")

\* What the value said so far becomes a flag: at a comma and at its end.
Flag == [h \in KeepAlive .. Chunked |->
           CASE h = KeepAlive -> "keep-alive" [] h = Closing -> "close"
             [] h = Switching -> "switch"     [] h = Chunked -> "chunked"]

Flagged(s) ==
  IF s.header \in DOMAIN Flag THEN [s EXCEPT !.flags = @ \cup {Flag[s.header]}] ELSE s

\* A digit of a Content-Length.
Digit(s, q, d) ==
  IF s.length * 10 + d > MaxLength THEN Fail(EndSpan(s, q + 1, "error"), "HPE_INVALID_CONTENT_LENGTH")
  ELSE [s EXCEPT !.length = @ * 10 + d]

\* A word of a Connection header, with the comma before it.
ConnectionWord(s, v) ==
  [Flagged(s) EXCEPT !.header = IF v \in {KeepAlive, Closing, Switching} THEN v ELSE Connection]

\* A word of a Transfer-Encoding: the last one decides.
EncodingWord(s, v) == [s EXCEPT !.header = IF v = Chunked THEN Chunked ELSE General]

Word(s, q) ==
  LET v == s.buf[q].v IN
  CASE s.st = "length"     -> Digit(s, q, v)
    [] s.st = "connection" -> ConnectionWord(s, v)
    [] s.st = "encoding"   -> EncodingWord(s, v)
    [] s.st = "value"      -> s

\* The first token of a value, or of a line that continues it.
ValueStart(s, q) ==
  LET o == Open(s, "value", q) IN
  CASE s.header = Length /\ "length" \in s.flags -> Fail(o, "HPE_UNEXPECTED_CONTENT_LENGTH")
    [] s.header = Length /\ "length" \notin s.flags -> Word(Goto(o, "length"), q)
    [] s.header = Connection -> Word(Goto(o, "connection"), q)
    [] s.header = Encoding ->
         Word([Goto(o, "encoding") EXCEPT !.flags = (@ \ {"chunked"}) \cup {"transfer"}], q)
    [] s.header = Upgrade -> [Goto(o, "value") EXCEPT !.flags = @ \cup {"upgrade"}, !.header = General]
    [] OTHER -> Goto(o, "value")

BadValue(s, q) ==
  IF s.header = Length THEN Fail(EndSpan(s, q, "error"), "HPE_INVALID_CONTENT_LENGTH")
  ELSE Fail(s, "HPE_INVALID_HEADER_TOKEN")

DiscardWs(s, q, t) ==
  CASE t.k = "nl"    -> Goto(s, "discard_lws")
    [] t.k = "value" -> ValueStart(s, q)
    [] OTHER -> BadValue(Open(s, "value", q), q)

\* An empty value is reported at the next line, unless that continues it.
DiscardLws(s, q, t) ==
  IF t.k = "lws" THEN ValueStart(s, q)
  ELSE IF s.header = Length THEN Fail(s, "HPE_INVALID_CONTENT_LENGTH")
  ELSE LET e == EndSpan(Open(s, "value", q), q, "field_start")
       IN  IF e.err = "HPE_OK" THEN FieldStart(e, q) ELSE e

ValueText(s, q, t) ==
  CASE t.k = "value" -> Word(s, q)
    [] t.k = "nl"    -> EndSpan([s EXCEPT !.flags = IF s.st = "length" THEN @ \cup {"length"} ELSE @],
                                q, "lws")
    [] OTHER -> BadValue(s, q)

\* The line after a value may go on with it, as a span of its own.
Lws(s, q, t) == IF t.k = "lws" THEN ValueStart(s, q) ELSE FieldStart(Flagged(s), q)

\* The status line.
Start(s, t) ==
  CASE t.k = "nl" -> s
    [] t.k = "http" /\ t.v # 0 -> [MessageBegin(s) EXCEPT !.version = t.v, !.st = "code"]
    [] t.k = "http" /\ t.v = 0 -> Fail(MessageBegin(s), "HPE_INVALID_VERSION")
    [] OTHER -> Fail(MessageBegin(s), "HPE_INVALID_CONSTANT")

StatusCode(s, t) ==
  IF t.k = "code" /\ t.v <= 999 THEN [s EXCEPT !.code = t.v, !.st = "status_start"]
  ELSE Fail(s, "HPE_INVALID_STATUS")

StatusText(s, q, t) ==
  IF t.k = "nl" THEN (IF s.st = "status" THEN EndSpan(s, q, "field_start") ELSE Goto(s, "field_start"))
  ELSE IF s.st = "status" THEN s ELSE Goto(Open(s, "status", q), "status")

\* A byte of the body; the last one of the length ends the span.
Consume(s, q, st) ==
  LET o == IF s.span = "none" THEN Open(s, "body", q) ELSE s
      d == [o EXCEPT !.length = @ - 1]
  IN  IF d.length > 0 THEN d ELSE EndSpan(d, q + 1, st)

\* A body of the length announced, and one that the connection ends.
Identity(s, q) ==
  LET c == Consume(s, q, "identity_done")
  IN  IF c.st = "identity_done" THEN BodyComplete(c) ELSE c

UntilEof(s, q) == IF s.span = "none" THEN Open(s, "body", q) ELSE s

ChunkSize(s, t) ==
  IF t.k = "size" /\ t.v <= MaxLength THEN [s EXCEPT !.length = t.v, !.st = "size_end"]
  ELSE Fail(s, "HPE_INVALID_CHUNK_SIZE")

\* The end of a chunk header: the last chunk has no bytes.
ChunkHeader(s) ==
  IF s.length = 0 THEN [s EXCEPT !.flags = @ \cup {"trailing"}, !.st = "field_start"]
  ELSE Goto(s, "chunk")

SizeEnd(s, t) ==
  CASE t.k = "nl"    -> ChunkHeader(s)
    [] t.k = "param" -> Goto(s, "parameters")
    [] OTHER -> Fail(s, "HPE_INVALID_CHUNK_SIZE")

Parameters(s, t) == IF t.k = "nl" THEN ChunkHeader(s) ELSE s

ChunkEnd(s) == [s EXCEPT !.length = 0, !.st = "size"]

\* llhttp__internal__run, for one token; closed ignores everything.
Feed(s, q) ==
  LET t == s.buf[q] IN
  CASE s.st = "start"       -> Start(s, t)
    [] s.st = "code"        -> StatusCode(s, t)
    [] s.st \in {"status_start", "status"} -> StatusText(s, q, t)
    [] s.st = "field_start" -> FieldStart(s, q)
    [] s.st = "field"       -> FieldName(s, q, t)
    [] s.st = "discard_ws"  -> DiscardWs(s, q, t)
    [] s.st = "discard_lws" -> DiscardLws(s, q, t)
    [] s.st \in {"length", "connection", "encoding", "value"} -> ValueText(s, q, t)
    [] s.st = "lws"         -> Lws(s, q, t)
    [] s.st = "identity"    -> Identity(s, q)
    [] s.st = "eof"         -> UntilEof(s, q)
    [] s.st = "size"        -> ChunkSize(s, t)
    [] s.st = "size_end"    -> SizeEnd(s, t)
    [] s.st = "parameters"  -> Parameters(s, t)
    [] s.st = "chunk"       -> Consume(s, q, "chunk_end")
    [] s.st = "chunk_end"   -> ChunkEnd(s)
    [] s.st \in {"closed", "error"} -> s

\* The end of llhttp_execute at q: an open span is reported up to there, where
\* the next call takes it up again; not after an error.
Flush(s, q) == IF s.err # "HPE_OK" \/ s.span = "none" THEN s ELSE [Report(s, q) EXCEPT !.from = q]
=============================================================================
