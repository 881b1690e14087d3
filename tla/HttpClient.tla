----------------------------- MODULE HttpClient -----------------------------
(***************************************************************************)
(* One HTTP request at a time: HTTPSendRequest of source/net/spmhttp.cpp,  *)
(* which opens a socket for it ("spm"), or an application that calls       *)
(* HTTPClient_InitializeRequestHeaders, HTTPClient_AddHeader,              *)
(* HTTPClient_AddRangeHeader and HTTPClient_Send itself over a transport   *)
(* and with a clock of its own ("app"), as core_http_client.h offers it;   *)
(* and HTTPClient_ReadHeader on the response.                              *)
(*                                                                         *)
(* The transport sends and receives any number of pieces at a time, fails  *)
(* whenever it likes and, an application's, returns zero while it waits.   *)
(* The server answers with messages of Answers and may close at any time.  *)
(***************************************************************************)
EXTENDS RequestHeaders, Llhttp, FiniteSets, SequencesExt

CONSTANTS
  Requests,    \* the requests, see Initial
  Additions,   \* what an application may add to them, see AddCall
  Answers,     \* sequences of messages, see Stream
  MaxAdded,    \* calls between for one request (bound)
  MaxAnswered, \* the same, for a request that the server answers (bound)
  MaxIdle      \* zero results in a row before a clock has timed out (bound)

ASSUME CallAssumption == MaxAdded \in Nat /\ MaxAnswered \in Nat /\ MaxIdle \in Nat \ {0}

\* Texts are sequences of pieces, of none if they are empty (NoMethod for a method);
\* a path ends in no line break; ranges are of int32_t.
ASSUME TextAssumption ==
  /\ \A req \in Requests :
       /\ req.method \in STRING /\ req.method # CRLF
       /\ req.path \in Seq(STRING) /\ (req.path # <<>> => req.path[Len(req.path)] # CRLF)
       /\ req.host \in Seq(STRING)
       /\ req.body \in Nat
       /\ req.keepAlive \in BOOLEAN /\ req.noLength \in BOOLEAN
  /\ \A c \in Additions :
       IF "field" \in DOMAIN c
       THEN c.field \in Seq(STRING) /\ c.value \in Seq(STRING)
       ELSE c.start \in Int /\ c.start >= Int32Min /\ c.end \in Int

\* Messages are made of numbers, what comes behind one is any tokens; a piece of
\* a name says which of the five headers it is of.
ASSUME AnswerAssumption ==
  LET Lines == [name : Nat, value : Seq(Nat)]
      Junk  == {t \in [k : STRING, v : Nat] : t.k = "field" => t.v \in General .. Upgrade}
  IN
  /\ Answers # {}
  /\ Answers \subseteq
       Seq([version : Nat, code : Nat, reason : Seq(Nat), headers : Seq(Lines), chunked : BOOLEAN,
            params : Seq(Nat), body : Seq(Nat), trailer : Seq(Lines), junk : Seq(Junk)])

VARIABLES
  pc, caller, q,   \* where the call is, who makes it and for what
  r, calls,        \* request headers, what the application tried to add
  out, wire,       \* what sendHttpData is to send, what was sent
  sock,            \* the socket of HTTPSendRequest
  idle,            \* zero results of the transport in a row
  answer, stream,  \* what the server answers with, and what it sends for it
  closed,          \* did the server close the connection?
  received, s,     \* totalReceived, the parser
  status           \* returnStatus

request  == <<caller, q, r, calls>>
sending  == <<out, wire>>
response == <<answer, stream, closed, received, s>>
vars     == <<pc, request, sending, sock, idle, response, status>>

-----------------------------------------------------------------------------
(* What the server sends for a message [version, code, reason, headers,    *)
(* chunked, params, body, trailer, junk]: the words of the reason phrase,  *)
(* headers [name, value], the parameters of every chunk, the sizes of the  *)
(* chunks, or of the only part, of the body, headers after it, and tokens  *)
(* after its end.                                                          *)

Invalid == 9   \* a header whose name is none
Fold    == 99  \* in a value: it goes on on the next line

Tokens(kind, values) == [i \in 1 .. Len(values) |-> [k |-> kind, v |-> values[i]]]
NewLine == Tokens("nl", <<0>>)

\* The name of a general header has two pieces, an invalid one is no name.
Name(name) ==
  CASE name = General -> Tokens("field", <<General, General>>)
    [] name \in {Connection, Length, Encoding, Upgrade} -> Tokens("field", <<name>>)
    [] OTHER -> Tokens("junk", <<0>>)

Value(value) ==
  [i \in 1 .. Len(value) |->
     CASE value[i] = Fold -> [k |-> "nl", v |-> 0]
       [] value[i] # Fold /\ i > 1 /\ value[i - 1] = Fold -> [k |-> "lws", v |-> value[i]]
       [] OTHER -> [k |-> "value", v |-> value[i]]]

HeaderLine(h) == Name(h.name) \o Tokens("colon", <<0>>) \o Value(h.value) \o NewLine

\* The i-th chunk: every byte of a body has a number of its own.
Data(size, i) == Tokens("data", [j \in 1 .. size |-> 100 * i + j])

Body(m) == FlattenSeq([i \in 1 .. Len(m.body) |-> Data(m.body[i], i)])

ChunkLine(m, size) == Tokens("size", <<size>>) \o Tokens("param", m.params) \o NewLine

BodyText(m) ==
  IF ~m.chunked THEN Body(m)
  ELSE FlattenSeq([i \in 1 .. Len(m.body) |->
                     ChunkLine(m, m.body[i]) \o Data(m.body[i], i) \o NewLine])
         \o ChunkLine(m, 0) \o FlattenSeq([i \in 1 .. Len(m.trailer) |-> HeaderLine(m.trailer[i])])
         \o NewLine

\* No body comes in answer to a HEAD request.
MessageText(m, head) ==
  Tokens("http", <<m.version>>) \o Tokens("code", <<m.code>>) \o Tokens("reason", m.reason) \o NewLine
    \o FlattenSeq([i \in 1 .. Len(m.headers) |-> HeaderLine(m.headers[i])]) \o NewLine
    \o (IF head THEN <<>> ELSE BodyText(m)) \o m.junk

Beginnings == UNION {{SubSeq(a, 1, n) : n \in 0 .. Len(a)} : a \in Answers}

Texts == [head \in BOOLEAN |-> [messages \in Beginnings |->
            FlattenSeq([i \in 1 .. Len(messages) |-> MessageText(messages[i], head)])]]

Stream(messages) == Texts[q.method = "HEAD"][messages]

-----------------------------------------------------------------------------
NoRequest == [method |-> "GET", path |-> <<>>, host |-> <<>>, keepAlive |-> FALSE, body |-> 0,
              noLength |-> FALSE]

Init ==
  /\ pc = "idle" /\ caller = "spm" /\ q = NoRequest
  /\ r = Blank /\ calls = <<>>
  /\ out = <<>> /\ wire = <<>> /\ sock = "none" /\ idle = 0
  /\ answer = <<>> /\ stream = <<>> /\ closed = FALSE /\ received = 0 /\ s = InitialState(FALSE)
  /\ status = "HTTPSuccess"

\* HTTPSendRequest asks for no flag.
Begin(c, req) ==
  /\ pc = "idle"
  /\ c = "spm" => ~req.keepAlive /\ ~req.noLength
  /\ caller' = c /\ q' = req
  /\ pc' = IF c = "spm" THEN "socket" ELSE "initialize"
  /\ UNCHANGED <<r, calls, sending, sock, idle, response, status>>

-----------------------------------------------------------------------------
(* HTTPSendRequest.                                                        *)

\* The descriptor is unsigned, so that the test for an error never holds and
\* an error is taken for a socket.
Socket ==
  /\ pc = "socket"
  /\ sock' \in {"failed", "open"}
  /\ pc' = "resolve"
  /\ UNCHANGED <<request, sending, idle, response, status>>

\* A return with a network error, after Mynet_close.
CloseAndFail ==
  /\ sock' = "none"
  /\ status' = "HTTPNetworkError"
  /\ pc' = "done"

Resolve ==
  /\ pc = "resolve"
  /\ \/ pc' = "connect" /\ UNCHANGED <<sock, status>>
     \/ CloseAndFail
  /\ UNCHANGED <<request, sending, idle, response>>

\* The definitions named Wrong... are the code with a plausible mistake.
WrongConnect ==  \* the connection is given up, not the socket
  /\ pc = "connect"
  /\ \/ sock = "open" /\ pc' = "initialize" /\ UNCHANGED <<sock, status>>
     \/ status' = "HTTPNetworkError" /\ pc' = "done" /\ UNCHANGED sock
  /\ UNCHANGED <<request, sending, idle, response>>

Connect ==
  /\ pc = "connect"
  /\ \/ sock = "open" /\ pc' = "initialize" /\ UNCHANGED <<sock, status>>
     \/ CloseAndFail
  /\ UNCHANGED <<request, sending, idle, response>>

\* HTTPSendRequest goes on whatever the status is, an application stops.
InitializeHeaders ==
  /\ pc = "initialize"
  /\ r' \in Initialize(Blank, q)
  /\ pc' = CASE caller = "spm" -> "send"
             [] caller = "app" /\ r'.status = "HTTPSuccess" -> "headers"
             [] OTHER -> "done"
  /\ status' = IF pc' = "done" THEN r'.status ELSE status
  /\ UNCHANGED <<caller, q, calls, sending, sock, idle, response>>

\* HTTPClient_AddHeader or HTTPClient_AddRangeHeader; an application goes on
\* when they refuse.
Add(c) ==
  /\ pc = "headers"
  /\ Len(calls) < MaxAdded
  /\ calls' = Append(calls, c)
  /\ r' = AddCall(r, c)
  /\ pc' \in {"headers", "send"}
  /\ UNCHANGED <<caller, q, sending, sock, idle, response, status>>

Skip ==  \* no header to add
  /\ pc = "headers"
  /\ pc' = "send"
  /\ UNCHANGED <<request, sending, sock, idle, response, status>>

\* HTTPSendRequest closes the socket when HTTPClient_Send returns.
Returned(st) ==
  /\ status' = st
  /\ IF caller = "spm" THEN pc' = "close" ELSE pc' = "done"

-----------------------------------------------------------------------------
(* HTTPClient_Send: sendHttpHeaders, sendHttpBody.                         *)

Send ==
  /\ pc = "send"
  /\ IF r.len < MinimumLength
     THEN Returned("HTTPInvalidParameter") /\ UNCHANGED <<r, out>>
     ELSE /\ r' = AddContentLength(r, q)
          /\ IF r'.status # "HTTPSuccess" THEN Returned(r'.status) /\ UNCHANGED out
             ELSE /\ out' = SubSeq(r'.buf, 1, r'.len)
                  /\ pc' = "send headers"
                  /\ UNCHANGED status
  /\ UNCHANGED <<caller, q, calls, wire, sock, idle, response>>

\* sendHttpData: the transport takes n of the pieces that are left.
Transmit(n) ==
  /\ pc \in {"send headers", "send body"}
  /\ n \in 1 .. Len(out)
  /\ wire' = wire \o SubSeq(out, 1, n)
  /\ idle' = 0
  /\ LET left == SubSeq(out, n + 1, Len(out)) IN
     CASE left # <<>> -> out' = left /\ UNCHANGED <<pc, s>>
       [] left = <<>> /\ pc = "send headers" /\ q.body > 0 ->
            /\ out' = [i \in 1 .. q.body |-> "data"]
            /\ pc' = "send body"
            /\ UNCHANGED s
       [] OTHER ->
            /\ out' = <<>>
            /\ pc' = "receive"
            /\ s' = InitialState(r.buf[1] = "HEAD")
  /\ UNCHANGED <<request, sock, answer, stream, closed, received, status>>

\* A zero result: without a clock it is the last, with one the timeout comes
\* at some zero.
Waits ==
  /\ caller = "app"
  /\ idle < MaxIdle
  /\ idle' = idle + 1

TransmitNothing ==
  /\ pc \in {"send headers", "send body"}
  /\ \/ Waits /\ UNCHANGED <<pc, status>>
     \/ Returned("HTTPNetworkError") /\ UNCHANGED idle  \* timed out, or an error
  /\ UNCHANGED <<request, sending, sock, response>>

-----------------------------------------------------------------------------
(* HTTPClient_Send: receiveAndParseHttpResponse.                           *)

\* parseHttpResponse of the next n tokens.
Parse(p, n) ==
  LET fed[i \in 0 .. n] == IF i = 0 THEN p ELSE Feed(fed[i - 1], p.cur + i - 1)
  IN  [Flush(fed[n], p.cur + n) EXCEPT !.cur = p.cur + n]

\* The buffer with the next n tokens of the answer.
Stored(buf, n) ==
  [i \in DOMAIN buf |-> IF i \in received + 1 .. received + n THEN stream[i] ELSE buf[i]]

ProcessLlhttpError(err) ==
  CASE err = "HPE_OK" -> "HTTPSuccess"
    [] err \in {"HPE_INVALID_CONSTANT", "HPE_INVALID_HEADER_TOKEN"} ->
         "HTTPSecurityAlertInvalidCharacter"
    [] err \in {"HPE_INVALID_CONTENT_LENGTH", "HPE_UNEXPECTED_CONTENT_LENGTH"} ->
         "HTTPSecurityAlertInvalidContentLength"
    [] err = "HPE_INVALID_CHUNK_SIZE" -> "HTTPSecurityAlertInvalidChunkHeader"
    [] err = "HPE_INVALID_VERSION" -> "HTTPSecurityAlertInvalidProtocolVersion"
    [] err = "HPE_INVALID_STATUS" -> "HTTPSecurityAlertInvalidStatusCode"
    [] OTHER -> "HTTPParserInternalError"

WrongFinalStatus(state, total) ==  \* a full buffer is looked at first
  CASE total = RespSize -> "HTTPInsufficientMemory"
    [] total < RespSize /\ state = "none" -> "HTTPNoResponse"
    [] total < RespSize /\ state = "incomplete" -> "HTTPPartialResponse"
    [] OTHER -> "HTTPSuccess"

GetFinalResponseStatus(state, total) ==
  CASE state = "none" -> "HTTPNoResponse"
    [] state = "incomplete" /\ total = RespSize -> "HTTPInsufficientMemory"
    [] state = "incomplete" /\ total < RespSize -> "HTTPPartialResponse"
    [] state = "complete" -> "HTTPSuccess"

\* What a parse says if it is the last one.
FinalStatus(p, total) ==
  LET st == ProcessLlhttpError(p.err)
  IN  IF st = "HTTPSuccess" THEN GetFinalResponseStatus(p.state, total) ELSE st

\* The end of an iteration that parsed: shouldRecv, and the status if it ends.
Continue(p, total, timeoutReached) ==
  IF ProcessLlhttpError(p.err) = "HTTPSuccess" /\ ~timeoutReached /\ p.state # "complete" /\ total < RespSize
  THEN UNCHANGED <<pc, status>>
  ELSE Returned(FinalStatus(p, total))

Available == IF closed THEN 0 ELSE Len(stream) - received

Receive(n) ==
  /\ pc = "receive"
  /\ n \in 1 .. Available
  /\ received + n <= RespSize
  /\ received' = received + n
  /\ s' = Parse([s EXCEPT !.buf = Stored(@, n)], n)
  /\ idle' = 0
  /\ Continue(s', received', FALSE)
  /\ UNCHANGED <<request, sending, sock, answer, stream, closed>>

WrongReceiveNothing ==  \* when the time is over it starts again
  /\ pc = "receive"
  /\ \/ Waits /\ UNCHANGED <<s, pc, status>>
     \/ caller = "app" /\ idle' = 0 /\ UNCHANGED <<s, pc, status>>
     \/ caller = "spm" /\ closed /\ s' = Parse(s, 0) /\ Continue(s', received, TRUE) /\ UNCHANGED idle
  /\ UNCHANGED <<request, sending, sock, answer, stream, closed, received>>

\* Mynet_recv returns zero once the connection is closed; a transport of an
\* application whenever it has waited.
ReceiveNothing ==
  /\ pc = "receive"
  /\ \/ Waits /\ UNCHANGED <<pc, s, status>>
     \/ /\ caller = "spm" => closed
        /\ s' = Parse(s, 0)
        /\ Continue(s', received, TRUE)
        /\ UNCHANGED idle
  /\ UNCHANGED <<request, sending, sock, answer, stream, closed, received>>

ReceiveError ==
  /\ pc = "receive"
  /\ Returned("HTTPNetworkError")
  /\ UNCHANGED <<request, sending, sock, idle, response>>

-----------------------------------------------------------------------------
\* HTTPClient_ReadHeader: all of the response buffer is parsed again.  What
\* lies behind the response is no text of one.
ReadHeader(buf, field) ==
  LET p == Parse([InitialState(FALSE) EXCEPT !.buf = buf, !.find.field = field], RespSize)
  IN  [value  |-> Text(p, p.find.value),
       status |-> CASE ~p.find.fieldFound ->
                         IF p.err = "HPE_OK" THEN "HTTPHeaderNotFound" ELSE "HTTPInvalidResponse"
                    [] p.find.fieldFound /\ ~p.find.valueFound -> "HTTPInvalidResponse"
                    [] p.find.fieldFound /\ p.find.valueFound ->
                         IF p.err = "HPE_USER" THEN "HTTPSuccess" ELSE "HTTPParserInternalError"]

-----------------------------------------------------------------------------
\* The end of HTTPSendRequest.
Close ==
  /\ pc = "close"
  /\ sock' = "none"
  /\ pc' = "done"
  /\ UNCHANGED <<request, sending, idle, response, status>>

Return ==
  /\ pc = "done"
  /\ pc' = "idle" /\ caller' = "spm" /\ q' = NoRequest
  /\ r' = Blank /\ calls' = <<>>
  /\ out' = <<>> /\ wire' = <<>> /\ idle' = 0
  /\ answer' = <<>> /\ stream' = <<>> /\ closed' = FALSE /\ received' = 0 /\ s' = InitialState(FALSE)
  /\ status' = "HTTPSuccess"
  /\ UNCHANGED sock

-----------------------------------------------------------------------------
(* The server.                                                             *)

Answer(a) ==
  /\ pc = "receive" /\ answer = <<>> /\ ~closed
  /\ Len(calls) <= MaxAnswered
  /\ answer' = a /\ stream' = Stream(a)
  /\ UNCHANGED <<pc, request, sending, sock, idle, closed, received, s, status>>

ServerClose ==
  /\ pc = "receive" /\ ~closed
  /\ closed' = TRUE
  /\ UNCHANGED <<pc, request, sending, sock, idle, answer, stream, received, s, status>>

-----------------------------------------------------------------------------
Call ==
  \/ Socket \/ Resolve \/ Connect \/ Close
  \/ InitializeHeaders \/ Skip \/ Send \/ TransmitNothing
  \/ \E n \in 1 .. ReqSize : Transmit(n)
  \/ ReceiveNothing
  \/ \E n \in 1 .. Available : Receive(n)

Next ==
  \/ \E c \in {"spm", "app"}, req \in Requests : Begin(c, req)
  \/ \E c \in Additions : Add(c)
  \/ Call
  \/ ReceiveError
  \/ Return
  \/ \E a \in Answers : Answer(a)
  \/ ServerClose

Spec == Init /\ [][Next]_vars

\* Can the call go on?  In receive it waits for the server, unless a clock ends
\* that.
Ready ==
  \/ pc \notin {"idle", "receive", "done"}
  \/ pc = "receive" /\ (caller = "app" \/ closed \/ Available > 0)

\* The thread that made the call runs; nobody has to answer, or to close.  This
\* is the weak fairness of Call: Ready says when it is enabled, and spares TLC
\* to try a parse in every state.
FairSpec == Spec /\ (<>[]Ready => []<><<Call>>_vars)

-----------------------------------------------------------------------------
TypeOK ==
  /\ pc \in {"idle", "socket", "resolve", "connect", "initialize", "headers", "send",
             "send headers", "send body", "receive", "close", "done"}
  /\ caller \in {"spm", "app"} /\ q \in Requests \cup {NoRequest}
  /\ DOMAIN r.buf = 1 .. ReqSize /\ r.len \in 0 .. ReqSize
  /\ calls \in BoundedSeq(Additions, MaxAdded)
  /\ Len(out) <= ReqSize + q.body /\ Len(wire) <= ReqSize + q.body
  /\ sock \in {"none", "failed", "open"} /\ idle \in 0 .. MaxIdle
  /\ answer \in Answers \cup {<<>>} /\ stream = Stream(answer) /\ closed \in BOOLEAN
  /\ received \in 0 .. RespSize /\ DOMAIN s.buf = 1 .. RespSize
  /\ s.state \in {"none", "incomplete", "complete"}

\* What the server gets is what the calls put together: every header that was
\* taken, in order and on a line of its own, none that was refused, one empty
\* line at the end, and the body behind it; however the headers overwrote the
\* empty line of those before, and however the transport cut them.  A header
\* that was refused for a character leaves the beginning of its name, and no
\* empty line unless one is added after it; HTTPSendRequest sends what it could
\* put together.
RequestOnWire ==
  LET text == RequestText(q, calls)
  IN  wire # <<>> =>
        /\ IsPrefix(wire, text)
        /\ pc = "receive" => wire = text

Ended == pc \in {"close", "done"}

\* The parser after all that was received, parsed in one go.
InOneGo ==
  LET all == [i \in 1 .. RespSize |-> IF i <= received THEN stream[i] ELSE [k |-> "empty", v |-> 0]]
  IN  Parse([InitialState(q.method = "HEAD") EXCEPT !.buf = all], received)

\* The asserts of the parser callbacks hold, the next receive is parsed where it
\* was put, the body that is handed out lies in what was received, and in whatever
\* pieces the response arrives, the parser is where it were if all had come at
\* once: it has found the same error, or it has reported the same texts and
\* headers, has left the same bytes in the buffer and goes on the same.  (Only
\* headersLen is another where a receive ends in the empty line.)  The call then
\* returns with what that one parse says, unless the transport fails.
ParserInStep ==
  LET one == InOneGo IN
  /\ ~s.failed
  /\ pc = "receive" => s.cur = received + 1
  /\ s.err = "HPE_OK" => s.body + s.bodyLen <= received + 1
  /\ received > 0 =>
       /\ s.err = one.err /\ s.state = one.state
       /\ s.err = "HPE_OK" => \A f \in DOMAIN s \ {"hdrLen", "failed"} : s[f] = one[f]
       /\ Ended /\ status # "HTTPNetworkError" => status = FinalStatus(one, received)

Begun == SubSeq(answer, 1, s.begun)

\* A value that goes on on another line, and the pieces of a value on whatever
\* lines.
GoesOn(value) == \E i, j \in 1 .. Len(value) : i < j /\ value[i] # Fold /\ value[j] = Fold
Unfolded(value) == SelectSeq(Value(value), LAMBDA t : t.k # "nl")

Trailer(m) == IF q.method = "HEAD" THEN <<>> ELSE m.trailer

Values(m, name) == SelectSeq(m.headers, LAMBDA h : h.name = name)

Number(digits) == FoldLeft(LAMBDA n, d : 10 * n + d, 0, SelectSeq(digits, LAMBDA d : d # Fold))

Says(m, word) == \E h \in ToSet(m.headers) : h.name = Connection /\ word \in ToSet(h.value)

\* A success hands out the response that the server gave last, whatever the
\* pieces it came in: the bytes of its body in order and without the chunk
\* headers between them, every header with its whole name and its value and in
\* order, and what the server said of the connection; and, of core_http_client.h,
\* "The HTTP response Status-Code" (500), "The value in the Content-Length header"
\* (507) and the "Count of the headers sent by the server" (514).  The code does
\* not keep to these for every response; what is left out, by name:
\*  - the status code of a message without a reason phrase: nothing reports it,
\*    and it stays 0 or the one of the message before;
\*  - a Content-Length that no size_t holds: it loses its upper half, and the
\*    greatest one of the parser stands for none;
\*  - the number of headers of a response with a trailer: the last header behind
\*    a chunked body is neither counted nor reported;
\*  - a value that goes on on another line: as many pieces are handed out as it
\*    has, but the line breaks among them take the places of its last ones.
ResponseFaithful ==
  Ended /\ status = "HTTPSuccess" =>
    LET m    == Last(Begun)
        sent == FlattenSeq([i \in 1 .. s.begun |-> Begun[i].headers \o Trailer(Begun[i])])
        lengths == Values(m, Length)
    IN
    /\ Text(s, [at |-> s.body, len |-> s.bodyLen]) = (IF q.method = "HEAD" THEN <<>> ELSE Body(m))
    /\ Len(s.seen) <= Len(sent)
    /\ \A i \in 1 .. Len(s.seen) :
         /\ s.seen[i][1] = Name(sent[i].name)
         /\ ~GoesOn(sent[i].value) => s.seen[i][2] = Unfolded(sent[i].value)
    /\ Trailer(m) = <<>> => s.count = Len(sent) /\ Len(s.seen) = Len(sent)
    /\ lengths = <<>> => s.contentLength = 0
    /\ lengths # <<>> /\ Number(lengths[1].value) < Sizes =>
         s.contentLength = Number(lengths[1].value)
    /\ "close" \in s.respFlags <=> \E i \in 1 .. s.begun : Says(Begun[i], Closing)
    /\ "keep-alive" \in s.respFlags <=> \E i \in 1 .. s.begun : Says(Begun[i], KeepAlive)
    /\ m.reason # <<>> => s.statusCode = m.code

\* The names to look for; the last one is the beginning of another.
Names == {Name(n) : n \in {General, Connection, Length, Encoding, Upgrade}} \cup {Tokens("field", <<General>>)}

\* HTTPClient_ReadHeader finds the first header of a name, with its value, in a
\* response that was received, and none that the server did not send.  Left out,
\* by name:
\*  - which error a name that is not there gives.  core_http_client.h:850 has
\*    HTTPHeaderNotFound for it, and so have core_http_client_private.h:176-182 and
\*    the comments at core_http_client.cpp:2388-2401 and 2494-2495; but the answer
\*    of findHeaderOnHeaderCompleteCallback does not stop the parser, it lets it
\*    take what follows for another status line, which gives HTTPInvalidResponse
\*    unless the server closes the connection or nothing follows in the buffer;
\*  - a name that only comes in a trailer, which the search does not get to;
\*  - a value that goes on on another line, of which only the first line is found.
HeaderFound ==
  pc = "done" /\ status = "HTTPSuccess" =>
    \A name \in Names :
      LET Headers(part(_)) == FlattenSeq([i \in 1 .. s.begun |-> part(Begun[i])])
          Named(headers)   == SelectSeq(headers, LAMBDA h : Name(h.name) = name)
          named   == Named(Headers(LAMBDA m : m.headers))
          trailed == Named(Headers(LAMBDA m : m.trailer))
          result  == ReadHeader(s.buf, name)
      IN  /\ named # <<>> =>
               /\ result.status = "HTTPSuccess"
               /\ ~GoesOn(named[1].value) => result.value = Unfolded(named[1].value)
          /\ named = <<>> /\ trailed = <<>> => result.status # "HTTPSuccess"

\* Does the message say where it ends?
Framed(m) ==
  \/ q.method = "HEAD" \/ m.code \in {100, 101, 204} \/ m.chunked
  \/ Values(m, Length) # <<>>

\* The messages that an alert is justified for.
Faulty(m, alert) ==
  LET lengths == Values(m, Length)
      codings == Values(m, Encoding)
      digits(h) == SelectSeq(h.value, LAMBDA v : v # Fold)
  IN  CASE alert = "HTTPSecurityAlertInvalidCharacter" -> Values(m, Invalid) # <<>>
        [] alert = "HTTPSecurityAlertInvalidContentLength" ->
             \/ Len(lengths) > 1
             \/ lengths # <<>> /\ codings # <<>>
             \/ \E h \in ToSet(lengths) : digits(h) = <<>> \/ GoesOn(h.value) \/ Number(h.value) > MaxLength
        [] alert = "HTTPSecurityAlertInvalidChunkHeader" ->
             \/ ~m.chunked /\ codings # <<>> /\ Last(Last(codings).value) = Chunked
             \/ m.chunked /\ \E n \in ToSet(m.body) : n > MaxLength
        [] alert = "HTTPSecurityAlertInvalidProtocolVersion" -> m.version = 0
        [] alert = "HTTPSecurityAlertInvalidStatusCode" -> m.code > 999
        [] alert = "HTTPParserInternalError" ->
             m.code = 101 /\ Values(m, Upgrade) # <<>> /\ Says(m, Switching)

\* Why a call may fail once the request is out: it says that there was no
\* response only if nothing came, that one is incomplete or too long only if it
\* is, or does not say where it ends, and raises an alert only if the server
\* sent what that alert is for; a change of protocol counts as an error of the
\* parser.  A transport that fails is the only other reason.
FailureJustified ==
  (Ended /\ s.begun \in 1 .. Len(answer)) =>
    LET whole == received >= Len(Stream(Begun)) /\ Framed(Last(Begun))
        full  == received = RespSize
    IN  CASE status = "HTTPNoResponse" -> FALSE
          [] status = "HTTPPartialResponse" -> ~whole /\ ~full
          [] status = "HTTPInsufficientMemory" -> ~whole /\ full
          [] status \in {"HTTPSuccess", "HTTPNetworkError"} -> TRUE
          [] OTHER -> \E i \in 1 .. s.begun : Faulty(answer[i], status)

\* HTTPSendRequest returns without the socket it opened, wherever it fails.
SocketReleased == pc \in {"idle", "done"} => sock = "none"

\* A call returns once the server has closed the connection; one with a clock
\* whatever the server does.
Returns == (pc # "idle" /\ (closed \/ caller = "app")) ~> (pc = "done")

\* core_http_client.cpp:2094 has it that a parse of length zero tells the parser
\* that there is no more data (EOF): a body that the end of the connection ends
\* is then complete.
EofEndsBody ==
  Ended /\ closed /\ answer # <<>> /\ received = Len(Stream(answer)) /\ received < RespSize
    /\ ~Framed(Last(answer)) /\ s.err = "HPE_OK" /\ status # "HTTPNetworkError"
    => status = "HTTPSuccess"

=============================================================================
