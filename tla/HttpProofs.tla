----------------------------- MODULE HttpProofs ------------------------------
(***************************************************************************)
(* HTTPSendRequest never returns with its socket open, and the server gets *)
(* the request that was put together: whatever the requests, the answers   *)
(* and the sizes of the buffers, and however the transport cuts and delays *)
(* them.  The asserts of the parser callbacks hold whatever a server       *)
(* sends, and what a parse of a response ends with does not depend on the  *)
(* pieces that it arrives in: one parse of all of it ends with the same.   *)
(* The status of a call tells what was received.                           *)
(* The parser comes first, then the calls, then what the parser knows of a *)
(* message at each of its tokens.                                          *)
(***************************************************************************)
EXTENDS HttpClient, NumberInduction

-----------------------------------------------------------------------------
(* What every state of the parser has in common.                           *)

Fields ==
  {"st", "err", "version", "code", "flags", "length", "upgrade", "header", "span", "from", "state",
   "cur", "field", "value", "head", "buf", "statusCode", "hdr", "hdrLen", "count", "contentLength",
   "respFlags", "body", "bodyLen", "find", "seen", "begun", "failed"}

IsParser(z) == DOMAIN z = Fields /\ z.buf = [i \in 1 .. RespSize |-> z.buf[i]]

InValue == {"length", "connection", "encoding", "value"}
InBody  == {"identity", "eof", "chunk"}
Named   == InValue \cup {"discard_ws", "discard_lws", "lws"}

States ==
  Named \cup InBody \cup
    {"start", "code", "status_start", "status", "field_start", "field", "size", "size_end",
     "parameters", "chunk_end", "closed"}

\* A text of the buffer in front of the place j, or none.
Before(t, j) == t \in [at : Nat, len : Nat] /\ t.at + t.len <= j

\* A parser without an error whose next token is at j: which span is open, where
\* it and the texts in front of it are.
Live(z, j) ==
  LET limit == IF z.span = "none" THEN j ELSE z.from IN
  /\ z.st \in States
  /\ z.span \in {"none", "status", "field", "value", "body"}
  /\ z.st = "status" <=> z.span = "status"
  /\ z.st = "field" <=> z.span = "field"
  /\ z.st \in InValue <=> z.span = "value"
  /\ z.span = "body" => z.st \in InBody
  /\ limit \in 1 .. j /\ (z.span # "none" => z.from <= RespSize)
  /\ z.cur \in 1 .. j /\ z.hdr \in 0 .. z.cur - 1
  /\ z.span = "field" => z.hdr # 0 \/ z.from < j
  /\ z.st \in Named => z.field.at # 0
  /\ z.value.at # 0 => z.field.at # 0
  /\ Before(z.field, limit) /\ Before(z.value, limit) /\ Before([at |-> z.body, len |-> z.bodyLen], limit)

\* No assert has failed, and errors are where the parser stays.
Sound(z, j) ==
  /\ IsParser(z)
  /\ ~z.failed
  /\ z.find = NoSearch
  /\ z.state \in {"none", "incomplete", "complete"}
  /\ z.err = "HPE_OK" <=> z.st # "error"
  /\ z.st # "error" => Live(z, j)

\* Nobody looks for a header.
LEMMA NotSearching == ASSUME NEW z, z.find = NoSearch PROVE ~Searching(z)
BY DEF Searching, NoSearch

\* It begins like that.
LEMMA InitialSound ==
  ASSUME NEW head, NEW b, b = [i \in 1 .. RespSize |-> b[i]]
  PROVE  Sound([InitialState(head) EXCEPT !.buf = b], 1)
<1> DEFINE z == [InitialState(head) EXCEPT !.buf = b]
<1>1. IsParser(z)
  BY DEF InitialState, IsParser, Fields
<1>2. /\ ~z.failed /\ z.find = NoSearch /\ z.state = "none" /\ z.err = "HPE_OK" /\ z.st = "start"
      /\ z.span = "none" /\ z.cur = 1 /\ z.hdr = 0 /\ z.field = NoText /\ z.value = NoText
      /\ z.body = 0 /\ z.bodyLen = 0
  BY DEF InitialState
<1>3. Live(z, 1)
  <2> HIDE DEF z
  <2> QED
    BY <1>2 DEF Live, Before, NoText, States, InValue, InBody, Named
<1> QED
  BY <1>1, <1>2, <1>3 DEF Sound

-----------------------------------------------------------------------------
(* The callbacks.                                                          *)

\* w has what llhttp and the application's head keep of z: a callback for a span
\* changes none of it.
SameRun(z, w) ==
  /\ w.st = z.st /\ w.err = z.err /\ w.version = z.version /\ w.code = z.code /\ w.flags = z.flags
  /\ w.length = z.length /\ w.upgrade = z.upgrade /\ w.header = z.header /\ w.span = z.span
  /\ w.state = z.state /\ w.head = z.head /\ w.begun = z.begun /\ w.contentLength = z.contentLength
  /\ w.respFlags = z.respFlags /\ w.find = z.find

\* A header that is complete is handed out, and its texts forgotten.
LEMMA Processed ==
  ASSUME NEW z, IsParser(z), ~z.failed
  PROVE  LET w == ProcessCompleteHeader(z) IN
         /\ IsParser(w) /\ SameRun(z, w) /\ w.from = z.from /\ w.cur = z.cur /\ ~w.failed
         /\ w.hdr = z.hdr /\ w.hdrLen = z.hdrLen /\ w.body = z.body /\ w.bodyLen = z.bodyLen
         /\ w.buf = z.buf /\ w.statusCode = z.statusCode
         /\ IF z.field.at = 0 \/ z.value.at = 0
            THEN w.field = z.field /\ w.value = z.value /\ w.count = z.count /\ w.seen = z.seen
            ELSE /\ w.field = NoText /\ w.value = NoText /\ w.count = z.count + 1
                 /\ w.seen = Append(z.seen, <<Text(z, z.field), Text(z, z.value)>>)
BY DEF IsParser, Fields, ProcessCompleteHeader, SameRun

\* What the callback for a piece of a name does.
LEMMA FieldReported ==
  ASSUME NEW z, IsParser(z), ~z.failed, NEW loc, NEW n
  PROVE  LET w == OnHeaderField(z, loc, n) IN
         /\ IsParser(w) /\ SameRun(z, w) /\ w.from = z.from /\ w.cur = loc + n /\ ~w.failed
         /\ w.hdr = (IF z.hdr = 0 THEN loc ELSE z.hdr) /\ w.body = z.body /\ w.bodyLen = z.bodyLen
         /\ w.buf = z.buf /\ w.statusCode = z.statusCode
         /\ IF z.field.at = 0 \/ z.value.at = 0
            THEN /\ w.field = Extend(z.field, loc, n) /\ w.value = z.value
                 /\ w.count = z.count /\ w.seen = z.seen
            ELSE /\ w.field = Extend(NoText, loc, n) /\ w.value = NoText /\ w.count = z.count + 1
                 /\ w.seen = Append(z.seen, <<Text(z, z.field), Text(z, z.value)>>)
<1> DEFINE a == [z EXCEPT !.hdr = IF @ = 0 THEN loc ELSE @, !.cur = loc + n]
           p == ProcessCompleteHeader(a)
<1>1. /\ IsParser(a) /\ SameRun(z, a) /\ a.from = z.from /\ a.cur = loc + n /\ ~a.failed
      /\ a.hdr = (IF z.hdr = 0 THEN loc ELSE z.hdr) /\ a.body = z.body /\ a.bodyLen = z.bodyLen
      /\ a.buf = z.buf /\ a.statusCode = z.statusCode /\ a.field = z.field /\ a.value = z.value
      /\ a.count = z.count /\ a.seen = z.seen
  BY DEF IsParser, Fields, SameRun
<1>2. Text(a, a.field) = Text(z, z.field) /\ Text(a, a.value) = Text(z, z.value)
  BY <1>1 DEF Text
<1>3. OnHeaderField(z, loc, n) = [p EXCEPT !.field = Extend(@, loc, n)]
  BY DEF OnHeaderField
<1> HIDE DEF a
<1>4. /\ IsParser(p) /\ SameRun(a, p) /\ p.from = a.from /\ p.cur = a.cur /\ ~p.failed
      /\ p.hdr = a.hdr /\ p.body = a.body /\ p.bodyLen = a.bodyLen
      /\ p.buf = a.buf /\ p.statusCode = a.statusCode
      /\ IF a.field.at = 0 \/ a.value.at = 0
         THEN p.field = a.field /\ p.value = a.value /\ p.count = a.count /\ p.seen = a.seen
         ELSE /\ p.field = NoText /\ p.value = NoText /\ p.count = a.count + 1
              /\ p.seen = Append(a.seen, <<Text(a, a.field), Text(a, a.value)>>)
  BY <1>1, Processed
<1> HIDE DEF p
<1> DEFINE w == [p EXCEPT !.field = Extend(@, loc, n)]
<1>5. /\ IsParser(w) /\ SameRun(p, w) /\ w.from = p.from /\ w.cur = p.cur /\ ~w.failed
      /\ w.hdr = p.hdr /\ w.body = p.body /\ w.bodyLen = p.bodyLen
      /\ w.buf = p.buf /\ w.statusCode = p.statusCode /\ w.field = Extend(p.field, loc, n)
      /\ w.value = p.value /\ w.count = p.count /\ w.seen = p.seen
  BY <1>4 DEF IsParser, Fields, SameRun
<1> HIDE DEF w
<1>6. SameRun(z, w)
  BY <1>1, <1>4, <1>5 DEF SameRun
<1>7. w = OnHeaderField(z, loc, n)
  BY <1>3 DEF w
<1> QED
  BY <1>1, <1>2, <1>4, <1>5, <1>6, <1>7

\* For a piece of a value,
LEMMA ValueReported ==
  ASSUME NEW z, IsParser(z), NEW loc, NEW n, z.field.at # 0, ~z.failed
  PROVE  LET w == OnHeaderValue(z, loc, n) IN
         /\ IsParser(w) /\ SameRun(z, w) /\ w.from = z.from /\ w.cur = loc + n /\ ~w.failed
         /\ w.hdr = z.hdr /\ w.body = z.body /\ w.bodyLen = z.bodyLen
         /\ w.buf = z.buf /\ w.statusCode = z.statusCode /\ w.field = z.field
         /\ w.value = Extend(z.value, loc, n) /\ w.count = z.count /\ w.seen = z.seen
BY DEF IsParser, Fields, OnHeaderValue, Asserted, SameRun

\* of a reason phrase
LEMMA StatusReported ==
  ASSUME NEW z, IsParser(z), ~z.failed, NEW loc, NEW n
  PROVE  LET w == OnStatus(z, loc, n) IN
         /\ IsParser(w) /\ SameRun(z, w) /\ w.from = z.from /\ w.cur = loc + n /\ ~w.failed
         /\ w.hdr = z.hdr /\ w.body = z.body /\ w.bodyLen = z.bodyLen
         /\ w.buf = z.buf /\ w.statusCode = z.code /\ w.field = NoText
         /\ w.value = NoText /\ w.count = z.count /\ w.seen = z.seen
BY DEF IsParser, Fields, OnStatus, SameRun

\* and of a body.
LEMMA BodyReported ==
  ASSUME NEW z, IsParser(z), NEW loc \in 1 .. RespSize, NEW n, ~z.failed
  PROVE  LET w    == OnBody(z, loc, n)
             next == IF z.body = 0 THEN loc ELSE z.body + z.bodyLen
         IN
         /\ IsParser(w) /\ SameRun(z, w) /\ w.from = z.from /\ w.cur = loc + n /\ ~w.failed
         /\ w.hdr = z.hdr /\ w.body = (IF z.body = 0 THEN loc ELSE z.body)
         /\ w.bodyLen = (IF z.body = 0 THEN n ELSE z.bodyLen + n)
         /\ w.buf = (IF loc > next THEN Moved(z.buf, next, loc, n) ELSE z.buf)
         /\ w.statusCode = z.statusCode /\ w.field = z.field
         /\ w.value = z.value /\ w.count = z.count /\ w.seen = z.seen
<1> DEFINE body == IF z.body = 0 THEN loc ELSE z.body
           next == IF z.body = 0 THEN loc ELSE z.body + z.bodyLen
           buf  == IF loc > next THEN Moved(z.buf, next, loc, n) ELSE z.buf
           len  == IF z.body = 0 THEN n ELSE z.bodyLen + n
           a    == [z EXCEPT !.body = body, !.buf = buf, !.bodyLen = len, !.cur = loc + n]
<1>1. buf = [i \in 1 .. RespSize |-> buf[i]]
  BY DEF IsParser, Moved
<1>2. OnBody(z, loc, n) = [a EXCEPT !.failed = @ \/ ~(loc \in 1 .. RespSize)]
  BY DEF OnBody, Asserted
<1> HIDE DEF body, next, buf, len
<1>3. /\ IsParser(a) /\ SameRun(z, a) /\ a.from = z.from /\ a.cur = loc + n /\ ~a.failed
      /\ a.hdr = z.hdr /\ a.body = body /\ a.bodyLen = len /\ a.buf = buf
      /\ a.statusCode = z.statusCode /\ a.field = z.field
      /\ a.value = z.value /\ a.count = z.count /\ a.seen = z.seen
  BY <1>1 DEF IsParser, Fields, SameRun
<1> HIDE DEF a
<1> DEFINE w == [a EXCEPT !.failed = @ \/ ~(loc \in 1 .. RespSize)]
<1>4. /\ IsParser(w) /\ SameRun(a, w) /\ w.from = a.from /\ w.cur = a.cur /\ ~w.failed
      /\ w.hdr = a.hdr /\ w.body = a.body /\ w.bodyLen = a.bodyLen /\ w.buf = a.buf
      /\ w.statusCode = a.statusCode /\ w.field = a.field
      /\ w.value = a.value /\ w.count = a.count /\ w.seen = a.seen
  BY <1>3 DEF IsParser, Fields, SameRun
<1> HIDE DEF w
<1>5. w = OnBody(z, loc, n)
  BY <1>2 DEF w
<1>6. SameRun(z, w)
  BY <1>3, <1>4 DEF SameRun
<1> QED
  BY <1>3, <1>4, <1>5, <1>6 DEF body, next, buf, len

\* Longer texts end where the piece ends that is added to them.
LEMMA Extended ==
  ASSUME NEW t, NEW loc \in Nat \ {0}, NEW n \in Nat, Before(t, loc)
  PROVE  Before(Extend(t, loc, n), loc + n) /\ Extend(t, loc, n).at # 0
BY DEF Before, Extend

LEMMA Later ==
  ASSUME NEW t, NEW j \in Nat, NEW p \in Nat, p <= j, Before(t, p)
  PROVE  Before(t, j)
BY DEF Before

LEMMA None == ASSUME NEW j \in Nat PROVE Before(NoText, j)
BY DEF Before, NoText

\* The open span is reported up to j: the parser is where it was, and all texts
\* end in front of j.
LEMMA SpanReported ==
  ASSUME NEW j \in Nat \ {0}, NEW z, Sound(z, j), z.st # "error", z.span # "none"
  PROVE  LET w == Report(z, j) IN
         /\ IsParser(w) /\ SameRun(z, w) /\ w.from = z.from /\ ~w.failed
         /\ w.cur = j /\ w.hdr \in 0 .. j - 1 /\ (z.span = "field" => w.hdr # 0)
         /\ Before(w.field, j) /\ Before(w.value, j)
         /\ Before([at |-> w.body, len |-> w.bodyLen], j)
         /\ z.span \in {"field", "value"} => w.field.at # 0
         /\ w.value.at # 0 => w.field.at # 0 /\ z.span # "field"
         /\ z.span = "body" => w.field = z.field
<1> DEFINE loc == z.from
           n   == j - z.from
           w   == Report(z, j)
<1>1. /\ IsParser(z) /\ ~z.failed /\ ~Searching(z) /\ Live(z, j)
      /\ z.span \in {"status", "field", "value", "body"} /\ z.from \in 1 .. j /\ z.from <= RespSize
      /\ j \in Nat
  BY NotSearching DEF Sound, Live
<1>2. /\ loc \in Nat \ {0} /\ n \in Nat /\ loc + n = j /\ loc \in 1 .. RespSize
      /\ Before(z.field, loc) /\ Before(z.value, loc) /\ Before([at |-> z.body, len |-> z.bodyLen], loc)
      /\ z.hdr \in 0 .. j - 1 /\ (z.value.at # 0 => z.field.at # 0) /\ NoText.at = 0
  BY <1>1, ResponseAssumption DEF Live, NoText
<1>3. /\ Before(z.field, j) /\ Before(z.value, j) /\ Before([at |-> z.body, len |-> z.bodyLen], j)
      /\ Before(NoText, j)
  BY <1>1, <1>2, Later, None
<1>4. CASE z.span = "status"
  <2>1. w = OnStatus(z, loc, n)
    BY <1>1, <1>4 DEF Report
  <2> HIDE DEF w, loc, n
  <2> QED
    BY <1>1, <1>2, <1>3, <1>4, <2>1, StatusReported DEF w, loc
<1>5. CASE z.span = "field"
  <2>1. w = OnHeaderField(z, loc, n)
    BY <1>1, <1>5 DEF Report
  <2>2. loc < j \/ z.hdr # 0
    BY <1>1, <1>5 DEF Live
  <2> HIDE DEF w, loc, n
  <2>3. /\ Before(Extend(z.field, loc, n), j) /\ Extend(z.field, loc, n).at # 0
        /\ Before(Extend(NoText, loc, n), j) /\ Extend(NoText, loc, n).at # 0
    BY <1>2, Extended, None
  <2> QED
    BY <1>1, <1>2, <1>3, <1>5, <2>1, <2>2, <2>3, FieldReported DEF w, loc
<1>6. CASE z.span = "value"
  <2>1. w = OnHeaderValue(z, loc, n)
    BY <1>1, <1>6 DEF Report
  <2>2. z.field.at # 0
    BY <1>1, <1>6 DEF Live, Named
  <2> HIDE DEF w, loc, n
  <2>3. Before(Extend(z.value, loc, n), j)
    BY <1>2, Extended
  <2>4. /\ IsParser(w) /\ SameRun(z, w) /\ w.from = z.from /\ w.cur = loc + n /\ ~w.failed
        /\ w.hdr = z.hdr /\ w.body = z.body /\ w.bodyLen = z.bodyLen /\ w.field = z.field
        /\ w.value = Extend(z.value, loc, n)
    BY <1>1, <2>1, <2>2, ValueReported
  <2> QED
    BY <1>1, <1>2, <1>3, <1>6, <2>2, <2>3, <2>4 DEF w
<1>7. CASE z.span = "body"
  <2>1. w = OnBody(z, loc, n)
    BY <1>1, <1>7 DEF Report
  <2> HIDE DEF w, loc, n
  <2>2. /\ IsParser(w) /\ SameRun(z, w) /\ w.from = z.from /\ w.cur = loc + n /\ ~w.failed
        /\ w.hdr = z.hdr /\ w.body = (IF z.body = 0 THEN loc ELSE z.body)
        /\ w.bodyLen = (IF z.body = 0 THEN n ELSE z.bodyLen + n) /\ w.field = z.field /\ w.value = z.value
    BY <1>1, <1>2, <2>1, BodyReported
  <2>3. Before([at |-> w.body, len |-> w.bodyLen], j)
    BY <1>2, <2>2 DEF Before
  <2> QED
    BY <1>1, <1>2, <1>3, <1>7, <2>2, <2>3 DEF w, loc
<1> QED
  BY <1>1, <1>4, <1>5, <1>6, <1>7

-----------------------------------------------------------------------------
(* The steps of llhttp, between tokens.                                    *)

\* No span is open and there is no error; the next state is open.
Idle(z, j) ==
  /\ IsParser(z) /\ ~z.failed /\ z.find = NoSearch
  /\ z.state \in {"none", "incomplete", "complete"}
  /\ z.err = "HPE_OK" /\ z.span = "none"
  /\ z.cur \in 1 .. j /\ z.hdr \in 0 .. z.cur - 1
  /\ z.value.at # 0 => z.field.at # 0
  /\ Before(z.field, j) /\ Before(z.value, j) /\ Before([at |-> z.body, len |-> z.bodyLen], j)

\* The states in which no span is open.
Between == States \ ({"status", "field"} \cup InValue)

LEMMA SoundIdle ==
  ASSUME NEW j, NEW z, Sound(z, j), z.st # "error", z.span = "none"
  PROVE  Idle(z, j)
BY DEF Sound, Live, Idle

LEMMA IdleSound ==
  ASSUME NEW j \in Nat \ {0}, NEW z, Idle(z, j), z.st \in Between, z.st \in Named => z.field.at # 0
  PROVE  Sound(z, j)
<1>1. Live(z, j)
  BY DEF Idle, Live, Between
<1>2. z.st # "error"
  BY DEF Between, States, InValue, InBody, Named
<1> QED
  BY <1>1, <1>2 DEF Idle, Sound

LEMMA IdleNext ==
  ASSUME NEW j \in Nat \ {0}, NEW z, Idle(z, j)
  PROVE  Idle(z, j + 1)
<1>1. Before(z.field, j + 1) /\ Before(z.value, j + 1) /\ Before([at |-> z.body, len |-> z.bodyLen], j + 1)
  BY Later DEF Idle
<1>2. z.cur \in 1 .. j + 1
  BY DEF Idle
<1> QED
  BY <1>1, <1>2 DEF Idle

LEMMA SoundNext ==
  ASSUME NEW j \in Nat \ {0}, NEW z, Sound(z, j)
  PROVE  Sound(z, j + 1)
<1> SUFFICES ASSUME z.st # "error" PROVE Live(z, j + 1)
  BY DEF Sound
<1>1. Live(z, j)
  BY DEF Sound
<1>2. CASE z.span = "none"
  <2>1. Idle(z, j + 1)
    BY <1>2, SoundIdle, IdleNext
  <2> QED
    BY <1>1, <1>2, <2>1 DEF Live, Idle
<1>3. CASE z.span # "none"
  <2>1. z.from \in 1 .. j + 1 /\ z.cur \in 1 .. j + 1
    BY <1>1, <1>3 DEF Live
  <2>2. z.span = "field" => z.hdr # 0 \/ z.from < j + 1
    BY <1>1, <1>3 DEF Live
  <2> QED
    BY <1>1, <1>3, <2>1, <2>2 DEF Live
<1> QED
  BY <1>2, <1>3

\* An error is where the parser stays.
LEMMA FailSound ==
  ASSUME NEW j, NEW z, IsParser(z), ~z.failed, z.find = NoSearch,
         z.state \in {"none", "incomplete", "complete"}, NEW err, err # "HPE_OK"
  PROVE  Sound(Fail(z, err), j)
BY DEF Fail, Sound, IsParser, Fields

\* A span that ends at j.
LEMMA EndIdle ==
  ASSUME NEW j \in Nat \ {0}, NEW z, Sound(z, j), z.st # "error", z.span # "none", NEW st
  PROVE  LET e == EndSpan(z, j, st) IN
         /\ Idle(e, j) /\ e.st = st
         /\ e.version = z.version /\ e.code = z.code /\ e.flags = z.flags /\ e.length = z.length
         /\ e.upgrade = z.upgrade /\ e.header = z.header /\ e.state = z.state /\ e.head = z.head
         /\ e.begun = z.begun /\ e.contentLength = z.contentLength /\ e.respFlags = z.respFlags
         /\ z.span \in {"field", "value"} => e.field.at # 0
         /\ z.span = "body" => e.field = z.field
<1> DEFINE w == Report(z, j)
           e == [w EXCEPT !.span = "none", !.from = 0, !.st = IF w.err = "HPE_OK" THEN st ELSE "error"]
<1>1. EndSpan(z, j, st) = e
  BY DEF EndSpan
<1>2. /\ IsParser(w) /\ SameRun(z, w) /\ ~w.failed
      /\ w.cur = j /\ w.hdr \in 0 .. j - 1
      /\ Before(w.field, j) /\ Before(w.value, j)
      /\ Before([at |-> w.body, len |-> w.bodyLen], j)
      /\ z.span \in {"field", "value"} => w.field.at # 0
      /\ w.value.at # 0 => w.field.at # 0
      /\ z.span = "body" => w.field = z.field
  BY SpanReported
<1>3. z.err = "HPE_OK" /\ z.find = NoSearch /\ z.state \in {"none", "incomplete", "complete"}
  BY DEF Sound
<1> HIDE DEF w
<1>4. /\ IsParser(e) /\ ~e.failed /\ e.cur = j /\ e.hdr = w.hdr /\ e.field = w.field /\ e.value = w.value
      /\ e.body = w.body /\ e.bodyLen = w.bodyLen /\ e.span = "none" /\ e.st = st
      /\ e.err = w.err /\ e.find = w.find /\ e.version = z.version /\ e.code = z.code /\ e.flags = z.flags
      /\ e.length = z.length /\ e.upgrade = z.upgrade /\ e.header = z.header /\ e.state = z.state
      /\ e.head = z.head /\ e.begun = z.begun /\ e.contentLength = z.contentLength
      /\ e.respFlags = z.respFlags
  BY <1>2, <1>3 DEF IsParser, Fields, SameRun
<1> HIDE DEF e
<1>5. Idle(e, j)
  BY <1>2, <1>3, <1>4 DEF Idle, SameRun
<1> QED
  BY <1>1, <1>2, <1>4, <1>5

\* A span that begins at j.
LEMMA OpenSound ==
  ASSUME NEW j \in 1 .. RespSize, NEW z, Idle(z, j), NEW w, IsParser(w), ~w.failed,
         w.find = z.find, w.state = z.state, w.err = "HPE_OK", w.cur = z.cur, w.hdr = z.hdr,
         w.field = z.field, w.value = z.value, w.body = z.body, w.bodyLen = z.bodyLen, w.from = j,
         \/ w.span = "status" /\ w.st = "status"
         \/ w.span = "field" /\ w.st = "field"
         \/ w.span = "value" /\ w.st \in InValue /\ z.field.at # 0
         \/ w.span = "body" /\ w.st \in InBody
  PROVE  Sound(w, j + 1)
<1>1. j \in Nat \ {0} /\ j <= RespSize /\ j \in 1 .. j + 1 /\ j < j + 1
  BY ResponseAssumption
<1>2. w.cur \in 1 .. j + 1 /\ w.hdr \in 0 .. w.cur - 1
  BY <1>1 DEF Idle
<1>3. w.st \in States /\ w.st # "error"
  BY DEF States, InValue, InBody, Named
<1>4. /\ Before(w.field, j) /\ Before(w.value, j) /\ Before([at |-> w.body, len |-> w.bodyLen], j)
      /\ w.value.at # 0 => w.field.at # 0
  BY DEF Idle
<1>5. Live(w, j + 1)
  BY <1>1, <1>2, <1>3, <1>4 DEF Live, InValue, InBody, Named
<1> QED
  BY <1>3, <1>5 DEF Sound, Idle

\* A message that is complete.
LEMMA CompleteSound ==
  ASSUME NEW j \in Nat \ {0}, NEW z, Idle(z, j)
  PROVE  /\ Sound(MessageComplete(z), j)
         /\ Sound(PauseUpgrade(z), j)
         /\ Sound(BodyComplete(z), j)
<1> DEFINE e == OnMessageComplete(z)
           m == [e EXCEPT !.st = IF ShouldKeepAlive(z) THEN "start" ELSE "closed", !.flags = {}]
<1>1. ~Searching(z)
  BY NotSearching DEF Idle
<1>2. MessageComplete(z) = m /\ PauseUpgrade(z) = Fail(e, "HPE_PAUSED_UPGRADE")
  BY <1>1 DEF MessageComplete, PauseUpgrade, MessageEnd
<1>3. Idle(e, j)
  BY DEF Idle, OnMessageComplete, IsParser, Fields
<1> HIDE DEF e
<1>4. Idle(m, j) /\ m.st \in {"start", "closed"}
  BY <1>3 DEF Idle, IsParser, Fields
<1> HIDE DEF m
<1>5. Sound(m, j)
  BY <1>4, IdleSound DEF Between, States, InValue, InBody, Named
<1>6. Sound(Fail(e, "HPE_PAUSED_UPGRADE"), j)
  BY <1>3, FailSound DEF Idle
<1> QED
  BY <1>2, <1>5, <1>6 DEF BodyComplete

\* The callback for the end of the headers.
LEMMA HeadersCompleteIdle ==
  ASSUME NEW j \in 1 .. RespSize, NEW z, Idle(z, j)
  PROVE  Idle(HeadersComplete(z), j)
<1> DEFINE ok == z.cur \in 1 .. RespSize /\ (z.hdr # 0 => z.hdr < z.cur)
           a  == [z EXCEPT !.failed = @ \/ ~ok]
           b  == [a EXCEPT !.hdrLen = IF z.hdr = 0 THEN 0 ELSE z.cur - z.hdr,
                           !.contentLength = IF z.length = MaxLength THEN 0 ELSE z.length % Sizes,
                           !.respFlags = @ \cup (z.flags \cap {"close", "keep-alive"}),
                           !.flags = IF z.head THEN @ \cup {"skipbody"} ELSE @]
<1>1. ok
  BY ResponseAssumption DEF Idle
<1>2. HeadersComplete(z) = ProcessCompleteHeader(b)
  BY NotSearching DEF HeadersComplete, OnHeadersComplete, Asserted, Idle
<1> HIDE DEF ok
<1>3. Idle(a, j)
  BY <1>1 DEF Idle, IsParser, Fields
<1> HIDE DEF a
<1>4. Idle(b, j)
  BY <1>3 DEF Idle, IsParser, Fields
<1> HIDE DEF b
<1> DEFINE w == ProcessCompleteHeader(b)
<1>5. IsParser(b) /\ ~b.failed
  BY <1>4 DEF Idle
<1>6. /\ IsParser(w) /\ SameRun(b, w) /\ w.cur = b.cur /\ ~w.failed
      /\ w.hdr = b.hdr /\ w.body = b.body /\ w.bodyLen = b.bodyLen
      /\ (w.field = b.field /\ w.value = b.value) \/ (w.field = NoText /\ w.value = NoText)
  BY <1>5, Processed
<1> HIDE DEF w
<1>7. Before(NoText, j)
  BY None
<1>8. Before(w.field, j) /\ Before(w.value, j) /\ (w.value.at # 0 => w.field.at # 0)
  BY <1>4, <1>6, <1>7 DEF Idle, NoText
<1>9. Idle(w, j)
  BY <1>4, <1>6, <1>8 DEF Idle, SameRun
<1> QED
  BY <1>2, <1>9 DEF w

\* What the headers say comes next.
LEMMA AfterHeadersSound ==
  ASSUME NEW j \in Nat \ {0}, NEW w, Idle(w, j)
  PROVE  Sound(AfterHeaders(w), j)
<1>1. /\ Sound(MessageComplete(w), j) /\ Sound(PauseUpgrade(w), j)
  BY CompleteSound
<1>2. ASSUME NEW st \in {"eof", "identity"} PROVE Sound(Goto(w, st), j)
  <2>1. Idle(Goto(w, st), j) /\ Goto(w, st).st = st
    BY DEF Goto, Idle, IsParser, Fields
  <2> QED
    BY <2>1, IdleSound DEF Between, States, InValue, InBody, Named
<1>3. Sound([w EXCEPT !.st = "size", !.length = 0], j)
  <2> DEFINE t == [w EXCEPT !.st = "size", !.length = 0]
  <2>1. Idle(t, j) /\ t.st = "size"
    BY DEF Idle, IsParser, Fields
  <2> HIDE DEF t
  <2>2. Sound(t, j)
    BY <2>1, IdleSound DEF Between, States, InValue, InBody, Named
  <2> QED
    BY <2>2 DEF t
<1>4. \/ AfterHeaders(w) \in {MessageComplete(w), PauseUpgrade(w), Goto(w, "eof"), Goto(w, "identity")}
      \/ AfterHeaders(w) = [w EXCEPT !.st = "size", !.length = 0]
  <2> DEFINE m == MessageComplete(w)
             u == PauseUpgrade(w)
             z == [w EXCEPT !.st = "size", !.length = 0]
             f == Goto(w, "eof")
             i == Goto(w, "identity")
             hasBody == "chunked" \in w.flags \/ w.length > 0
             eof == NeedsEof(w)
  <2>1. AfterHeaders(w) =
          IF w.upgrade /\ ("skipbody" \in w.flags \/ ~hasBody) THEN u
          ELSE CASE "skipbody" \in w.flags -> m
                 [] "skipbody" \notin w.flags /\ "chunked" \in w.flags -> z
                 [] w.flags \cap {"skipbody", "chunked"} = {} /\ "transfer" \in w.flags -> f
                 [] w.flags \cap {"skipbody", "chunked", "transfer"} = {} ->
                      IF "length" \in w.flags THEN IF w.length = 0 THEN m ELSE i
                      ELSE IF eof THEN f ELSE m
    BY DEF AfterHeaders
  <2> HIDE DEF m, u, z, f, i, hasBody, eof
  <2>2. AfterHeaders(w) \in {m, u, z, f, i}
    BY <2>1
  <2> QED
    BY <2>2 DEF m, u, z, f, i
<1> QED
  BY <1>1, <1>2, <1>3, <1>4

\* What is neither a place nor a text may change.
LEMMA KeepSound ==
  ASSUME NEW j, NEW z, Sound(z, j), NEW w, IsParser(w), ~w.failed, w.find = z.find,
         w.state = z.state, w.err = z.err, w.st = z.st, w.span = z.span, w.from = z.from,
         w.cur = z.cur, w.hdr = z.hdr, w.field = z.field, w.value = z.value, w.body = z.body,
         w.bodyLen = z.bodyLen
  PROVE  Sound(w, j)
<1>1. z.st # "error" => Live(w, j)
  BY DEF Sound, Live
<1> QED
  BY <1>1 DEF Sound

\* The empty line, and any line where a header may begin.
LEMMA HeadersDoneSound ==
  ASSUME NEW j \in 1 .. RespSize, NEW z, Idle(z, j)
  PROVE  Sound(HeadersDone(z), j)
<1>1. j \in Nat \ {0}
  BY ResponseAssumption
<1>2. Sound(BodyComplete(z), j)
  BY <1>1, CompleteSound
<1>3. Sound(Fail(z, "HPE_UNEXPECTED_CONTENT_LENGTH"), j)
  BY FailSound DEF Idle
<1>4. Idle(BeforeHeaders(z), j)
  BY DEF BeforeHeaders, Idle, IsParser, Fields
<1>5. Sound(AfterHeaders(HeadersComplete(BeforeHeaders(z))), j)
  BY <1>1, <1>4, HeadersCompleteIdle, AfterHeadersSound
<1> QED
  BY <1>2, <1>3, <1>5 DEF HeadersDone

LEMMA FieldStartSound ==
  ASSUME NEW j \in 1 .. RespSize, NEW z, Idle(z, j)
  PROVE  Sound(FieldStart(z, j), j + 1)
<1>1. j \in Nat \ {0}
  BY ResponseAssumption
<1>2. CASE z.buf[j].k = "nl"
  <2>1. FieldStart(z, j) = HeadersDone(z)
    BY <1>2 DEF FieldStart
  <2> QED
    BY <1>1, <2>1, HeadersDoneSound, SoundNext
<1>3. CASE z.buf[j].k = "field"
  <2> DEFINE w == [Goto(Open(z, "field", j), "field") EXCEPT !.header = z.buf[j].v]
  <2>1. FieldStart(z, j) = w
    BY <1>3 DEF FieldStart
  <2>2. /\ IsParser(w) /\ ~w.failed /\ w.find = z.find /\ w.state = z.state /\ w.err = "HPE_OK"
        /\ w.cur = z.cur /\ w.hdr = z.hdr /\ w.field = z.field /\ w.value = z.value /\ w.body = z.body
        /\ w.bodyLen = z.bodyLen /\ w.from = j /\ w.span = "field" /\ w.st = "field"
    BY DEF Goto, Open, IsParser, Fields, Idle
  <2> HIDE DEF w
  <2> QED
    BY <2>1, <2>2, OpenSound
<1>4. CASE z.buf[j].k \notin {"nl", "field"}
  <2>1. FieldStart(z, j) = Fail(z, "HPE_INVALID_HEADER_TOKEN")
    BY <1>4 DEF FieldStart
  <2> QED
    BY <2>1, FailSound DEF Idle
<1> QED
  BY <1>2, <1>3, <1>4

\* A word of a value.
LEMMA WordSound ==
  ASSUME NEW j \in Nat, NEW z, Sound(z, j + 1), z.st \in InValue
  PROVE  Sound(Word(z, j), j + 1)
<1>1. z.st # "error" /\ z.span = "value" /\ j + 1 \in Nat \ {0}
  BY DEF InValue, Sound, Live
<1>2. IsParser(z) /\ ~z.failed /\ z.find = NoSearch /\ z.err = "HPE_OK"
  BY <1>1 DEF Sound
<1>3. CASE z.st = "length"
  <2> DEFINE v == z.buf[j].v
             e == EndSpan(z, j + 1, "error")
             d == [z EXCEPT !.length = @ * 10 + v]
  <2>1. Word(z, j) \in {Fail(e, "HPE_INVALID_CONTENT_LENGTH"), d}
    BY <1>3 DEF Word, Digit
  <2>2. Idle(e, j + 1)
    BY <1>1, EndIdle
  <2>3. Sound(Fail(e, "HPE_INVALID_CONTENT_LENGTH"), j + 1)
    BY <2>2, FailSound DEF Idle
  <2>4. Sound(d, j + 1)
    <3>1. /\ IsParser(d) /\ ~d.failed /\ d.find = z.find /\ d.state = z.state /\ d.err = z.err
          /\ d.st = z.st /\ d.span = z.span /\ d.from = z.from /\ d.cur = z.cur /\ d.hdr = z.hdr
          /\ d.field = z.field /\ d.value = z.value /\ d.body = z.body /\ d.bodyLen = z.bodyLen
      BY <1>2 DEF IsParser, Fields
    <3> HIDE DEF d
    <3> QED
      BY <3>1, KeepSound
  <2> QED
    BY <2>1, <2>3, <2>4
<1>4. ASSUME NEW flags, NEW header
      PROVE  Sound([z EXCEPT !.flags = flags, !.header = header], j + 1)
  <2> DEFINE d == [z EXCEPT !.flags = flags, !.header = header]
  <2>1. /\ IsParser(d) /\ ~d.failed /\ d.find = z.find /\ d.state = z.state /\ d.err = z.err
        /\ d.st = z.st /\ d.span = z.span /\ d.from = z.from /\ d.cur = z.cur /\ d.hdr = z.hdr
        /\ d.field = z.field /\ d.value = z.value /\ d.body = z.body /\ d.bodyLen = z.bodyLen
    BY <1>2 DEF IsParser, Fields
  <2> HIDE DEF d
  <2>2. Sound(d, j + 1)
    BY <2>1, KeepSound
  <2> QED
    BY <2>2 DEF d
<1>5. CASE z.st = "connection"
  <2> DEFINE h == IF z.buf[j].v \in {KeepAlive, Closing, Switching} THEN z.buf[j].v ELSE Connection
             f == z.flags \cup {Flag[z.header]}
  <2>1. Word(z, j) = [Flagged(z) EXCEPT !.header = h]
    BY <1>5 DEF Word, ConnectionWord
  <2>2. Sound(Flagged(z), j + 1)
    <3> DEFINE d == [z EXCEPT !.flags = f]
    <3>1. /\ IsParser(d) /\ ~d.failed /\ d.find = z.find /\ d.state = z.state /\ d.err = z.err
          /\ d.st = z.st /\ d.span = z.span /\ d.from = z.from /\ d.cur = z.cur /\ d.hdr = z.hdr
          /\ d.field = z.field /\ d.value = z.value /\ d.body = z.body /\ d.bodyLen = z.bodyLen
      BY <1>2 DEF IsParser, Fields
    <3>2. Flagged(z) \in {z, d}
      BY DEF Flagged
    <3> HIDE DEF d
    <3>3. Sound(d, j + 1)
      BY <3>1, KeepSound
    <3> QED
      BY <3>2, <3>3
  <2> DEFINE g == Flagged(z)
             d == [g EXCEPT !.header = h]
  <2>3. IsParser(g) /\ ~g.failed
    BY <2>2 DEF Sound
  <2> HIDE DEF g, h
  <2>4. /\ IsParser(d) /\ ~d.failed /\ d.find = g.find /\ d.state = g.state /\ d.err = g.err
        /\ d.st = g.st /\ d.span = g.span /\ d.from = g.from /\ d.cur = g.cur /\ d.hdr = g.hdr
        /\ d.field = g.field /\ d.value = g.value /\ d.body = g.body /\ d.bodyLen = g.bodyLen
    BY <2>3 DEF IsParser, Fields
  <2>5. Sound(g, j + 1)
    BY <2>2 DEF g
  <2> HIDE DEF d
  <2>6. Sound(d, j + 1)
    BY <2>4, <2>5, KeepSound
  <2> QED
    BY <2>1, <2>6 DEF d, g
<1>6. CASE z.st = "encoding"
  <2> DEFINE h == IF z.buf[j].v = Chunked THEN Chunked ELSE General
             d == [z EXCEPT !.header = h]
  <2>1. Word(z, j) = d
    BY <1>6 DEF Word, EncodingWord
  <2> HIDE DEF h
  <2>2. /\ IsParser(d) /\ ~d.failed /\ d.find = z.find /\ d.state = z.state /\ d.err = z.err
        /\ d.st = z.st /\ d.span = z.span /\ d.from = z.from /\ d.cur = z.cur /\ d.hdr = z.hdr
        /\ d.field = z.field /\ d.value = z.value /\ d.body = z.body /\ d.bodyLen = z.bodyLen
    BY <1>2 DEF IsParser, Fields
  <2> HIDE DEF d
  <2> QED
    BY <2>1, <2>2, KeepSound
<1>7. CASE z.st = "value"
  BY <1>7 DEF Word
<1> QED
  BY <1>3, <1>5, <1>6, <1>7 DEF InValue

\* What is no place, no text and no error may change between spans.
LEMMA KeepIdle ==
  ASSUME NEW j, NEW z, Idle(z, j), NEW w, IsParser(w), ~w.failed, w.find = z.find, w.state = z.state,
         w.err = z.err, w.span = z.span, w.cur = z.cur, w.hdr = z.hdr, w.field = z.field,
         w.value = z.value, w.body = z.body, w.bodyLen = z.bodyLen
  PROVE  Idle(w, j)
BY DEF Idle

\* The first token of a line of a value.
LEMMA ValueStartSound ==
  ASSUME NEW j \in 1 .. RespSize, NEW z, Idle(z, j), z.field.at # 0
  PROVE  Sound(ValueStart(z, j), j + 1)
<1> DEFINE o == Open(z, "value", j)
<1>1. j \in Nat /\ IsParser(z) /\ z.err = "HPE_OK"
  BY ResponseAssumption DEF Idle
<1>2. ASSUME NEW st \in InValue, NEW flags, NEW header
      PROVE  LET t == [o EXCEPT !.st = st, !.flags = flags, !.header = header] IN
             Sound(t, j + 1) /\ Sound(Word(t, j), j + 1)
  <2> DEFINE t == [o EXCEPT !.st = st, !.flags = flags, !.header = header]
  <2>1. /\ IsParser(t) /\ ~t.failed /\ t.find = z.find /\ t.state = z.state /\ t.err = "HPE_OK"
        /\ t.cur = z.cur /\ t.hdr = z.hdr /\ t.field = z.field /\ t.value = z.value
        /\ t.body = z.body /\ t.bodyLen = z.bodyLen /\ t.from = j /\ t.span = "value" /\ t.st = st
    BY <1>1 DEF Open, IsParser, Fields, Idle
  <2> HIDE DEF t
  <2>2. Sound(t, j + 1)
    BY <2>1, OpenSound
  <2>3. Sound(Word(t, j), j + 1)
    BY <1>1, <2>1, <2>2, WordSound
  <2> QED
    BY <2>2, <2>3 DEF t
<1>3. ASSUME NEW st PROVE [o EXCEPT !.st = st, !.flags = z.flags, !.header = z.header] = Goto(o, st)
  BY <1>1 DEF Open, Goto, IsParser, Fields
<1>4. ASSUME NEW st, NEW flags
      PROVE  [o EXCEPT !.st = st, !.flags = flags, !.header = z.header]
               = [Goto(o, st) EXCEPT !.flags = flags]
  BY <1>1 DEF Open, Goto, IsParser, Fields
<1>5. ASSUME NEW st \in InValue PROVE Sound(Goto(o, st), j + 1) /\ Sound(Word(Goto(o, st), j), j + 1)
  <2>1. LET t == [o EXCEPT !.st = st, !.flags = z.flags, !.header = z.header] IN
        Sound(t, j + 1) /\ Sound(Word(t, j), j + 1)
    BY <1>2
  <2> HIDE DEF o
  <2> QED
    BY <1>3, <2>1
<1> DEFINE f1 == (z.flags \ {"chunked"}) \cup {"transfer"}
           f2 == z.flags \cup {"upgrade"}
           v1 == Fail(o, "HPE_UNEXPECTED_CONTENT_LENGTH")
           v2 == Word(Goto(o, "length"), j)
           v3 == Word(Goto(o, "connection"), j)
           v4 == Word([Goto(o, "encoding") EXCEPT !.flags = f1], j)
           v5 == [Goto(o, "value") EXCEPT !.flags = f2, !.header = General]
           v6 == Goto(o, "value")
<1>12. Goto(o, "encoding").flags = z.flags /\ Goto(o, "value").flags = z.flags
  BY <1>1 DEF Open, Goto, IsParser, Fields
<1>13. ValueStart(z, j) =
         CASE z.header = Length /\ "length" \in z.flags -> v1
           [] z.header = Length /\ "length" \notin z.flags -> v2
           [] z.header = Connection -> v3
           [] z.header = Encoding -> v4
           [] z.header = Upgrade -> v5
           [] OTHER -> v6
  <2>1. v4 = Word([Goto(o, "encoding") EXCEPT !.flags = (@ \ {"chunked"}) \cup {"transfer"}], j)
    <3> HIDE DEF o
    <3> QED
      BY <1>12
  <2>2. v5 = [Goto(o, "value") EXCEPT !.flags = @ \cup {"upgrade"}, !.header = General]
    <3> HIDE DEF o
    <3> QED
      BY <1>12
  <2>3. ValueStart(z, j) =
         CASE z.header = Length /\ "length" \in z.flags -> v1
           [] z.header = Length /\ "length" \notin z.flags -> v2
           [] z.header = Connection -> v3
           [] z.header = Encoding ->
                Word([Goto(o, "encoding") EXCEPT !.flags = (@ \ {"chunked"}) \cup {"transfer"}], j)
           [] z.header = Upgrade ->
                [Goto(o, "value") EXCEPT !.flags = @ \cup {"upgrade"}, !.header = General]
           [] OTHER -> v6
    BY Zenon DEF ValueStart
  <2> HIDE DEF v4, v5
  <2> QED
    BY <2>1, <2>2, <2>3, Zenon
<1> HIDE DEF v1, v2, v3, v4, v5, v6
<1> USE DEF Length, Connection, Encoding, Upgrade
<1>6. CASE z.header = Length /\ "length" \in z.flags
  <2>1. ValueStart(z, j) = v1
    BY <1>6, <1>13
  <2>2. IsParser(o) /\ ~o.failed /\ o.find = NoSearch /\ o.state \in {"none", "incomplete", "complete"}
    BY DEF Open, IsParser, Fields, Idle
  <2> HIDE DEF o
  <2> QED
    BY <2>1, <2>2, FailSound DEF v1
<1>7. CASE z.header = Length /\ "length" \notin z.flags
  <2>1. ValueStart(z, j) = v2
    BY <1>7, <1>13
  <2> HIDE DEF o
  <2> QED
    BY <1>5, <2>1 DEF InValue, v2
<1>8. CASE z.header = Connection
  <2>1. ValueStart(z, j) = v3
    BY <1>8, <1>13
  <2> HIDE DEF o
  <2> QED
    BY <1>5, <2>1 DEF InValue, v3
<1>9. CASE z.header = Encoding
  <2> DEFINE t == [o EXCEPT !.st = "encoding", !.flags = f1, !.header = z.header]
  <2>1. ValueStart(z, j) = v4
    BY <1>9, <1>13
  <2>2. Sound(t, j + 1) /\ Sound(Word(t, j), j + 1)
    <3> HIDE DEF o
    <3> QED
      BY <1>2 DEF InValue
  <2>3. t = [Goto(o, "encoding") EXCEPT !.flags = f1]
    BY <1>4
  <2> HIDE DEF o, t, f1
  <2> QED
    BY <2>1, <2>2, <2>3 DEF v4
<1>10. CASE z.header = Upgrade
  <2> DEFINE t == [o EXCEPT !.st = "value", !.flags = f2, !.header = General]
  <2>1. ValueStart(z, j) = v5
    BY <1>10, <1>13
  <2>2. t = [Goto(o, "value") EXCEPT !.flags = f2, !.header = General]
    BY <1>1 DEF Open, Goto, IsParser, Fields
  <2>3. Sound(t, j + 1)
    <3> HIDE DEF o
    <3> QED
      BY <1>2 DEF InValue
  <2> HIDE DEF t
  <2> QED
    BY <2>1, <2>2, <2>3 DEF v5
<1>11. CASE z.header \notin {Length, Connection, Encoding, Upgrade}
  <2>1. ValueStart(z, j) = v6
    BY <1>11, <1>13
  <2> HIDE DEF o
  <2> QED
    BY <1>5, <2>1 DEF InValue, v6
<1> QED
  BY <1>6, <1>7, <1>8, <1>9, <1>10, <1>11

\* An empty line of a value is reported and ends it.
LEMMA EmptyValue ==
  ASSUME NEW j \in 1 .. RespSize, NEW z, Idle(z, j), z.field.at # 0, NEW st
  PROVE  LET e == EndSpan(Open(z, "value", j), j, st) IN Idle(e, j) /\ e.st = st
<1> DEFINE o == Open(z, "value", j)
           w == OnHeaderValue(o, j, 0)
           e == [w EXCEPT !.span = "none", !.from = 0, !.st = st]
<1>1. /\ IsParser(o) /\ ~o.failed /\ o.find = NoSearch /\ o.state \in {"none", "incomplete", "complete"}
      /\ o.err = "HPE_OK" /\ o.span = "value" /\ o.cur = z.cur /\ o.hdr = z.hdr /\ o.field = z.field
      /\ o.value = z.value /\ o.body = z.body /\ o.bodyLen = z.bodyLen /\ o.from = j
  BY DEF Open, IsParser, Fields, Idle
<1> HIDE DEF o
<1>2. Report(o, j) = w
  BY <1>1, NotSearching DEF Report
<1>3. /\ IsParser(w) /\ SameRun(o, w) /\ w.cur = j + 0 /\ ~w.failed
      /\ w.hdr = o.hdr /\ w.body = o.body /\ w.bodyLen = o.bodyLen /\ w.field = o.field
      /\ w.value = Extend(o.value, j, 0)
  BY <1>1, ValueReported
<1> HIDE DEF w
<1>4. EndSpan(o, j, st) = e
  BY <1>1, <1>2, <1>3 DEF EndSpan, SameRun
<1>5. j \in Nat \ {0} /\ Before(z.field, j) /\ Before(z.value, j)
      /\ Before([at |-> z.body, len |-> z.bodyLen], j) /\ z.cur \in 1 .. j /\ z.hdr \in 0 .. z.cur - 1
  BY ResponseAssumption DEF Idle
<1>6. Before(w.value, j)
  BY <1>1, <1>3, <1>5, Extended
<1>7. /\ IsParser(e) /\ ~e.failed /\ e.find = w.find /\ e.state = w.state /\ e.err = w.err
      /\ e.span = "none" /\ e.st = st /\ e.cur = w.cur /\ e.hdr = w.hdr /\ e.field = w.field
      /\ e.value = w.value /\ e.body = w.body /\ e.bodyLen = w.bodyLen
  BY <1>3 DEF IsParser, Fields
<1> HIDE DEF e
<1>8. Idle(e, j)
  BY <1>1, <1>3, <1>5, <1>6, <1>7 DEF Idle, SameRun
<1> QED
  BY <1>4, <1>7, <1>8 DEF o

\* A step from one state without a span to another.
LEMMA BetweenSound ==
  ASSUME NEW j \in Nat \ {0}, NEW z, Idle(z, j), NEW w, IsParser(w), ~w.failed, w.find = z.find,
         w.state = z.state, w.err = z.err, w.span = z.span, w.cur = z.cur, w.hdr = z.hdr,
         w.field = z.field, w.value = z.value, w.body = z.body, w.bodyLen = z.bodyLen,
         w.st \in Between, w.st \in Named => z.field.at # 0
  PROVE  Sound(w, j + 1)
<1>1. Idle(w, j)
  BY KeepIdle
<1>2. Idle(w, j + 1) /\ j + 1 \in Nat \ {0}
  BY <1>1, IdleNext
<1> QED
  BY <1>2, IdleSound

LEMMA GotoSound ==
  ASSUME NEW j \in Nat \ {0}, NEW z, Idle(z, j), NEW st \in Between, st \in Named => z.field.at # 0
  PROVE  Sound(Goto(z, st), j + 1)
<1> DEFINE w == Goto(z, st)
<1>1. /\ IsParser(w) /\ ~w.failed /\ w.find = z.find /\ w.state = z.state /\ w.err = z.err
      /\ w.span = z.span /\ w.cur = z.cur /\ w.hdr = z.hdr /\ w.field = z.field /\ w.value = z.value
      /\ w.body = z.body /\ w.bodyLen = z.bodyLen /\ w.st = st
  BY DEF Goto, IsParser, Fields, Idle
<1>2. w.st \in Between /\ (w.st \in Named => z.field.at # 0)
  BY <1>1
<1> HIDE DEF w
<1>3. Sound(w, j + 1)
  BY <1>1, <1>2, BetweenSound
<1> QED
  BY <1>3 DEF w

\* A text that is none, in a value and at its beginning.
LEMMA BadValueSound ==
  ASSUME NEW j \in 1 .. RespSize, NEW z, Sound(z, j), z.span = "value", z.st # "error"
  PROVE  Sound(BadValue(z, j), j + 1)
<1>1. j \in Nat \ {0}
  BY ResponseAssumption
<1>2. Idle(EndSpan(z, j, "error"), j)
  BY <1>1, EndIdle
<1> QED
  BY <1>2, FailSound DEF BadValue, Idle, Sound

LEMMA BadBeginning ==
  ASSUME NEW j \in 1 .. RespSize, NEW z, Idle(z, j), z.field.at # 0
  PROVE  Sound(BadValue(Open(z, "value", j), j), j + 1)
<1> DEFINE o == Open(z, "value", j)
<1>1. Idle(EndSpan(o, j, "error"), j)
  BY EmptyValue
<1>2. IsParser(o) /\ ~o.failed /\ o.find = NoSearch /\ o.state \in {"none", "incomplete", "complete"}
  BY DEF Open, IsParser, Fields, Idle
<1> HIDE DEF o
<1>3. Sound(BadValue(o, j), j + 1)
  BY <1>1, <1>2, FailSound DEF BadValue, Idle
<1> QED
  BY <1>3 DEF o

LEMMA FlaggedIdle ==
  ASSUME NEW j, NEW z, Idle(z, j)
  PROVE  Idle(Flagged(z), j) /\ Flagged(z).field = z.field
<1> DEFINE d == [z EXCEPT !.flags = z.flags \cup {Flag[z.header]}]
<1>1. /\ IsParser(d) /\ ~d.failed /\ d.find = z.find /\ d.state = z.state /\ d.err = z.err
      /\ d.span = z.span /\ d.cur = z.cur /\ d.hdr = z.hdr /\ d.field = z.field /\ d.value = z.value
      /\ d.body = z.body /\ d.bodyLen = z.bodyLen
  BY DEF IsParser, Fields, Idle
<1>2. Flagged(z) \in {z, d}
  BY DEF Flagged
<1> HIDE DEF d
<1>3. Idle(d, j)
  BY <1>1, KeepIdle
<1> QED
  BY <1>1, <1>2, <1>3

-----------------------------------------------------------------------------
(* The states of llhttp, one by one.                                       *)

LEMMA FieldNameSound ==
  ASSUME NEW j \in 1 .. RespSize, NEW z, Sound(z, j), z.st = "field", NEW t
  PROVE  Sound(FieldName(z, j, t), j + 1)
<1>1. j \in Nat \ {0} /\ z.span = "field"
  BY ResponseAssumption DEF Sound, Live
<1>2. Sound(z, j + 1)
  BY <1>1, SoundNext
<1> DEFINE e == EndSpan(z, j, "discard_ws")
<1>3. Idle(e, j) /\ e.st = "discard_ws" /\ e.field.at # 0
  BY <1>1, EndIdle
<1>4. FieldName(z, j, t) \in {z, e, Fail(z, "HPE_INVALID_HEADER_TOKEN")}
  BY DEF FieldName
<1> HIDE DEF e
<1>5. Sound(e, j + 1)
  BY <1>1, <1>3, BetweenSound DEF Idle, Between, States, InValue, InBody, Named
<1>6. Sound(Fail(z, "HPE_INVALID_HEADER_TOKEN"), j + 1)
  BY FailSound DEF Sound
<1> QED
  BY <1>2, <1>4, <1>5, <1>6

LEMMA DiscardWsSound ==
  ASSUME NEW j \in 1 .. RespSize, NEW z, Idle(z, j), z.field.at # 0, NEW t
  PROVE  Sound(DiscardWs(z, j, t), j + 1)
<1>1. j \in Nat \ {0}
  BY ResponseAssumption
<1>2. Sound(Goto(z, "discard_lws"), j + 1)
  BY <1>1, GotoSound DEF Between, States, InValue, InBody, Named
<1>3. DiscardWs(z, j, t) \in {Goto(z, "discard_lws"), ValueStart(z, j), BadValue(Open(z, "value", j), j)}
  BY DEF DiscardWs
<1> QED
  BY <1>2, <1>3, ValueStartSound, BadBeginning

LEMMA DiscardLwsSound ==
  ASSUME NEW j \in 1 .. RespSize, NEW z, Idle(z, j), z.field.at # 0, NEW t
  PROVE  Sound(DiscardLws(z, j, t), j + 1)
<1> DEFINE e == EndSpan(Open(z, "value", j), j, "field_start")
<1>1. Idle(e, j)
  BY EmptyValue
<1>2. DiscardLws(z, j, t)
        \in {ValueStart(z, j), Fail(z, "HPE_INVALID_CONTENT_LENGTH"), IF e.err = "HPE_OK" THEN FieldStart(e, j) ELSE e}
  BY DEF DiscardLws
<1> HIDE DEF e
<1>3. Sound(Fail(z, "HPE_INVALID_CONTENT_LENGTH"), j + 1)
  BY FailSound DEF Idle
<1>4. Sound(IF e.err = "HPE_OK" THEN FieldStart(e, j) ELSE e, j + 1)
  BY <1>1, FieldStartSound DEF Idle
<1> QED
  BY <1>2, <1>3, <1>4, ValueStartSound

LEMMA ValueTextSound ==
  ASSUME NEW j \in 1 .. RespSize, NEW z, Sound(z, j), z.st \in InValue, NEW t
  PROVE  Sound(ValueText(z, j, t), j + 1)
<1> DEFINE f == IF z.st = "length" THEN z.flags \cup {"length"} ELSE z.flags
           a == [z EXCEPT !.flags = f]
           e == EndSpan(a, j, "lws")
<1>1. j \in Nat \ {0} /\ z.span = "value" /\ z.st # "error" /\ Sound(z, j + 1)
  BY ResponseAssumption, SoundNext DEF Sound, Live, InValue
<1>2. ValueText(z, j, t) \in {Word(z, j), e, BadValue(z, j)}
  <2>1. e = EndSpan([z EXCEPT !.flags = IF z.st = "length" THEN @ \cup {"length"} ELSE @], j, "lws")
    BY DEF Sound, IsParser
  <2> HIDE DEF e
  <2> QED
    BY <2>1 DEF ValueText
<1> HIDE DEF f
<1>3. /\ IsParser(a) /\ ~a.failed /\ a.find = z.find /\ a.state = z.state /\ a.err = z.err
      /\ a.st = z.st /\ a.span = z.span /\ a.from = z.from /\ a.cur = z.cur /\ a.hdr = z.hdr
      /\ a.field = z.field /\ a.value = z.value /\ a.body = z.body /\ a.bodyLen = z.bodyLen
  BY DEF IsParser, Fields, Sound
<1> HIDE DEF a
<1>4. Sound(a, j)
  BY <1>3, KeepSound
<1>5. Idle(e, j) /\ e.st = "lws" /\ e.field.at # 0
  BY <1>1, <1>3, <1>4, EndIdle
<1> HIDE DEF e
<1>6. Sound(e, j + 1)
  BY <1>1, <1>5, BetweenSound DEF Idle, Between, States, InValue, InBody, Named
<1>7. Sound(Word(z, j), j + 1)
  BY <1>1, WordSound
<1> QED
  BY <1>1, <1>2, <1>6, <1>7, BadValueSound

LEMMA LwsSound ==
  ASSUME NEW j \in 1 .. RespSize, NEW z, Idle(z, j), z.field.at # 0, NEW t
  PROVE  Sound(Lws(z, j, t), j + 1)
<1>1. Idle(Flagged(z), j)
  BY FlaggedIdle
<1> QED
  BY <1>1, ValueStartSound, FieldStartSound DEF Lws

LEMMA StartSound ==
  ASSUME NEW j \in 1 .. RespSize, NEW z, Idle(z, j), z.st = "start", NEW t
  PROVE  Sound(Start(z, t), j + 1)
<1> DEFINE m == OnMessageBegin(z)
           c == [m EXCEPT !.version = t.v, !.st = "code"]
<1>1. j \in Nat \ {0} /\ MessageBegin(z) = m
  BY ResponseAssumption, NotSearching DEF MessageBegin, Idle
<1>2. Start(z, t) \in {z, c, Fail(m, "HPE_INVALID_VERSION"), Fail(m, "HPE_INVALID_CONSTANT")}
  BY <1>1 DEF Start
<1>3. Idle(m, j)
  BY DEF OnMessageBegin, IsParser, Fields, Idle
<1> HIDE DEF m
<1>4. /\ IsParser(c) /\ ~c.failed /\ c.find = m.find /\ c.state = m.state /\ c.err = m.err
      /\ c.span = m.span /\ c.cur = m.cur /\ c.hdr = m.hdr /\ c.field = m.field /\ c.value = m.value
      /\ c.body = m.body /\ c.bodyLen = m.bodyLen /\ c.st = "code"
  BY <1>3 DEF IsParser, Fields, Idle
<1> HIDE DEF c
<1>5. Sound(c, j + 1)
  BY <1>1, <1>3, <1>4, BetweenSound DEF Between, States, InValue, InBody, Named
<1>6. Sound(Fail(m, "HPE_INVALID_VERSION"), j + 1) /\ Sound(Fail(m, "HPE_INVALID_CONSTANT"), j + 1)
  BY <1>3, FailSound DEF Idle
<1>7. Sound(z, j + 1)
  BY <1>1, BetweenSound DEF Between, States, InValue, InBody, Named, Idle
<1> QED
  BY <1>2, <1>5, <1>6, <1>7

LEMMA StatusCodeSound ==
  ASSUME NEW j \in 1 .. RespSize, NEW z, Idle(z, j), NEW t
  PROVE  Sound(StatusCode(z, t), j + 1)
<1> DEFINE c == [z EXCEPT !.code = t.v, !.st = "status_start"]
<1>1. j \in Nat \ {0} /\ StatusCode(z, t) \in {c, Fail(z, "HPE_INVALID_STATUS")}
  BY ResponseAssumption DEF StatusCode
<1>2. /\ IsParser(c) /\ ~c.failed /\ c.find = z.find /\ c.state = z.state /\ c.err = z.err
      /\ c.span = z.span /\ c.cur = z.cur /\ c.hdr = z.hdr /\ c.field = z.field /\ c.value = z.value
      /\ c.body = z.body /\ c.bodyLen = z.bodyLen /\ c.st = "status_start"
  BY DEF IsParser, Fields, Idle
<1> HIDE DEF c
<1>3. Sound(c, j + 1)
  BY <1>1, <1>2, BetweenSound DEF Between, States, InValue, InBody, Named
<1>4. Sound(Fail(z, "HPE_INVALID_STATUS"), j + 1)
  BY FailSound DEF Idle
<1> QED
  BY <1>1, <1>3, <1>4

LEMMA StatusTextSound ==
  ASSUME NEW j \in 1 .. RespSize, NEW z, Sound(z, j), z.st \in {"status_start", "status"}, NEW t
  PROVE  Sound(StatusText(z, j, t), j + 1)
<1> DEFINE e == EndSpan(z, j, "field_start")
           o == Goto(Open(z, "status", j), "status")
<1>1. j \in Nat \ {0} /\ z.st # "error" /\ IsParser(z) /\ ~z.failed
  BY ResponseAssumption DEF Sound
<1>2. CASE z.st = "status"
  <2>1. z.span = "status"
    BY <1>2 DEF Sound, Live
  <2>2. StatusText(z, j, t) \in {e, z}
    BY <1>2 DEF StatusText
  <2>3. Idle(e, j) /\ e.st = "field_start"
    BY <1>1, <2>1, EndIdle
  <2> HIDE DEF e
  <2>4. Sound(e, j + 1)
    BY <1>1, <2>3, BetweenSound DEF Idle, Between, States, InValue, InBody, Named
  <2> QED
    BY <1>1, <2>2, <2>4, SoundNext
<1>3. CASE z.st = "status_start"
  <2>1. StatusText(z, j, t) \in {Goto(z, "field_start"), o}
    BY <1>3 DEF StatusText
  <2>2. z.span = "none"
    BY <1>3 DEF Sound, Live, InValue, InBody
  <2>3. Idle(z, j)
    BY <1>1, <2>2, SoundIdle
  <2>4. Sound(Goto(z, "field_start"), j + 1)
    BY <1>1, <2>3, GotoSound DEF Between, States, InValue, InBody, Named
  <2>5. /\ IsParser(o) /\ ~o.failed /\ o.find = z.find /\ o.state = z.state /\ o.err = "HPE_OK"
        /\ o.cur = z.cur /\ o.hdr = z.hdr /\ o.field = z.field /\ o.value = z.value
        /\ o.body = z.body /\ o.bodyLen = z.bodyLen /\ o.from = j /\ o.span = "status" /\ o.st = "status"
    BY <1>1, <2>3 DEF Goto, Open, IsParser, Fields, Idle
  <2> HIDE DEF o
  <2>6. Sound(o, j + 1)
    BY <2>3, <2>5, OpenSound
  <2> QED
    BY <2>1, <2>4, <2>6
<1> QED
  BY <1>2, <1>3

\* A byte of a body: within it the span stays open, behind it there is none.
LEMMA ConsumeSound ==
  ASSUME NEW j \in 1 .. RespSize, NEW z, Sound(z, j), z.st \in InBody, NEW st
  PROVE  LET c == Consume(z, j, st) IN
         \/ Sound(c, j + 1) /\ c.st = z.st
         \/ Idle(c, j + 1) /\ c.st = st
<1> DEFINE o == IF z.span = "none" THEN Open(z, "body", j) ELSE z
           d == [o EXCEPT !.length = @ - 1]
           e == EndSpan(d, j + 1, st)
<1>1. j \in Nat \ {0} /\ j + 1 \in Nat \ {0} /\ z.st # "error" /\ IsParser(z) /\ ~z.failed
  BY ResponseAssumption DEF Sound, InBody
<1>2. Consume(z, j, st) \in {d, e}
  BY DEF Consume
<1>3. Sound(o, j + 1) /\ o.st = z.st /\ o.span # "none"
  <2>1. CASE z.span = "none"
    <3> DEFINE b == Open(z, "body", j)
    <3>1. Idle(z, j)
      BY <1>1, <2>1, SoundIdle
    <3>2. /\ IsParser(b) /\ ~b.failed /\ b.find = z.find /\ b.state = z.state /\ b.err = "HPE_OK"
          /\ b.cur = z.cur /\ b.hdr = z.hdr /\ b.field = z.field /\ b.value = z.value
          /\ b.body = z.body /\ b.bodyLen = z.bodyLen /\ b.from = j /\ b.span = "body" /\ b.st = z.st
      BY <1>1, <3>1 DEF Open, IsParser, Fields, Idle
    <3> HIDE DEF b
    <3>3. Sound(b, j + 1)
      BY <3>1, <3>2, OpenSound
    <3> QED
      BY <2>1, <3>2, <3>3 DEF b
  <2>2. CASE z.span # "none"
    BY <1>1, <2>2, SoundNext
  <2> QED
    BY <2>1, <2>2
<1> HIDE DEF o
<1>4. /\ IsParser(d) /\ ~d.failed /\ d.find = o.find /\ d.state = o.state /\ d.err = o.err
      /\ d.st = o.st /\ d.span = o.span /\ d.from = o.from /\ d.cur = o.cur /\ d.hdr = o.hdr
      /\ d.field = o.field /\ d.value = o.value /\ d.body = o.body /\ d.bodyLen = o.bodyLen
  BY <1>3 DEF IsParser, Fields, Sound
<1> HIDE DEF d
<1>5. Sound(d, j + 1)
  BY <1>3, <1>4, KeepSound
<1>6. Idle(e, j + 1) /\ e.st = st
  <2>1. d.span # "none" /\ d.st # "error"
    BY <1>1, <1>3, <1>4
  <2> QED
    BY <1>1, <1>5, <2>1, EndIdle
<1> HIDE DEF e
<1> QED
  BY <1>2, <1>3, <1>4, <1>5, <1>6

LEMMA IdentitySound ==
  ASSUME NEW j \in 1 .. RespSize, NEW z, Sound(z, j), z.st = "identity"
  PROVE  Sound(Identity(z, j), j + 1)
<1> DEFINE c == Consume(z, j, "identity_done")
<1>1. \/ Sound(c, j + 1) /\ c.st = "identity"
      \/ Idle(c, j + 1) /\ c.st = "identity_done"
  BY ConsumeSound DEF InBody
<1>2. Identity(z, j) = IF c.st = "identity_done" THEN BodyComplete(c) ELSE c
  BY DEF Identity
<1>3. j + 1 \in Nat \ {0}
  BY ResponseAssumption
<1> HIDE DEF c
<1>4. CASE c.st = "identity_done"
  <2>1. Idle(c, j + 1)
    BY <1>1, <1>4
  <2> QED
    BY <1>2, <1>3, <1>4, <2>1, CompleteSound
<1>5. CASE c.st # "identity_done"
  BY <1>1, <1>2, <1>5
<1> QED
  BY <1>4, <1>5

LEMMA UntilEofSound ==
  ASSUME NEW j \in 1 .. RespSize, NEW z, Sound(z, j), z.st = "eof"
  PROVE  Sound(UntilEof(z, j), j + 1)
<1> DEFINE b == Open(z, "body", j)
<1>1. j \in Nat \ {0} /\ z.st # "error" /\ IsParser(z) /\ ~z.failed
  BY ResponseAssumption DEF Sound
<1>2. CASE z.span = "none"
  <2>1. Idle(z, j)
    BY <1>1, <1>2, SoundIdle
  <2>2. /\ IsParser(b) /\ ~b.failed /\ b.find = z.find /\ b.state = z.state /\ b.err = "HPE_OK"
        /\ b.cur = z.cur /\ b.hdr = z.hdr /\ b.field = z.field /\ b.value = z.value
        /\ b.body = z.body /\ b.bodyLen = z.bodyLen /\ b.from = j /\ b.span = "body" /\ b.st \in InBody
    BY <1>1, <2>1 DEF Open, IsParser, Fields, Idle, InBody
  <2>3. UntilEof(z, j) = b
    BY <1>2 DEF UntilEof
  <2> HIDE DEF b
  <2> QED
    BY <2>1, <2>2, <2>3, OpenSound
<1>3. CASE z.span # "none"
  BY <1>1, <1>3, SoundNext DEF UntilEof
<1> QED
  BY <1>2, <1>3

LEMMA ChunkHeaderSound ==
  ASSUME NEW j \in 1 .. RespSize, NEW z, Idle(z, j)
  PROVE  Sound(ChunkHeader(z), j + 1)
<1> DEFINE f == z.flags \cup {"trailing"}
           c == [z EXCEPT !.flags = f, !.st = "field_start"]
<1>1. j \in Nat \ {0} /\ ChunkHeader(z) \in {c, Goto(z, "chunk")}
  BY ResponseAssumption DEF ChunkHeader, Idle, IsParser
<1> HIDE DEF f
<1>2. /\ IsParser(c) /\ ~c.failed /\ c.find = z.find /\ c.state = z.state /\ c.err = z.err
      /\ c.span = z.span /\ c.cur = z.cur /\ c.hdr = z.hdr /\ c.field = z.field /\ c.value = z.value
      /\ c.body = z.body /\ c.bodyLen = z.bodyLen /\ c.st = "field_start"
  BY DEF IsParser, Fields, Idle
<1> HIDE DEF c
<1>3. Sound(c, j + 1)
  BY <1>1, <1>2, BetweenSound DEF Between, States, InValue, InBody, Named
<1>4. Sound(Goto(z, "chunk"), j + 1)
  BY <1>1, GotoSound DEF Between, States, InValue, InBody, Named
<1> QED
  BY <1>1, <1>3, <1>4

LEMMA ChunkSizeSound ==
  ASSUME NEW j \in 1 .. RespSize, NEW z, Idle(z, j), NEW t
  PROVE  Sound(ChunkSize(z, t), j + 1)
<1> DEFINE c == [z EXCEPT !.length = t.v, !.st = "size_end"]
<1>1. j \in Nat \ {0} /\ ChunkSize(z, t) \in {c, Fail(z, "HPE_INVALID_CHUNK_SIZE")}
  BY ResponseAssumption DEF ChunkSize
<1>2. /\ IsParser(c) /\ ~c.failed /\ c.find = z.find /\ c.state = z.state /\ c.err = z.err
      /\ c.span = z.span /\ c.cur = z.cur /\ c.hdr = z.hdr /\ c.field = z.field /\ c.value = z.value
      /\ c.body = z.body /\ c.bodyLen = z.bodyLen /\ c.st = "size_end"
  BY DEF IsParser, Fields, Idle
<1> HIDE DEF c
<1>3. Sound(c, j + 1)
  BY <1>1, <1>2, BetweenSound DEF Between, States, InValue, InBody, Named
<1>4. Sound(Fail(z, "HPE_INVALID_CHUNK_SIZE"), j + 1)
  BY FailSound DEF Idle
<1> QED
  BY <1>1, <1>3, <1>4

LEMMA SizeEndSound ==
  ASSUME NEW j \in 1 .. RespSize, NEW z, Idle(z, j), NEW t
  PROVE  Sound(SizeEnd(z, t), j + 1)
<1>1. SizeEnd(z, t) \in {ChunkHeader(z), Goto(z, "parameters"), Fail(z, "HPE_INVALID_CHUNK_SIZE")}
  BY DEF SizeEnd
<1>2. Sound(Goto(z, "parameters"), j + 1)
  BY ResponseAssumption, GotoSound DEF Between, States, InValue, InBody, Named
<1>3. Sound(Fail(z, "HPE_INVALID_CHUNK_SIZE"), j + 1)
  BY FailSound DEF Idle
<1> QED
  BY <1>1, <1>2, <1>3, ChunkHeaderSound

LEMMA ParametersSound ==
  ASSUME NEW j \in 1 .. RespSize, NEW z, Sound(z, j), Idle(z, j), NEW t
  PROVE  Sound(Parameters(z, t), j + 1)
BY ResponseAssumption, ChunkHeaderSound, SoundNext DEF Parameters

LEMMA ChunkEndSound ==
  ASSUME NEW j \in 1 .. RespSize, NEW z, Idle(z, j)
  PROVE  Sound(ChunkEnd(z), j + 1)
<1> DEFINE c == [z EXCEPT !.length = 0, !.st = "size"]
<1>1. j \in Nat \ {0} /\ ChunkEnd(z) = c
  BY ResponseAssumption DEF ChunkEnd
<1>2. /\ IsParser(c) /\ ~c.failed /\ c.find = z.find /\ c.state = z.state /\ c.err = z.err
      /\ c.span = z.span /\ c.cur = z.cur /\ c.hdr = z.hdr /\ c.field = z.field /\ c.value = z.value
      /\ c.body = z.body /\ c.bodyLen = z.bodyLen /\ c.st = "size"
  BY DEF IsParser, Fields, Idle
<1> HIDE DEF c
<1>3. Sound(c, j + 1)
  BY <1>1, <1>2, BetweenSound DEF Between, States, InValue, InBody, Named
<1> QED
  BY <1>1, <1>3

\* One token: the asserts of its callbacks hold.
LEMMA FeedSound ==
  ASSUME NEW j \in 1 .. RespSize, NEW z, Sound(z, j)
  PROVE  Sound(Feed(z, j), j + 1)
<1> DEFINE t == z.buf[j]
<1>1. j \in Nat \ {0} /\ j + 1 \in Nat \ {0}
  BY ResponseAssumption
<1>2. CASE z.st = "error"
  BY <1>1, <1>2, SoundNext DEF Feed
<1>3. ASSUME z.st # "error", z.st \notin {"status", "field"} \cup InValue \cup InBody PROVE Idle(z, j)
  <2>1. z.span = "none"
    BY <1>3 DEF Sound, Live
  <2> QED
    BY <1>3, <2>1, SoundIdle
<1>4. z.st # "error" /\ z.st \in Named => z.field.at # 0
  BY DEF Sound, Live
<1>5. CASE z.st \in {"start", "code", "status_start", "status", "field_start", "field"}
  <2>1. CASE z.st = "start"
    BY <1>3, <2>1, StartSound DEF Feed, InValue, InBody
  <2>2. CASE z.st = "code"
    BY <1>3, <2>2, StatusCodeSound DEF Feed, InValue, InBody
  <2>3. CASE z.st \in {"status_start", "status"}
    BY <2>3, StatusTextSound DEF Feed
  <2>4. CASE z.st = "field_start"
    BY <1>3, <2>4, FieldStartSound DEF Feed, InValue, InBody
  <2>5. CASE z.st = "field"
    BY <2>5, FieldNameSound DEF Feed
  <2> QED
    BY <1>5, <2>1, <2>2, <2>3, <2>4, <2>5
<1>6. CASE z.st \in Named
  <2>1. CASE z.st = "discard_ws"
    BY <1>3, <1>4, <2>1, DiscardWsSound DEF Feed, InValue, InBody, Named
  <2>2. CASE z.st = "discard_lws"
    BY <1>3, <1>4, <2>2, DiscardLwsSound DEF Feed, InValue, InBody, Named
  <2>3. CASE z.st \in InValue
    BY <2>3, ValueTextSound DEF Feed, InValue
  <2>4. CASE z.st = "lws"
    BY <1>3, <1>4, <2>4, LwsSound DEF Feed, InValue, InBody, Named
  <2> QED
    BY <1>6, <2>1, <2>2, <2>3, <2>4 DEF Named
<1>7. CASE z.st \in InBody
  <2>1. CASE z.st = "identity"
    BY <2>1, IdentitySound DEF Feed
  <2>2. CASE z.st = "eof"
    BY <2>2, UntilEofSound DEF Feed
  <2>3. CASE z.st = "chunk"
    <3> DEFINE c == Consume(z, j, "chunk_end")
    <3>1. Feed(z, j) = c
      BY <2>3 DEF Feed
    <3>2. \/ Sound(c, j + 1) /\ c.st = "chunk"
          \/ Idle(c, j + 1) /\ c.st = "chunk_end"
      BY <2>3, ConsumeSound DEF InBody
    <3> HIDE DEF c
    <3>3. ASSUME Idle(c, j + 1), c.st = "chunk_end" PROVE Sound(c, j + 1)
      BY <1>1, <3>3, IdleSound DEF Between, States, InValue, InBody, Named
    <3> QED
      BY <3>1, <3>2, <3>3
  <2> QED
    BY <1>7, <2>1, <2>2, <2>3 DEF InBody
<1>8. CASE z.st \in {"size", "size_end", "parameters", "chunk_end", "closed"}
  <2>1. CASE z.st = "size"
    BY <1>3, <2>1, ChunkSizeSound DEF Feed, InValue, InBody
  <2>2. CASE z.st = "size_end"
    BY <1>3, <2>2, SizeEndSound DEF Feed, InValue, InBody
  <2>3. CASE z.st = "parameters"
    BY <1>3, <2>3, ParametersSound DEF Feed, InValue, InBody
  <2>4. CASE z.st = "chunk_end"
    BY <1>3, <2>4, ChunkEndSound DEF Feed, InValue, InBody
  <2>5. CASE z.st = "closed"
    BY <1>1, <2>5, SoundNext DEF Feed
  <2> QED
    BY <1>8, <2>1, <2>2, <2>3, <2>4, <2>5
<1>9. z.st \in States \cup {"error"}
  BY DEF Sound, Live
<1> QED
  BY <1>2, <1>5, <1>6, <1>7, <1>8, <1>9 DEF States

\* The end of a call of parseHttpResponse: the open span is reported, and the
\* next receive goes on behind it.
Rest(z, j) == [Flush(z, j) EXCEPT !.cur = j]

LEMMA RestSound ==
  ASSUME NEW j \in Nat \ {0}, NEW z, Sound(z, j)
  PROVE  LET f == Rest(z, j) IN
         /\ IsParser(f) /\ ~f.failed /\ f.cur = j /\ f.state = z.state
         /\ f.err = z.err /\ f.begun = z.begun
         /\ j <= RespSize => Sound(f, j)
         /\ z.err = "HPE_OK" => Before([at |-> f.body, len |-> f.bodyLen], j)
<1> DEFINE f == Rest(z, j)
<1>1. IsParser(z) /\ ~z.failed
  BY DEF Sound
<1>2. CASE z.err # "HPE_OK"
  <2>1. Flush(z, j) = z
    BY <1>2 DEF Flush
  <2>2. /\ IsParser(f) /\ ~f.failed /\ f.cur = j /\ f.state = z.state /\ f.err = z.err
        /\ f.begun = z.begun /\ f.st = z.st /\ f.find = z.find
    BY <1>1, <2>1 DEF Rest, IsParser, Fields
  <2> HIDE DEF f
  <2>3. Sound(f, j)
    BY <1>2, <2>2 DEF Sound
  <2> QED
    BY <1>2, <2>2, <2>3 DEF f
<1>3. CASE z.err = "HPE_OK" /\ z.span = "none"
  <2>1. Flush(z, j) = z /\ z.st # "error"
    BY <1>3 DEF Flush, Sound
  <2>2. /\ IsParser(f) /\ ~f.failed /\ f.cur = j /\ f.state = z.state /\ f.err = z.err
        /\ f.begun = z.begun /\ f.st = z.st /\ f.find = z.find /\ f.span = z.span /\ f.hdr = z.hdr
        /\ f.field = z.field /\ f.value = z.value /\ f.body = z.body /\ f.bodyLen = z.bodyLen
    BY <1>1, <2>1 DEF Rest, IsParser, Fields
  <2> HIDE DEF f
  <2>3. Idle(z, j) /\ Live(z, j)
    BY <1>3, <2>1, SoundIdle DEF Sound
  <2>4. f.cur \in 1 .. j /\ f.hdr \in 0 .. f.cur - 1
    BY <2>2, <2>3 DEF Idle
  <2>5. Live(f, j)
    BY <1>3, <2>2, <2>3, <2>4 DEF Live
  <2>6. Sound(f, j)
    BY <2>2, <2>5 DEF Sound
  <2>7. Before([at |-> f.body, len |-> f.bodyLen], j)
    BY <1>3, <2>2, <2>3 DEF Live
  <2> QED
    BY <2>2, <2>6, <2>7 DEF f
<1>4. CASE z.err = "HPE_OK" /\ z.span # "none"
  <2> DEFINE w == Report(z, j)
  <2>1. z.st # "error"
    BY <1>4 DEF Sound
  <2>2. Flush(z, j) = [w EXCEPT !.from = j]
    BY <1>4 DEF Flush
  <2>3. /\ IsParser(w) /\ SameRun(z, w) /\ ~w.failed
        /\ w.cur = j /\ w.hdr \in 0 .. j - 1 /\ (z.span = "field" => w.hdr # 0)
        /\ Before(w.field, j) /\ Before(w.value, j)
        /\ Before([at |-> w.body, len |-> w.bodyLen], j)
        /\ z.span \in {"field", "value"} => w.field.at # 0
        /\ w.value.at # 0 => w.field.at # 0
        /\ z.span = "body" => w.field = z.field
    BY <1>4, <2>1, SpanReported
  <2> HIDE DEF w
  <2>4. /\ IsParser(f) /\ ~f.failed /\ f.cur = j /\ f.state = w.state /\ f.err = w.err
        /\ f.begun = w.begun /\ f.st = w.st /\ f.find = w.find /\ f.span = w.span /\ f.hdr = w.hdr
        /\ f.field = w.field /\ f.value = w.value /\ f.body = w.body /\ f.bodyLen = w.bodyLen
        /\ f.from = j
    BY <2>2, <2>3 DEF Rest, IsParser, Fields
  <2> HIDE DEF f
  <2>5. ASSUME j <= RespSize PROVE Sound(f, j)
    <3>1. Live(z, j)
      BY <2>1 DEF Sound
    <3>2. f.span = z.span /\ f.st = z.st
      BY <2>3, <2>4 DEF SameRun
    <3>3. f.st \in Named => f.field.at # 0
      BY <1>4, <2>3, <2>4, <3>1, <3>2 DEF Live, Named, InValue, InBody
    <3>4. f.cur \in 1 .. j /\ f.hdr \in 0 .. f.cur - 1 /\ f.from \in 1 .. j
      BY <2>3, <2>4
    <3>5. Live(f, j)
      BY <1>4, <2>3, <2>4, <2>5, <3>1, <3>2, <3>3, <3>4 DEF Live
    <3> QED
      BY <2>1, <2>3, <2>4, <3>2, <3>5 DEF Sound, SameRun
  <2> QED
    BY <2>3, <2>4, <2>5 DEF SameRun, f
<1> QED
  BY <1>2, <1>3, <1>4

-----------------------------------------------------------------------------
(* A parse: one token after the other.                                     *)

\* f[i] is the parser p after i tokens, the first one at c.
IsRun(f, p, c, n) == f = [i \in 0 .. n |-> IF i = 0 THEN p ELSE Feed(f[i - 1], c + i - 1)]

Fed(p, c, n) == (CHOOSE f : IsRun(f, p, c, n))[n]

LEMMA RunExists ==
  ASSUME NEW p, NEW c, NEW n \in Nat
  PROVE  \E f : IsRun(f, p, c, n)
<1> DEFINE S == {m \in Nat : \E f : IsRun(f, p, c, m)}
<1>1. 0 \in S
  <2> DEFINE f == [i \in 0 .. 0 |-> p]
  <2>1. IsRun(f, p, c, 0)
    BY DEF IsRun
  <2> QED
    BY <2>1
<1>2. ASSUME NEW m \in Nat, m \in S PROVE m + 1 \in S
  <2>1. PICK f : IsRun(f, p, c, m)
    BY <1>2
  <2> DEFINE g == [i \in 0 .. m + 1 |-> IF i = m + 1 THEN Feed(f[m], c + (m + 1) - 1) ELSE f[i]]
             h == [i \in 0 .. m + 1 |-> IF i = 0 THEN p ELSE Feed(g[i - 1], c + i - 1)]
  <2>2. \A i \in 0 .. m : g[i] = f[i]
    OBVIOUS
  <2>3. g[m + 1] = Feed(f[m], c + (m + 1) - 1)
    OBVIOUS
  <2>4. \A i \in 0 .. m : f[i] = IF i = 0 THEN p ELSE Feed(f[i - 1], c + i - 1)
    BY <2>1 DEF IsRun
  <2>5. ASSUME NEW i \in 0 .. m + 1 PROVE g[i] = IF i = 0 THEN p ELSE Feed(g[i - 1], c + i - 1)
    <3>1. CASE i = m + 1
      <4>1. i - 1 = m /\ i # 0 /\ m \in 0 .. m
        BY <3>1
      <4>2. g[m] = f[m]
        BY <2>2, <4>1
      <4> HIDE DEF g
      <4> QED
        BY <2>3, <3>1, <4>1, <4>2
    <3>2. CASE i \in 1 .. m
      <4>1. g[i] = f[i] /\ g[i - 1] = f[i - 1] /\ i # 0
        BY <2>2, <3>2
      <4> HIDE DEF g
      <4> QED
        BY <2>4, <3>2, <4>1
    <3>3. CASE i = 0
      BY <2>2, <2>4, <3>3
    <3> QED
      BY <3>1, <3>2, <3>3
  <2>6. g = [i \in 0 .. m + 1 |-> g[i]]
    OBVIOUS
  <2> HIDE DEF g
  <2>7. g = h
    BY <2>5, <2>6
  <2>8. IsRun(g, p, c, m + 1)
    BY <2>7 DEF IsRun
  <2> QED
    BY <2>8
<1> HIDE DEF S
<1>3. n \in S
  BY <1>1, <1>2, Induction
<1> QED
  BY <1>3 DEF S

LEMMA RunUnique ==
  ASSUME NEW p, NEW c, NEW m \in Nat, NEW n \in Nat, m <= n, NEW f, NEW g,
         IsRun(f, p, c, m), IsRun(g, p, c, n)
  PROVE  f[m] = g[m]
<1> DEFINE S == {i \in Nat : i <= m => f[i] = g[i]}
<1>1. \A i \in 0 .. m : f[i] = IF i = 0 THEN p ELSE Feed(f[i - 1], c + i - 1)
  BY DEF IsRun
<1>2. \A i \in 0 .. n : g[i] = IF i = 0 THEN p ELSE Feed(g[i - 1], c + i - 1)
  BY DEF IsRun
<1>3. 0 \in S
  BY <1>1, <1>2
<1>4. ASSUME NEW i \in Nat, i \in S PROVE i + 1 \in S
  <2> SUFFICES ASSUME i + 1 <= m PROVE f[i + 1] = g[i + 1]
    OBVIOUS
  <2>1. /\ i + 1 \in 0 .. m /\ i + 1 \in 0 .. n /\ i + 1 # 0 /\ (i + 1) - 1 = i
        /\ f[i] = g[i]
    BY <1>4
  <2>2. f[i + 1] = Feed(f[i + 1 - 1], c + (i + 1) - 1) /\ g[i + 1] = Feed(g[i + 1 - 1], c + (i + 1) - 1)
    BY <1>1, <1>2, <2>1
  <2> QED
    BY <2>1, <2>2
<1> HIDE DEF S
<1>5. m \in S
  BY <1>3, <1>4, Induction
<1> QED
  BY <1>5 DEF S

LEMMA FedIs ==
  ASSUME NEW p, NEW c \in Nat
  PROVE  /\ Fed(p, c, 0) = p
         /\ \A n \in Nat : Fed(p, c, n + 1) = Feed(Fed(p, c, n), c + n)
<1> DEFINE f(n) == CHOOSE g : IsRun(g, p, c, n)
<1>1. ASSUME NEW n \in Nat PROVE IsRun(f(n), p, c, n)
  BY RunExists
<1>2. ASSUME NEW n \in Nat PROVE Fed(p, c, n) = f(n)[n]
  BY DEF Fed
<1> HIDE DEF f
<1>3. Fed(p, c, 0) = p
  <2>1. IsRun(f(0), p, c, 0)
    BY <1>1
  <2> QED
    BY <1>2, <2>1 DEF IsRun
<1>4. ASSUME NEW n \in Nat PROVE Fed(p, c, n + 1) = Feed(Fed(p, c, n), c + n)
  <2>1. IsRun(f(n), p, c, n) /\ IsRun(f(n + 1), p, c, n + 1)
    BY <1>1
  <2>2. f(n)[n] = f(n + 1)[n]
    BY <2>1, RunUnique
  <2> DEFINE g == f(n + 1)
  <2>3. g = [i \in 0 .. n + 1 |-> IF i = 0 THEN p ELSE Feed(g[i - 1], c + i - 1)]
    BY <2>1 DEF IsRun
  <2> HIDE DEF g
  <2>4. g[n + 1] = Feed(g[n], c + n)
    <3>1. n + 1 \in 0 .. n + 1 /\ n + 1 # 0 /\ n + 1 - 1 = n /\ c + (n + 1) - 1 = c + n
      OBVIOUS
    <3>2. g[n + 1] = Feed(g[n + 1 - 1], c + (n + 1) - 1)
      BY <2>3, <3>1
    <3> QED
      BY <3>1, <3>2
  <2> QED
    BY <1>2, <2>2, <2>4 DEF g
<1> QED
  BY <1>3, <1>4

\* Whatever is fed.
LEMMA FedSound ==
  ASSUME NEW c \in Nat \ {0}, NEW p, Sound(p, c), NEW n \in Nat, c + n <= RespSize + 1
  PROVE  Sound(Fed(p, c, n), c + n)
<1> DEFINE S == {i \in Nat : c + i <= RespSize + 1 => Sound(Fed(p, c, i), c + i)}
<1>1. 0 \in S
  BY FedIs
<1>2. ASSUME NEW i \in Nat, i \in S PROVE i + 1 \in S
  <2> SUFFICES ASSUME c + (i + 1) <= RespSize + 1 PROVE Sound(Fed(p, c, i + 1), c + (i + 1))
    OBVIOUS
  <2>1. c + i \in 1 .. RespSize /\ Sound(Fed(p, c, i), c + i)
    BY <1>2, ResponseAssumption
  <2>2. Sound(Feed(Fed(p, c, i), c + i), c + i + 1)
    BY <2>1, FeedSound
  <2>3. Fed(p, c, i + 1) = Feed(Fed(p, c, i), c + i)
    BY FedIs
  <2>4. c + i + 1 = c + (i + 1)
    OBVIOUS
  <2> QED
    BY <2>2, <2>3, <2>4
<1> HIDE DEF S
<1>3. n \in S
  BY <1>1, <1>2, Induction
<1> QED
  BY <1>3 DEF S

-----------------------------------------------------------------------------
(* Two parsers that differ in nothing but the count of the header bytes,   *)
(* in the place of the callback before and in what lies behind m in their  *)
(* buffers, u and v, do the same.                                          *)

Same(z, t, m, u, v) ==
  /\ IsParser(z) /\ IsParser(t)
  /\ SameRun(z, t) /\ t.from = z.from
  /\ t.field = z.field /\ t.value = z.value /\ t.statusCode = z.statusCode /\ t.hdr = z.hdr
  /\ t.count = z.count /\ t.body = z.body /\ t.bodyLen = z.bodyLen /\ t.seen = z.seen
  /\ \A i \in 1 .. m - 1 : t.buf[i] = z.buf[i]
  /\ \A i \in m .. RespSize : z.buf[i] = u[i] /\ t.buf[i] = v[i]

LEMMA SameNext ==
  ASSUME NEW m \in 1 .. RespSize, NEW z, NEW t, NEW u, NEW v, Same(z, t, m, u, v), u[m] = v[m]
  PROVE  Same(z, t, m + 1, u, v) /\ t.buf[m] = z.buf[m]
<1>1. t.buf[m] = z.buf[m] /\ m \in Nat
  BY ResponseAssumption DEF Same
<1>2. \A i \in 1 .. m + 1 - 1 : t.buf[i] = z.buf[i]
  BY <1>1 DEF Same
<1>3. \A i \in m + 1 .. RespSize : z.buf[i] = u[i] /\ t.buf[i] = v[i]
  BY <1>1 DEF Same
<1> QED
  BY <1>1, <1>2, <1>3 DEF Same

LEMMA SameGoto ==
  ASSUME NEW m, NEW z, NEW t, NEW u, NEW v, Same(z, t, m, u, v), NEW st
  PROVE  Same(Goto(z, st), Goto(t, st), m, u, v)
BY DEF Same, SameRun, Goto, IsParser, Fields

LEMMA SameOpen ==
  ASSUME NEW m, NEW z, NEW t, NEW u, NEW v, Same(z, t, m, u, v), NEW span, NEW j
  PROVE  Same(Open(z, span, j), Open(t, span, j), m, u, v)
BY DEF Same, SameRun, Open, IsParser, Fields

LEMMA SameFail ==
  ASSUME NEW m, NEW z, NEW t, NEW u, NEW v, Same(z, t, m, u, v), NEW err
  PROVE  Same(Fail(z, err), Fail(t, err), m, u, v)
BY DEF Same, SameRun, Fail, IsParser, Fields

\* What llhttp keeps for itself is set.
LEMMA SameSet ==
  ASSUME NEW m, NEW z, NEW t, NEW u, NEW v, Same(z, t, m, u, v), NEW st, NEW flags, NEW length,
         NEW header, NEW code, NEW version, NEW upgrade
  PROVE  /\ Same([z EXCEPT !.st = st], [t EXCEPT !.st = st], m, u, v)
         /\ Same([z EXCEPT !.flags = flags], [t EXCEPT !.flags = flags], m, u, v)
         /\ Same([z EXCEPT !.length = length], [t EXCEPT !.length = length], m, u, v)
         /\ Same([z EXCEPT !.header = header], [t EXCEPT !.header = header], m, u, v)
         /\ Same([z EXCEPT !.upgrade = upgrade], [t EXCEPT !.upgrade = upgrade], m, u, v)
         /\ Same([z EXCEPT !.st = st, !.flags = flags], [t EXCEPT !.st = st, !.flags = flags], m, u, v)
         /\ Same([z EXCEPT !.flags = flags, !.st = st], [t EXCEPT !.flags = flags, !.st = st], m, u, v)
         /\ Same([z EXCEPT !.st = st, !.length = length], [t EXCEPT !.st = st, !.length = length], m, u, v)
         /\ Same([z EXCEPT !.length = length, !.st = st], [t EXCEPT !.length = length, !.st = st], m, u, v)
         /\ Same([z EXCEPT !.code = code, !.st = st], [t EXCEPT !.code = code, !.st = st], m, u, v)
         /\ Same([z EXCEPT !.version = version, !.st = st], [t EXCEPT !.version = version, !.st = st],
                 m, u, v)
         /\ Same([z EXCEPT !.flags = flags, !.header = header],
                 [t EXCEPT !.flags = flags, !.header = header], m, u, v)
<1> USE DEF Same, SameRun, IsParser, Fields
<1>1. Same([z EXCEPT !.st = st], [t EXCEPT !.st = st], m, u, v)
  OBVIOUS
<1>2. Same([z EXCEPT !.flags = flags], [t EXCEPT !.flags = flags], m, u, v)
  OBVIOUS
<1>3. Same([z EXCEPT !.length = length], [t EXCEPT !.length = length], m, u, v)
  OBVIOUS
<1>4. Same([z EXCEPT !.header = header], [t EXCEPT !.header = header], m, u, v)
  OBVIOUS
<1>5. Same([z EXCEPT !.upgrade = upgrade], [t EXCEPT !.upgrade = upgrade], m, u, v)
  OBVIOUS
<1>6. Same([z EXCEPT !.st = st, !.flags = flags], [t EXCEPT !.st = st, !.flags = flags], m, u, v)
  OBVIOUS
<1>7. Same([z EXCEPT !.flags = flags, !.st = st], [t EXCEPT !.flags = flags, !.st = st], m, u, v)
  OBVIOUS
<1>8. Same([z EXCEPT !.st = st, !.length = length], [t EXCEPT !.st = st, !.length = length], m, u, v)
  OBVIOUS
<1>9. Same([z EXCEPT !.length = length, !.st = st], [t EXCEPT !.length = length, !.st = st], m, u, v)
  OBVIOUS
<1>10. Same([z EXCEPT !.code = code, !.st = st], [t EXCEPT !.code = code, !.st = st], m, u, v)
  OBVIOUS
<1>11. Same([z EXCEPT !.version = version, !.st = st], [t EXCEPT !.version = version, !.st = st], m, u, v)
  OBVIOUS
<1>12. Same([z EXCEPT !.flags = flags, !.header = header],
            [t EXCEPT !.flags = flags, !.header = header], m, u, v)
  OBVIOUS
<1> QED
  BY <1>1, <1>2, <1>3, <1>4, <1>5, <1>6, <1>7, <1>8, <1>9, <1>10, <1>11, <1>12, Zenon

\* The texts in front of m are the same.
LEMMA SameText ==
  ASSUME NEW m \in 1 .. RespSize + 1, NEW z, NEW t, NEW u, NEW v, Same(z, t, m, u, v), NEW x,
         Before(x, m), x.at # 0
  PROVE  Text(z, x) = Text(t, x)
<1> DEFINE S == {z.buf[i] : i \in 1 .. RespSize} \cup {t.buf[i] : i \in 1 .. RespSize}
           a == z.buf
           b == t.buf
           i == x.at
           j == x.at + x.len - 1
<1>1. a = [k \in 1 .. RespSize |-> a[k]] /\ b = [k \in 1 .. RespSize |-> b[k]]
  BY DEF Same, IsParser
<1>2. a \in [1 .. RespSize -> S] /\ b \in [1 .. RespSize -> S]
  BY <1>1
<1> HIDE DEF S
<1>3. /\ x.at \in Nat \ {0} /\ x.len \in Nat /\ x.at + x.len <= m
      /\ m \in Nat /\ m <= RespSize + 1 /\ RespSize \in Nat
  BY ResponseAssumption DEF Before
<1>4. i \in 1 .. RespSize + 1 /\ j \in 0 .. RespSize /\ i <= j + 1 /\ \A k \in i .. j : k \in 1 .. m - 1
  BY <1>3
<1>5. \A k \in i .. j : a[k] = b[k]
  BY <1>4 DEF Same
<1>6. Text(z, x) = SubSeq(a, i, j) /\ Text(t, x) = SubSeq(b, i, j)
  BY DEF Text
<1> HIDE DEF a, b, i, j
<1>7. a \in Seq(S) /\ b \in Seq(S) /\ Len(a) = RespSize /\ Len(b) = RespSize
  BY <1>2, <1>3
<1>8. SubSeq(a, i, j) = SubSeq(b, i, j)
  BY <1>4, <1>5, <1>7, SameSubSeq
<1> QED
  BY <1>6, <1>8

\* The callbacks do the same,
LEMMA SameProcessed ==
  ASSUME NEW m \in 1 .. RespSize + 1, NEW z, NEW t, NEW u, NEW v, Same(z, t, m, u, v),
         Before(z.field, m), Before(z.value, m)
  PROVE  Same(ProcessCompleteHeader(z), ProcessCompleteHeader(t), m, u, v)
<1>1. z.field.at # 0 => Text(z, z.field) = Text(t, z.field)
  BY SameText
<1>2. z.value.at # 0 => Text(z, z.value) = Text(t, z.value)
  BY SameText
<1>3. t.field = z.field /\ t.value = z.value
  BY DEF Same
<1>4. CASE z.field.at = 0 \/ z.value.at = 0
  BY <1>3, <1>4 DEF ProcessCompleteHeader
<1>5. CASE z.field.at # 0 /\ z.value.at # 0
  <2> DEFINE e == <<Text(z, z.field), Text(z, z.value)>>
  <2>1. /\ ProcessCompleteHeader(z) =
             [z EXCEPT !.count = @ + 1, !.seen = Append(@, e), !.field = NoText, !.value = NoText]
        /\ ProcessCompleteHeader(t) =
             [t EXCEPT !.count = @ + 1, !.seen = Append(@, e), !.field = NoText, !.value = NoText]
    BY <1>1, <1>2, <1>3, <1>5 DEF ProcessCompleteHeader
  <2> HIDE DEF e
  <2>2. Same([z EXCEPT !.count = @ + 1, !.seen = Append(@, e), !.field = NoText, !.value = NoText],
             [t EXCEPT !.count = @ + 1, !.seen = Append(@, e), !.field = NoText, !.value = NoText], m, u, v)
    BY DEF Same, SameRun, IsParser, Fields
  <2> QED
    BY <2>1, <2>2
<1> QED
  BY <1>4, <1>5

LEMMA SameStatus ==
  ASSUME NEW m, NEW z, NEW t, NEW u, NEW v, Same(z, t, m, u, v), NEW loc, NEW n
  PROVE  Same(OnStatus(z, loc, n), OnStatus(t, loc, n), m, u, v)
BY DEF Same, SameRun, OnStatus, IsParser, Fields

LEMMA SameValue ==
  ASSUME NEW m, NEW z, NEW t, NEW u, NEW v, Same(z, t, m, u, v), NEW loc, NEW n
  PROVE  Same(OnHeaderValue(z, loc, n), OnHeaderValue(t, loc, n), m, u, v)
<1> DEFINE a == [z EXCEPT !.cur = loc + n, !.value = Extend(@, loc, n)]
           b == [t EXCEPT !.cur = loc + n, !.value = Extend(@, loc, n)]
           ok == z.field.at # 0
           x == [a EXCEPT !.failed = @ \/ ~ok]
           y == [b EXCEPT !.failed = @ \/ ~ok]
<1>1. Same(a, b, m, u, v)
  BY DEF Same, SameRun, IsParser, Fields
<1>2. OnHeaderValue(z, loc, n) = x /\ OnHeaderValue(t, loc, n) = y
  BY DEF OnHeaderValue, Asserted, Same
<1> HIDE DEF a, b, ok
<1>3. Same(x, y, m, u, v)
  BY <1>1 DEF Same, SameRun, IsParser, Fields
<1> QED
  BY <1>2, <1>3

LEMMA SameField ==
  ASSUME NEW m \in 1 .. RespSize + 1, NEW z, NEW t, NEW u, NEW v, Same(z, t, m, u, v),
         Before(z.field, m), Before(z.value, m), NEW loc, NEW n
  PROVE  Same(OnHeaderField(z, loc, n), OnHeaderField(t, loc, n), m, u, v)
<1> DEFINE a == [z EXCEPT !.hdr = IF @ = 0 THEN loc ELSE @, !.cur = loc + n]
           b == [t EXCEPT !.hdr = IF @ = 0 THEN loc ELSE @, !.cur = loc + n]
           c == ProcessCompleteHeader(a)
           d == ProcessCompleteHeader(b)
           x == [c EXCEPT !.field = Extend(@, loc, n)]
           y == [d EXCEPT !.field = Extend(@, loc, n)]
<1>1. Same(a, b, m, u, v) /\ a.field = z.field /\ a.value = z.value
  BY DEF Same, SameRun, IsParser, Fields
<1>2. OnHeaderField(z, loc, n) = x /\ OnHeaderField(t, loc, n) = y
  BY DEF OnHeaderField
<1> HIDE DEF a, b
<1>3. Same(c, d, m, u, v)
  BY <1>1, SameProcessed
<1> HIDE DEF c, d
<1>4. Same(x, y, m, u, v)
  BY <1>3 DEF Same, SameRun, IsParser, Fields
<1> QED
  BY <1>2, <1>4

IsBuffer(b) == b = [i \in 1 .. RespSize |-> b[i]]

\* A part of the body is moved to a place in front of it.
LEMMA MovedIs ==
  ASSUME NEW b, IsBuffer(b), NEW to, NEW loc, NEW n
  PROVE  LET d == Moved(b, to, loc, n) IN
         /\ IsBuffer(d)
         /\ \A i \in 1 .. RespSize : d[i] = IF i - to \in 0 .. n - 1 THEN b[loc + i - to] ELSE b[i]
BY DEF Moved, IsBuffer

LEMMA SameMoved ==
  ASSUME NEW m \in 1 .. RespSize + 1, NEW z, NEW t, NEW u, NEW v, Same(z, t, m, u, v),
         NEW loc \in Nat \ {0}, NEW n \in Nat, loc + n <= m, NEW to \in Nat, to < loc
  PROVE  LET a == Moved(z.buf, to, loc, n)
             b == Moved(t.buf, to, loc, n)
         IN  /\ IsBuffer(a) /\ IsBuffer(b)
             /\ \A i \in 1 .. m - 1 : b[i] = a[i]
             /\ \A i \in m .. RespSize : a[i] = u[i] /\ b[i] = v[i]
<1> DEFINE a == Moved(z.buf, to, loc, n)
           b == Moved(t.buf, to, loc, n)
<1>1. /\ IsBuffer(a) /\ IsBuffer(b)
      /\ \A i \in 1 .. RespSize : a[i] = IF i - to \in 0 .. n - 1 THEN z.buf[loc + i - to] ELSE z.buf[i]
      /\ \A i \in 1 .. RespSize : b[i] = IF i - to \in 0 .. n - 1 THEN t.buf[loc + i - to] ELSE t.buf[i]
  <2>1. IsBuffer(z.buf) /\ IsBuffer(t.buf)
    BY DEF Same, IsParser, IsBuffer
  <2> QED
    BY <2>1, MovedIs
<1> HIDE DEF a, b
<1>2. m \in Nat /\ m - 1 <= RespSize /\ RespSize \in Nat
  BY ResponseAssumption
<1>3. /\ \A i \in 1 .. m - 1 : t.buf[i] = z.buf[i]
      /\ \A i \in m .. RespSize : z.buf[i] = u[i] /\ t.buf[i] = v[i]
  BY DEF Same
<1>4. ASSUME NEW i \in 1 .. m - 1 PROVE b[i] = a[i]
  <2>1. i \in 1 .. RespSize /\ t.buf[i] = z.buf[i]
    BY <1>2, <1>3
  <2>2. CASE i - to \in 0 .. n - 1
    <3>1. loc + i - to \in 1 .. m - 1
      BY <1>2, <2>2
    <3> QED
      BY <1>1, <1>3, <2>1, <2>2, <3>1
  <2>3. CASE i - to \notin 0 .. n - 1
    BY <1>1, <2>1, <2>3
  <2> QED
    BY <2>2, <2>3
<1>5. ASSUME NEW i \in m .. RespSize PROVE a[i] = u[i] /\ b[i] = v[i]
  <2>1. i \in 1 .. RespSize /\ i - to \notin 0 .. n - 1
    BY <1>2
  <2> QED
    BY <1>1, <1>3, <2>1
<1> QED
  BY <1>1, <1>4, <1>5 DEF a, b

LEMMA SameBody ==
  ASSUME NEW m \in 1 .. RespSize + 1, NEW z, NEW t, NEW u, NEW v, Same(z, t, m, u, v),
         NEW loc \in Nat \ {0}, NEW n \in Nat, loc + n <= m,
         Before([at |-> z.body, len |-> z.bodyLen], loc)
  PROVE  Same(OnBody(z, loc, n), OnBody(t, loc, n), m, u, v)
<1> DEFINE body == IF z.body = 0 THEN loc ELSE z.body
           next == IF z.body = 0 THEN loc ELSE z.body + z.bodyLen
           len  == IF z.body = 0 THEN n ELSE z.bodyLen + n
           ok   == loc \in 1 .. RespSize
           f    == IF loc > next THEN Moved(z.buf, next, loc, n) ELSE z.buf
           g    == IF loc > next THEN Moved(t.buf, next, loc, n) ELSE t.buf
           a    == [z EXCEPT !.body = body, !.buf = f, !.bodyLen = len, !.cur = loc + n]
           b    == [t EXCEPT !.body = body, !.buf = g, !.bodyLen = len, !.cur = loc + n]
           x    == [a EXCEPT !.failed = @ \/ ~ok]
           y    == [b EXCEPT !.failed = @ \/ ~ok]
<1>1. next \in Nat
  BY DEF Before
<1>2. t.body = z.body /\ t.bodyLen = z.bodyLen
  BY DEF Same
<1>3. OnBody(z, loc, n) = x
  BY DEF OnBody, Asserted
<1>4. OnBody(t, loc, n) = y
  BY <1>2 DEF OnBody, Asserted
<1> HIDE DEF body, next, len, ok
<1>5. /\ IsBuffer(f) /\ IsBuffer(g)
      /\ \A i \in 1 .. m - 1 : g[i] = f[i]
      /\ \A i \in m .. RespSize : f[i] = u[i] /\ g[i] = v[i]
  <2>1. CASE loc > next
    <3>1. f = Moved(z.buf, next, loc, n) /\ g = Moved(t.buf, next, loc, n)
      BY <2>1
    <3> QED
      BY <1>1, <2>1, <3>1, SameMoved
  <2>2. CASE ~(loc > next)
    <3>1. f = z.buf /\ g = t.buf
      BY <2>2
    <3> QED
      BY <3>1 DEF Same, IsParser, IsBuffer
  <2> QED
    BY <2>1, <2>2
<1> HIDE DEF f, g
<1>6. Same(a, b, m, u, v)
  BY <1>5 DEF Same, SameRun, IsParser, Fields, IsBuffer
<1> HIDE DEF a, b
<1>7. Same(x, y, m, u, v)
  BY <1>6 DEF Same, SameRun, IsParser, Fields
<1> QED
  BY <1>3, <1>4, <1>7

\* The texts of a parser whose span may be reported at j.
Reportable(z, j) ==
  /\ z.find = NoSearch
  /\ Before(z.field, j) /\ Before(z.value, j)
  /\ z.span = "body" => z.from \in 1 .. j /\ Before([at |-> z.body, len |-> z.bodyLen], z.from)

LEMMA SoundReportable ==
  ASSUME NEW j \in Nat \ {0}, NEW z, Sound(z, j), z.st # "error", z.span # "none"
  PROVE  Reportable(z, j)
<1>1. /\ z.find = NoSearch /\ z.from \in 1 .. j
      /\ Before(z.field, z.from) /\ Before(z.value, z.from)
      /\ Before([at |-> z.body, len |-> z.bodyLen], z.from)
  BY DEF Sound, Live
<1>2. Before(z.field, j) /\ Before(z.value, j)
  BY <1>1, Later
<1> QED
  BY <1>1, <1>2 DEF Reportable

LEMMA SameReport ==
  ASSUME NEW m \in 1 .. RespSize + 1, NEW z, NEW t, NEW u, NEW v, Same(z, t, m, u, v),
         NEW j \in 1 .. m, Reportable(z, j)
  PROVE  Same(Report(z, j), Report(t, j), m, u, v)
<1> DEFINE loc == z.from
           n   == j - z.from
<1>1. ~Searching(z) /\ ~Searching(t) /\ t.span = z.span /\ t.from = z.from
  BY NotSearching DEF Reportable, Same, SameRun
<1>2. m \in Nat /\ j \in Nat /\ j <= m
  BY ResponseAssumption
<1>3. Before(z.field, m) /\ Before(z.value, m)
  BY <1>2, Later DEF Reportable
<1>4. CASE z.span = "status"
  <2>1. Report(z, j) = OnStatus(z, loc, n) /\ Report(t, j) = OnStatus(t, loc, n)
    BY <1>1, <1>4 DEF Report
  <2> QED
    BY <2>1, SameStatus
<1>5. CASE z.span = "field"
  <2>1. Report(z, j) = OnHeaderField(z, loc, n) /\ Report(t, j) = OnHeaderField(t, loc, n)
    BY <1>1, <1>5 DEF Report
  <2> QED
    BY <1>3, <2>1, SameField
<1>6. CASE z.span = "value"
  <2>1. Report(z, j) = OnHeaderValue(z, loc, n) /\ Report(t, j) = OnHeaderValue(t, loc, n)
    BY <1>1, <1>6 DEF Report
  <2> QED
    BY <2>1, SameValue
<1>7. CASE z.span = "body"
  <2>1. Report(z, j) = OnBody(z, loc, n) /\ Report(t, j) = OnBody(t, loc, n)
    BY <1>1, <1>7 DEF Report
  <2>2. /\ loc \in Nat \ {0} /\ n \in Nat /\ loc + n <= m
        /\ Before([at |-> z.body, len |-> z.bodyLen], loc)
    BY <1>2, <1>7 DEF Reportable
  <2> HIDE DEF loc, n
  <2> QED
    BY <2>1, <2>2, SameBody
<1>8. CASE z.span \notin {"status", "field", "value", "body"}
  <2>1. Report(z, j) = z /\ Report(t, j) = t
    BY <1>1, <1>8 DEF Report
  <2> QED
    BY <2>1
<1> QED
  BY <1>4, <1>5, <1>6, <1>7, <1>8

LEMMA SameEndSpan ==
  ASSUME NEW m \in 1 .. RespSize + 1, NEW z, NEW t, NEW u, NEW v, Same(z, t, m, u, v),
         NEW j \in 1 .. m, Reportable(z, j), NEW st
  PROVE  Same(EndSpan(z, j, st), EndSpan(t, j, st), m, u, v)
<1> DEFINE a == Report(z, j)
           b == Report(t, j)
           next == IF a.err = "HPE_OK" THEN st ELSE "error"
<1>1. Same(a, b, m, u, v)
  BY SameReport
<1>2. /\ EndSpan(z, j, st) = [a EXCEPT !.span = "none", !.from = 0, !.st = next]
      /\ EndSpan(t, j, st) = [b EXCEPT !.span = "none", !.from = 0, !.st = next]
  BY <1>1 DEF EndSpan, Same, SameRun
<1> HIDE DEF a, b, next
<1>3. Same([a EXCEPT !.span = "none", !.from = 0, !.st = next],
           [b EXCEPT !.span = "none", !.from = 0, !.st = next], m, u, v)
  BY <1>1 DEF Same, SameRun, IsParser, Fields
<1> QED
  BY <1>2, <1>3

LEMMA SameRest ==
  ASSUME NEW m \in 1 .. RespSize + 1, NEW z, NEW t, NEW u, NEW v, Same(z, t, m, u, v),
         NEW j \in 1 .. m, z.err = "HPE_OK" /\ z.span # "none" => Reportable(z, j)
  PROVE  Same(Rest(z, j), Rest(t, j), m, u, v)
<1>1. ASSUME NEW a, NEW b, Same(a, b, m, u, v)
      PROVE  Same([a EXCEPT !.cur = j], [b EXCEPT !.cur = j], m, u, v)
  BY <1>1 DEF Same, SameRun, IsParser, Fields
<1>2. t.err = z.err /\ t.span = z.span
  BY DEF Same, SameRun
<1>3. CASE z.err # "HPE_OK" \/ z.span = "none"
  <2>1. Flush(z, j) = z /\ Flush(t, j) = t
    BY <1>2, <1>3 DEF Flush
  <2> QED
    BY <1>1, <2>1 DEF Rest
<1>4. CASE z.err = "HPE_OK" /\ z.span # "none"
  <2> DEFINE a == Report(z, j)
             b == Report(t, j)
  <2>1. Same(a, b, m, u, v)
    BY <1>4, SameReport
  <2>2. Flush(z, j) = [a EXCEPT !.from = j] /\ Flush(t, j) = [b EXCEPT !.from = j]
    BY <1>2, <1>4 DEF Flush
  <2> HIDE DEF a, b
  <2>3. Same([a EXCEPT !.from = j], [b EXCEPT !.from = j], m, u, v)
    BY <2>1 DEF Same, SameRun, IsParser, Fields
  <2>4. Same(Flush(z, j), Flush(t, j), m, u, v)
    BY <2>2, <2>3
  <2> QED
    BY <1>1, <2>4 DEF Rest
<1> QED
  BY <1>3, <1>4

\* and so do the steps of llhttp.
LEMMA SameComplete ==
  ASSUME NEW m, NEW z, NEW t, NEW u, NEW v, Same(z, t, m, u, v)
  PROVE  /\ Same(MessageComplete(z), MessageComplete(t), m, u, v)
         /\ Same(PauseUpgrade(z), PauseUpgrade(t), m, u, v)
         /\ Same(BodyComplete(z), BodyComplete(t), m, u, v)
<1> DEFINE a == MessageEnd(z)
           b == MessageEnd(t)
           next == IF ShouldKeepAlive(z) THEN "start" ELSE "closed"
<1>1. Same(a, b, m, u, v)
  <2>1. Same(OnMessageComplete(z), OnMessageComplete(t), m, u, v)
    BY DEF OnMessageComplete, Same, SameRun, IsParser, Fields
  <2>2. Searching(z) <=> Searching(t)
    BY DEF Searching, Same, SameRun
  <2> QED
    BY <2>1, <2>2 DEF MessageEnd
<1>2. ShouldKeepAlive(z) <=> ShouldKeepAlive(t)
  BY DEF ShouldKeepAlive, NeedsEof, Same, SameRun
<1>3. /\ MessageComplete(z) = [a EXCEPT !.st = next, !.flags = {}]
      /\ MessageComplete(t) = [b EXCEPT !.st = next, !.flags = {}]
  BY <1>2 DEF MessageComplete
<1>4. PauseUpgrade(z) = Fail(a, "HPE_PAUSED_UPGRADE") /\ PauseUpgrade(t) = Fail(b, "HPE_PAUSED_UPGRADE")
  BY DEF PauseUpgrade
<1>5. z.upgrade = t.upgrade
  BY DEF Same, SameRun
<1> HIDE DEF a, b, next
<1>6. Same(MessageComplete(z), MessageComplete(t), m, u, v)
  <2>1. Same([a EXCEPT !.st = next, !.flags = {}], [b EXCEPT !.st = next, !.flags = {}], m, u, v)
    BY <1>1 DEF Same, SameRun, IsParser, Fields
  <2> QED
    BY <1>3, <2>1
<1>7. Same(PauseUpgrade(z), PauseUpgrade(t), m, u, v)
  BY <1>1, <1>4, SameFail
<1> QED
  BY <1>5, <1>6, <1>7 DEF BodyComplete

\* What OnHeadersComplete sets, after its assertion.
Headed(z, x, h, length, flags, more) ==
  [[z EXCEPT !.failed = x] EXCEPT !.hdrLen = h, !.contentLength = length, !.respFlags = @ \cup flags,
                                  !.flags = more]

LEMMA HeadersCompleteIs ==
  ASSUME NEW z, IsParser(z), ~Searching(z)
  PROVE  HeadersComplete(z) =
           ProcessCompleteHeader(
             Headed(z, z.failed \/ ~(z.cur \in 1 .. RespSize /\ (z.hdr # 0 => z.hdr < z.cur)),
                    IF z.hdr = 0 THEN 0 ELSE z.cur - z.hdr,
                    IF z.length = MaxLength THEN 0 ELSE z.length % Sizes,
                    z.flags \cap {"close", "keep-alive"},
                    IF z.head THEN z.flags \cup {"skipbody"} ELSE z.flags))
<1> DEFINE x == z.failed \/ ~(z.cur \in 1 .. RespSize /\ (z.hdr # 0 => z.hdr < z.cur))
           a == [z EXCEPT !.failed = x]
<1>1. Asserted(z, z.cur \in 1 .. RespSize /\ (z.hdr # 0 => z.hdr < z.cur)) = a
  BY DEF Asserted
<1> HIDE DEF x
<1>2. a.flags = z.flags
  BY DEF IsParser, Fields
<1> HIDE DEF a
<1>3. HeadersComplete(z) =
        ProcessCompleteHeader(
          [a EXCEPT !.hdrLen = IF z.hdr = 0 THEN 0 ELSE z.cur - z.hdr,
                    !.contentLength = IF z.length = MaxLength THEN 0 ELSE z.length % Sizes,
                    !.respFlags = @ \cup (z.flags \cap {"close", "keep-alive"}),
                    !.flags = IF z.head THEN z.flags \cup {"skipbody"} ELSE z.flags])
  BY <1>1, <1>2 DEF HeadersComplete, OnHeadersComplete
<1> QED
  BY <1>3 DEF Headed, a, x

LEMMA SameHeaded ==
  ASSUME NEW m \in 1 .. RespSize + 1, NEW z, NEW t, NEW u, NEW v, Same(z, t, m, u, v), NEW x, NEW y,
         NEW h, NEW k, NEW length, NEW flags, NEW more
  PROVE  /\ Same(Headed(z, x, h, length, flags, more), Headed(t, y, k, length, flags, more), m, u, v)
         /\ Headed(z, x, h, length, flags, more).field = z.field
         /\ Headed(z, x, h, length, flags, more).value = z.value
<1>1. ASSUME NEW c, NEW d, Same(c, d, m, u, v)
      PROVE  /\ Same([c EXCEPT !.failed = x], [d EXCEPT !.failed = y], m, u, v)
             /\ [c EXCEPT !.failed = x].field = c.field /\ [c EXCEPT !.failed = x].value = c.value
  <2>1. Same([c EXCEPT !.failed = x], [d EXCEPT !.failed = y], m, u, v)
    BY <1>1 DEF Same, SameRun, IsParser, Fields
  <2> QED
    BY <1>1, <2>1 DEF Same, IsParser, Fields
<1>2. ASSUME NEW c, NEW d, Same(c, d, m, u, v)
      PROVE  /\ Same([c EXCEPT !.hdrLen = h], [d EXCEPT !.hdrLen = k], m, u, v)
             /\ [c EXCEPT !.hdrLen = h].field = c.field /\ [c EXCEPT !.hdrLen = h].value = c.value
  <2>1. Same([c EXCEPT !.hdrLen = h], [d EXCEPT !.hdrLen = k], m, u, v)
    BY <1>2 DEF Same, SameRun, IsParser, Fields
  <2> QED
    BY <1>2, <2>1 DEF Same, IsParser, Fields
<1>3. ASSUME NEW c, NEW d, Same(c, d, m, u, v)
      PROVE  /\ Same([c EXCEPT !.contentLength = length], [d EXCEPT !.contentLength = length], m, u, v)
             /\ [c EXCEPT !.contentLength = length].field = c.field
             /\ [c EXCEPT !.contentLength = length].value = c.value
  <2>1. Same([c EXCEPT !.contentLength = length], [d EXCEPT !.contentLength = length], m, u, v)
    BY <1>3 DEF Same, SameRun, IsParser, Fields
  <2> QED
    BY <1>3, <2>1 DEF Same, IsParser, Fields
<1>4. ASSUME NEW c, NEW d, Same(c, d, m, u, v)
      PROVE  /\ Same([c EXCEPT !.respFlags = @ \cup flags], [d EXCEPT !.respFlags = @ \cup flags], m, u, v)
             /\ [c EXCEPT !.respFlags = @ \cup flags].field = c.field
             /\ [c EXCEPT !.respFlags = @ \cup flags].value = c.value
  <2>1. Same([c EXCEPT !.respFlags = @ \cup flags], [d EXCEPT !.respFlags = @ \cup flags], m, u, v)
    BY <1>4 DEF Same, SameRun, IsParser, Fields
  <2> QED
    BY <1>4, <2>1 DEF Same, IsParser, Fields
<1>5. ASSUME NEW c, NEW d, Same(c, d, m, u, v)
      PROVE  /\ Same([c EXCEPT !.flags = more], [d EXCEPT !.flags = more], m, u, v)
             /\ [c EXCEPT !.flags = more].field = c.field /\ [c EXCEPT !.flags = more].value = c.value
  <2>1. Same([c EXCEPT !.flags = more], [d EXCEPT !.flags = more], m, u, v)
    BY <1>5 DEF Same, SameRun, IsParser, Fields
  <2> QED
    BY <1>5, <2>1 DEF Same, IsParser, Fields
<1> DEFINE f1(c, b) == [c EXCEPT !.failed = b]
           f2(c, b) == [c EXCEPT !.hdrLen = b]
           f3(c) == [c EXCEPT !.contentLength = length]
           f4(c) == [c EXCEPT !.respFlags = @ \cup flags]
           f5(c) == [c EXCEPT !.flags = more]
<1>6. /\ Headed(z, x, h, length, flags, more) = f5(f4(f3(f2(f1(z, x), h))))
      /\ Headed(t, y, k, length, flags, more) = f5(f4(f3(f2(f1(t, y), k))))
  BY DEF Headed
<1>7. ASSUME NEW c, NEW d, Same(c, d, m, u, v)
      PROVE  /\ Same(f1(c, x), f1(d, y), m, u, v) /\ f1(c, x).field = c.field /\ f1(c, x).value = c.value
             /\ Same(f2(c, h), f2(d, k), m, u, v) /\ f2(c, h).field = c.field /\ f2(c, h).value = c.value
             /\ Same(f3(c), f3(d), m, u, v) /\ f3(c).field = c.field /\ f3(c).value = c.value
             /\ Same(f4(c), f4(d), m, u, v) /\ f4(c).field = c.field /\ f4(c).value = c.value
             /\ Same(f5(c), f5(d), m, u, v) /\ f5(c).field = c.field /\ f5(c).value = c.value
  BY <1>1, <1>2, <1>3, <1>4, <1>5, <1>7
<1> HIDE DEF f1, f2, f3, f4, f5
<1>8. Same(f2(f1(z, x), h), f2(f1(t, y), k), m, u, v)
      /\ f2(f1(z, x), h).field = z.field /\ f2(f1(z, x), h).value = z.value
  BY <1>7
<1>9. Same(f4(f3(f2(f1(z, x), h))), f4(f3(f2(f1(t, y), k))), m, u, v)
      /\ f4(f3(f2(f1(z, x), h))).field = z.field /\ f4(f3(f2(f1(z, x), h))).value = z.value
  BY <1>7, <1>8
<1> QED
  BY <1>6, <1>7, <1>9

LEMMA SameHeadersComplete ==
  ASSUME NEW m \in 1 .. RespSize + 1, NEW z, NEW t, NEW u, NEW v, Same(z, t, m, u, v),
         z.find = NoSearch, Before(z.field, m), Before(z.value, m)
  PROVE  Same(HeadersComplete(z), HeadersComplete(t), m, u, v)
<1>1. ~Searching(z) /\ ~Searching(t)
  BY NotSearching DEF Same, SameRun
<1>2. IsParser(z) /\ IsParser(t) /\ t.length = z.length /\ t.flags = z.flags /\ t.head = z.head
  BY DEF Same, SameRun
<1> DEFINE length == IF z.length = MaxLength THEN 0 ELSE z.length % Sizes
           flags == z.flags \cap {"close", "keep-alive"}
           more == IF z.head THEN z.flags \cup {"skipbody"} ELSE z.flags
           x == z.failed \/ ~(z.cur \in 1 .. RespSize /\ (z.hdr # 0 => z.hdr < z.cur))
           y == t.failed \/ ~(t.cur \in 1 .. RespSize /\ (t.hdr # 0 => t.hdr < t.cur))
           h == IF z.hdr = 0 THEN 0 ELSE z.cur - z.hdr
           k == IF t.hdr = 0 THEN 0 ELSE t.cur - t.hdr
           c == Headed(z, x, h, length, flags, more)
           d == Headed(t, y, k, length, flags, more)
<1>3. HeadersComplete(z) = ProcessCompleteHeader(c)
  BY <1>1, <1>2, HeadersCompleteIs
<1>4. HeadersComplete(t) = ProcessCompleteHeader(d)
  <2>1. HeadersComplete(t) =
          ProcessCompleteHeader(
            Headed(t, y, k, IF t.length = MaxLength THEN 0 ELSE t.length % Sizes,
                   t.flags \cap {"close", "keep-alive"},
                   IF t.head THEN t.flags \cup {"skipbody"} ELSE t.flags))
    BY <1>1, <1>2, HeadersCompleteIs
  <2> HIDE DEF y, k
  <2> QED
    BY <1>2, <2>1
<1>5. Same(c, d, m, u, v) /\ c.field = z.field /\ c.value = z.value
  <2> HIDE DEF length, flags, more, x, y, h, k
  <2> QED
    BY SameHeaded
<1> HIDE DEF c, d
<1>6. Same(ProcessCompleteHeader(c), ProcessCompleteHeader(d), m, u, v)
  BY <1>5, SameProcessed
<1> QED
  BY <1>3, <1>4, <1>6

LEMMA SameAfterHeaders ==
  ASSUME NEW m, NEW z, NEW t, NEW u, NEW v, Same(z, t, m, u, v)
  PROVE  Same(AfterHeaders(z), AfterHeaders(t), m, u, v)
<1>1. /\ Same(MessageComplete(z), MessageComplete(t), m, u, v)
      /\ Same(PauseUpgrade(z), PauseUpgrade(t), m, u, v)
  BY SameComplete
<1>2. /\ Same(Goto(z, "eof"), Goto(t, "eof"), m, u, v)
      /\ Same(Goto(z, "identity"), Goto(t, "identity"), m, u, v)
  BY SameGoto
<1>3. Same([z EXCEPT !.st = "size", !.length = 0], [t EXCEPT !.st = "size", !.length = 0], m, u, v)
  BY SameSet
<1>4. t.flags = z.flags /\ t.length = z.length /\ t.upgrade = z.upgrade /\ (NeedsEof(z) <=> NeedsEof(t))
  BY DEF Same, SameRun, NeedsEof
<1> DEFINE choice(f, l, g, e, a, b, c, d, h) ==
             IF g /\ ("skipbody" \in f \/ ~("chunked" \in f \/ l > 0)) THEN a
             ELSE CASE "skipbody" \in f -> b
                    [] "skipbody" \notin f /\ "chunked" \in f -> c
                    [] f \cap {"skipbody", "chunked"} = {} /\ "transfer" \in f -> d
                    [] f \cap {"skipbody", "chunked", "transfer"} = {} ->
                         IF "length" \in f THEN IF l = 0 THEN b ELSE h ELSE IF e THEN d ELSE b
<1>5. ASSUME NEW p
      PROVE  AfterHeaders(p) = choice(p.flags, p.length, p.upgrade, NeedsEof(p), PauseUpgrade(p), MessageComplete(p),
                               [p EXCEPT !.st = "size", !.length = 0], Goto(p, "eof"), Goto(p, "identity"))
  BY Zenon DEF AfterHeaders
<1> DEFINE A == <<PauseUpgrade(z), PauseUpgrade(t)>>
           B == <<MessageComplete(z), MessageComplete(t)>>
           C == <<[z EXCEPT !.st = "size", !.length = 0], [t EXCEPT !.st = "size", !.length = 0]>>
           D == <<Goto(z, "eof"), Goto(t, "eof")>>
           E == <<Goto(z, "identity"), Goto(t, "identity")>>
<1>6. \A p \in {A, B, C, D, E} : Same(p[1], p[2], m, u, v)
  BY <1>1, <1>2, <1>3
<1>7. /\ AfterHeaders(z) = choice(z.flags, z.length, z.upgrade, NeedsEof(z), A[1], B[1], C[1], D[1], E[1])
      /\ AfterHeaders(t) = choice(z.flags, z.length, z.upgrade, NeedsEof(z), A[2], B[2], C[2], D[2], E[2])
  <2>1. AfterHeaders(z) = choice(z.flags, z.length, z.upgrade, NeedsEof(z), A[1], B[1], C[1], D[1], E[1])
    <3> HIDE DEF choice
    <3> QED
      BY <1>5
  <2>2. AfterHeaders(t) = choice(t.flags, t.length, t.upgrade, NeedsEof(t), A[2], B[2], C[2], D[2], E[2])
    <3> HIDE DEF choice
    <3> QED
      BY <1>5
  <2>3. choice(t.flags, t.length, t.upgrade, NeedsEof(t), A[2], B[2], C[2], D[2], E[2])
          = choice(z.flags, z.length, z.upgrade, NeedsEof(z), A[2], B[2], C[2], D[2], E[2])
    <3> HIDE DEF A, B, C, D, E
    <3> QED
      BY <1>4
  <2> QED
    BY <2>1, <2>2, <2>3
<1> HIDE DEF A, B, C, D, E
<1>8. PICK p \in {A, B, C, D, E} : AfterHeaders(z) = p[1] /\ AfterHeaders(t) = p[2]
  BY <1>7
<1> QED
  BY <1>6, <1>8

LEMMA SameHeadersDone ==
  ASSUME NEW m \in 1 .. RespSize + 1, NEW z, NEW t, NEW u, NEW v, Same(z, t, m, u, v),
         NEW j \in 1 .. m, Idle(z, j)
  PROVE  Same(HeadersDone(z), HeadersDone(t), m, u, v)
<1> DEFINE up(p) == {"upgrade", "switch"} \subseteq p.flags /\ p.code = 101
           a == BeforeHeaders(z)
           b == BeforeHeaders(t)
<1>1. t.flags = z.flags /\ t.code = z.code
  BY DEF Same, SameRun
<1>2. Same(a, b, m, u, v) /\ a.find = z.find /\ a.field = z.field /\ a.value = z.value
  <2> DEFINE x == up(z)
  <2>1. a = [z EXCEPT !.upgrade = x] /\ b = [t EXCEPT !.upgrade = x]
    BY <1>1 DEF BeforeHeaders
  <2> HIDE DEF x, a, b
  <2> QED
    BY <2>1 DEF Same, SameRun, IsParser, Fields
<1>3. j \in Nat /\ m \in Nat /\ j <= m
  BY ResponseAssumption
<1>4. z.find = NoSearch /\ Before(z.field, m) /\ Before(z.value, m)
  BY <1>3, Later DEF Idle
<1> HIDE DEF a, b
<1>5. Same(HeadersComplete(a), HeadersComplete(b), m, u, v)
  BY <1>2, <1>4, SameHeadersComplete
<1>6. Same(AfterHeaders(HeadersComplete(a)), AfterHeaders(HeadersComplete(b)), m, u, v)
  BY <1>5, SameAfterHeaders
<1>7. Same(BodyComplete(z), BodyComplete(t), m, u, v)
  BY SameComplete
<1>8. Same(Fail(z, "HPE_UNEXPECTED_CONTENT_LENGTH"), Fail(t, "HPE_UNEXPECTED_CONTENT_LENGTH"), m, u, v)
  BY SameFail
<1> QED
  BY <1>1, <1>6, <1>7, <1>8 DEF HeadersDone, a, b

LEMMA SameFieldStart ==
  ASSUME NEW m \in 1 .. RespSize + 1, NEW z, NEW t, NEW u, NEW v, Same(z, t, m, u, v),
         NEW j \in 1 .. m - 1, Idle(z, j)
  PROVE  Same(FieldStart(z, j), FieldStart(t, j), m, u, v)
<1> DEFINE x == [Goto(Open(z, "field", j), "field") EXCEPT !.header = z.buf[j].v]
           y == [Goto(Open(t, "field", j), "field") EXCEPT !.header = z.buf[j].v]
           w == "HPE_INVALID_HEADER_TOKEN"
<1>1. t.buf[j] = z.buf[j] /\ j \in 1 .. m
  BY ResponseAssumption DEF Same
<1>2. Same(x, y, m, u, v)
  <2> DEFINE a == Goto(Open(z, "field", j), "field")
             b == Goto(Open(t, "field", j), "field")
             h == z.buf[j].v
  <2>1. Same(a, b, m, u, v)
    BY SameOpen, SameGoto
  <2> HIDE DEF a, b, h
  <2>2. Same([a EXCEPT !.header = h], [b EXCEPT !.header = h], m, u, v)
    BY <2>1 DEF Same, SameRun, IsParser, Fields
  <2> QED
    BY <2>2 DEF a, b, h
<1>3. Same(HeadersDone(z), HeadersDone(t), m, u, v)
  BY <1>1, SameHeadersDone
<1>4. Same(Fail(z, w), Fail(t, w), m, u, v)
  BY SameFail
<1>5. /\ FieldStart(z, j) = CASE z.buf[j].k = "nl" -> HeadersDone(z) [] z.buf[j].k = "field" -> x
                              [] OTHER -> Fail(z, w)
      /\ FieldStart(t, j) = CASE z.buf[j].k = "nl" -> HeadersDone(t) [] z.buf[j].k = "field" -> y
                              [] OTHER -> Fail(t, w)
  BY <1>1 DEF FieldStart
<1> HIDE DEF x, y, w
<1> QED
  BY <1>2, <1>3, <1>4, <1>5

LEMMA SameFlagged ==
  ASSUME NEW m, NEW z, NEW t, NEW u, NEW v, Same(z, t, m, u, v)
  PROVE  Same(Flagged(z), Flagged(t), m, u, v)
BY DEF Same, SameRun, Flagged, IsParser, Fields

LEMMA SameWord ==
  ASSUME NEW m \in 1 .. RespSize + 1, NEW z, NEW t, NEW u, NEW v, Same(z, t, m, u, v),
         NEW j \in 1 .. m - 1, Reportable(z, j + 1), z.st \in InValue
  PROVE  Same(Word(z, j), Word(t, j), m, u, v)
<1> DEFINE d == z.buf[j].v
<1>1. t.buf[j] = z.buf[j] /\ j + 1 \in 1 .. m /\ t.st = z.st /\ t.length = z.length /\ t.header = z.header
  BY ResponseAssumption DEF Same, SameRun
<1>2. CASE z.st = "length"
  <2> DEFINE a == EndSpan(z, j + 1, "error")
             b == EndSpan(t, j + 1, "error")
             w == "HPE_INVALID_CONTENT_LENGTH"
             n == z.length * 10 + d
  <2>1. Same(a, b, m, u, v)
    BY <1>1, SameEndSpan
  <2>2. Same(Fail(a, w), Fail(b, w), m, u, v)
    BY <2>1, SameFail
  <2>3. /\ Word(z, j) = IF n > MaxLength THEN Fail(a, w) ELSE [z EXCEPT !.length = n]
        /\ Word(t, j) = IF n > MaxLength THEN Fail(b, w) ELSE [t EXCEPT !.length = n]
    BY <1>1, <1>2 DEF Word, Digit, Same, IsParser, Fields
  <2> HIDE DEF a, b, w, n
  <2>4. Same([z EXCEPT !.length = n], [t EXCEPT !.length = n], m, u, v)
    BY DEF Same, SameRun, IsParser, Fields
  <2> QED
    BY <2>2, <2>3, <2>4
<1>3. CASE z.st = "connection"
  <2> DEFINE h == IF d \in {KeepAlive, Closing, Switching} THEN d ELSE Connection
             a == Flagged(z)
             b == Flagged(t)
  <2>1. Word(z, j) = [a EXCEPT !.header = h] /\ Word(t, j) = [b EXCEPT !.header = h]
    BY <1>1, <1>3 DEF Word, ConnectionWord
  <2>2. Same(a, b, m, u, v)
    BY SameFlagged
  <2> HIDE DEF a, b, h
  <2>3. Same([a EXCEPT !.header = h], [b EXCEPT !.header = h], m, u, v)
    BY <2>2 DEF Same, SameRun, IsParser, Fields
  <2> QED
    BY <2>1, <2>3
<1>4. CASE z.st = "encoding"
  <2> DEFINE h == IF d = Chunked THEN Chunked ELSE General
  <2>1. Word(z, j) = [z EXCEPT !.header = h] /\ Word(t, j) = [t EXCEPT !.header = h]
    BY <1>1, <1>4 DEF Word, EncodingWord
  <2> HIDE DEF h
  <2>3. Same([z EXCEPT !.header = h], [t EXCEPT !.header = h], m, u, v)
    BY DEF Same, SameRun, IsParser, Fields
  <2> QED
    BY <2>1, <2>3
<1>5. CASE z.st = "value"
  BY <1>1, <1>5 DEF Word
<1> QED
  BY <1>2, <1>3, <1>4, <1>5 DEF InValue

\* A value that is opened at j may be reported.
LEMMA OpenReportable ==
  ASSUME NEW j \in Nat \ {0}, NEW z, Idle(z, j), NEW p \in Nat, j <= p, NEW o, o.find = z.find,
         o.field = z.field, o.value = z.value, o.span # "body"
  PROVE  Reportable(o, p)
BY Later DEF Idle, Reportable

LEMMA SameValueStart ==
  ASSUME NEW m \in 1 .. RespSize + 1, NEW z, NEW t, NEW u, NEW v, Same(z, t, m, u, v),
         NEW j \in 1 .. m - 1, Idle(z, j)
  PROVE  Same(ValueStart(z, j), ValueStart(t, j), m, u, v)
<1> DEFINE o(p) == Open(p, "value", j)
           v1(p) == Fail(o(p), "HPE_UNEXPECTED_CONTENT_LENGTH")
           v2(p) == Word(Goto(o(p), "length"), j)
           v3(p) == Word(Goto(o(p), "connection"), j)
           e(p)  == [Goto(o(p), "encoding") EXCEPT !.flags = (@ \ {"chunked"}) \cup {"transfer"}]
           v4(p) == Word(e(p), j)
           v5(p) == [Goto(o(p), "value") EXCEPT !.flags = @ \cup {"upgrade"}, !.header = General]
           v6(p) == Goto(o(p), "value")
           Choice(p, h, f) == CASE h = Length /\ "length" \in f -> v1(p)
                                [] h = Length /\ "length" \notin f -> v2(p)
                                [] h = Connection -> v3(p)
                                [] h = Encoding -> v4(p)
                                [] h = Upgrade -> v5(p)
                                [] OTHER -> v6(p)
<1>1. t.header = z.header /\ t.flags = z.flags /\ t.find = z.find /\ t.field = z.field /\ t.value = z.value
  BY DEF Same, SameRun
<1>2. ASSUME NEW p PROVE ValueStart(p, j) = Choice(p, p.header, p.flags)
  BY Zenon DEF ValueStart
<1>3. ValueStart(z, j) = Choice(z, z.header, z.flags) /\ ValueStart(t, j) = Choice(t, z.header, z.flags)
  <2> HIDE DEF Choice
  <2> QED
    BY <1>1, <1>2
<1>4. j \in Nat \ {0} /\ j + 1 \in Nat /\ j + 1 \in 1 .. m
  BY ResponseAssumption
<1>5. Same(o(z), o(t), m, u, v)
  BY SameOpen
<1>6. /\ IsParser(o(z)) /\ o(z).span = "value" /\ o(z).find = z.find /\ o(z).field = z.field
      /\ o(z).value = z.value
  BY DEF Open, Same, IsParser, Fields
<1> HIDE DEF o
<1>7. ASSUME NEW st \in InValue
      PROVE  /\ Same(Goto(o(z), st), Goto(o(t), st), m, u, v)
             /\ Same(Word(Goto(o(z), st), j), Word(Goto(o(t), st), j), m, u, v)
  <2> DEFINE a == Goto(o(z), st)
             b == Goto(o(t), st)
  <2>1. Same(a, b, m, u, v)
    BY <1>5, SameGoto
  <2>2. a.find = z.find /\ a.field = z.field /\ a.value = z.value /\ a.span # "body" /\ a.st = st
    BY <1>6 DEF Goto, IsParser, Fields
  <2> HIDE DEF a, b
  <2>3. Reportable(a, j + 1)
    BY <1>4, <2>2, OpenReportable
  <2>4. Same(Word(a, j), Word(b, j), m, u, v)
    BY <2>1, <2>2, <2>3, SameWord
  <2> QED
    BY <2>1, <2>4 DEF a, b
<1>8. Same(v1(z), v1(t), m, u, v)
  BY <1>5, SameFail
<1>9. Same(v2(z), v2(t), m, u, v) /\ Same(v3(z), v3(t), m, u, v) /\ Same(v6(z), v6(t), m, u, v)
  BY <1>7 DEF InValue
<1>10. Same(v4(z), v4(t), m, u, v)
  <2> DEFINE a == Goto(o(z), "encoding")
             b == Goto(o(t), "encoding")
             x == [a EXCEPT !.flags = (@ \ {"chunked"}) \cup {"transfer"}]
             y == [b EXCEPT !.flags = (@ \ {"chunked"}) \cup {"transfer"}]
  <2>1. Same(a, b, m, u, v)
    BY <1>5, SameGoto
  <2>2. a.find = z.find /\ a.field = z.field /\ a.value = z.value /\ a.span # "body" /\ a.st = "encoding"
    BY <1>6 DEF Goto, IsParser, Fields
  <2>3. e(z) = x /\ e(t) = y
    OBVIOUS
  <2> HIDE DEF a, b, e
  <2>4. Same(x, y, m, u, v)
    BY <2>1 DEF Same, SameRun, IsParser, Fields
  <2>5. x.find = z.find /\ x.field = z.field /\ x.value = z.value /\ x.span # "body" /\ x.st = "encoding"
    BY <2>1, <2>2 DEF Same, IsParser, Fields
  <2> HIDE DEF x, y
  <2>6. Reportable(x, j + 1)
    BY <1>4, <2>5, OpenReportable
  <2>7. Same(Word(x, j), Word(y, j), m, u, v)
    BY <2>4, <2>5, <2>6, SameWord DEF InValue
  <2> QED
    BY <2>3, <2>7
<1>11. Same(v5(z), v5(t), m, u, v)
  <2> DEFINE a == Goto(o(z), "value")
             b == Goto(o(t), "value")
             f == z.flags \cup {"upgrade"}
             x == [a EXCEPT !.flags = @ \cup {"upgrade"}, !.header = General]
             y == [b EXCEPT !.flags = @ \cup {"upgrade"}, !.header = General]
  <2>1. Same(a, b, m, u, v)
    BY <1>5, SameGoto
  <2>2. v5(z) = x /\ v5(t) = y
    OBVIOUS
  <2> HIDE DEF a, b
  <2>3. Same(x, y, m, u, v)
    BY <2>1 DEF Same, SameRun, IsParser, Fields
  <2> QED
    BY <2>2, <2>3
<1> DEFINE P == {<<v1(z), v1(t)>>, <<v2(z), v2(t)>>, <<v3(z), v3(t)>>, <<v4(z), v4(t)>>,
                 <<v5(z), v5(t)>>, <<v6(z), v6(t)>>}
<1> HIDE DEF v1, v2, v3, v4, v5, v6
<1>12. \A p \in P : Same(p[1], p[2], m, u, v)
  BY <1>8, <1>9, <1>10, <1>11
<1>13. \E p \in P : ValueStart(z, j) = p[1] /\ ValueStart(t, j) = p[2]
  <2> DEFINE h == z.header
             f == z.flags
  <2> HIDE DEF h, f
  <2>1. ValueStart(z, j) = Choice(z, h, f) /\ ValueStart(t, j) = Choice(t, h, f)
    BY <1>3 DEF h, f
  <2> USE DEF Length, Connection, Encoding, Upgrade
  <2>2. CASE h = Length /\ "length" \in f
    BY <2>1, <2>2
  <2>3. CASE h = Length /\ "length" \notin f
    BY <2>1, <2>3
  <2>4. CASE h = Connection
    BY <2>1, <2>4
  <2>5. CASE h = Encoding
    BY <2>1, <2>5
  <2>6. CASE h = Upgrade
    BY <2>1, <2>6
  <2>7. CASE h \notin {Length, Connection, Encoding, Upgrade}
    BY <2>1, <2>7
  <2> QED
    BY <2>2, <2>3, <2>4, <2>5, <2>6, <2>7
<1> QED
  BY <1>12, <1>13

LEMMA SameBadValue ==
  ASSUME NEW m \in 1 .. RespSize + 1, NEW z, NEW t, NEW u, NEW v, Same(z, t, m, u, v),
         NEW j \in 1 .. m, Reportable(z, j)
  PROVE  Same(BadValue(z, j), BadValue(t, j), m, u, v)
<1>1. t.header = z.header
  BY DEF Same, SameRun
<1>2. Same(EndSpan(z, j, "error"), EndSpan(t, j, "error"), m, u, v)
  BY SameEndSpan
<1> QED
  BY <1>1, <1>2, SameFail DEF BadValue

LEMMA SameDiscardWs ==
  ASSUME NEW m \in 1 .. RespSize + 1, NEW z, NEW t, NEW u, NEW v, Same(z, t, m, u, v),
         NEW j \in 1 .. m - 1, Idle(z, j), NEW k
  PROVE  Same(DiscardWs(z, j, k), DiscardWs(t, j, k), m, u, v)
<1> DEFINE a == Open(z, "value", j)
           b == Open(t, "value", j)
           bad(p) == BadValue(Open(p, "value", j), j)
<1>1. Same(a, b, m, u, v) /\ j \in Nat \ {0} /\ j \in 1 .. m
  BY SameOpen, ResponseAssumption
<1>2. a.find = z.find /\ a.field = z.field /\ a.value = z.value /\ a.span = "value"
  BY DEF Open, Same, IsParser, Fields
<1> HIDE DEF a, b
<1>3. Reportable(a, j)
  BY <1>1, <1>2, OpenReportable
<1>4. Same(BadValue(a, j), BadValue(b, j), m, u, v)
  BY <1>1, <1>3, SameBadValue
<1>5. Same(bad(z), bad(t), m, u, v)
  BY <1>4 DEF a, b
<1>6. Same(ValueStart(z, j), ValueStart(t, j), m, u, v)
  BY SameValueStart
<1>7. Same(Goto(z, "discard_lws"), Goto(t, "discard_lws"), m, u, v)
  BY SameGoto
<1>8. ASSUME NEW p
      PROVE  DiscardWs(p, j, k) = CASE k.k = "nl" -> Goto(p, "discard_lws")
                                    [] k.k = "value" -> ValueStart(p, j)
                                    [] OTHER -> bad(p)
  BY DEF DiscardWs
<1> HIDE DEF bad
<1> QED
  BY <1>5, <1>6, <1>7, <1>8

LEMMA SameDiscardLws ==
  ASSUME NEW m \in 1 .. RespSize + 1, NEW z, NEW t, NEW u, NEW v, Same(z, t, m, u, v),
         NEW j \in 1 .. m - 1, Idle(z, j), z.field.at # 0, j <= RespSize, NEW k
  PROVE  Same(DiscardLws(z, j, k), DiscardLws(t, j, k), m, u, v)
<1> DEFINE a == Open(z, "value", j)
           b == Open(t, "value", j)
           e(p) == EndSpan(Open(p, "value", j), j, "field_start")
           w == "HPE_INVALID_CONTENT_LENGTH"
<1>1. Same(a, b, m, u, v) /\ j \in Nat \ {0} /\ j \in 1 .. m /\ j \in 1 .. RespSize
  BY SameOpen, ResponseAssumption
<1>2. a.find = z.find /\ a.field = z.field /\ a.value = z.value /\ a.span = "value"
  BY DEF Open, Same, IsParser, Fields
<1>3. Idle(e(z), j)
  BY <1>1, EmptyValue
<1> HIDE DEF a, b
<1>4. Reportable(a, j)
  <2>1. j \in Nat /\ j <= j /\ a.span # "body"
    BY <1>1, <1>2
  <2> QED
    BY <1>1, <1>2, <2>1, OpenReportable
<1>5. Same(EndSpan(a, j, "field_start"), EndSpan(b, j, "field_start"), m, u, v)
  BY <1>1, <1>4, SameEndSpan
<1>6. Same(e(z), e(t), m, u, v)
  BY <1>5 DEF a, b
<1>7. Same(ValueStart(z, j), ValueStart(t, j), m, u, v)
  BY SameValueStart
<1>8. Same(Fail(z, w), Fail(t, w), m, u, v)
  BY SameFail
<1>9. ASSUME NEW p
      PROVE  DiscardLws(p, j, k) = IF k.k = "lws" THEN ValueStart(p, j)
                                   ELSE IF p.header = Length THEN Fail(p, w)
                                   ELSE IF e(p).err = "HPE_OK" THEN FieldStart(e(p), j) ELSE e(p)
  BY DEF DiscardLws
<1> HIDE DEF e, w
<1>10. Same(FieldStart(e(z), j), FieldStart(e(t), j), m, u, v)
  BY <1>3, <1>6, SameFieldStart
<1>11. z.header = t.header /\ e(z).err = e(t).err
  BY <1>6 DEF Same, SameRun
<1> QED
  BY <1>6, <1>7, <1>8, <1>9, <1>10, <1>11

LEMMA SameValueText ==
  ASSUME NEW m \in 1 .. RespSize + 1, NEW z, NEW t, NEW u, NEW v, Same(z, t, m, u, v),
         NEW j \in 1 .. m - 1, Sound(z, j), z.st \in InValue, NEW k
  PROVE  Same(ValueText(z, j, k), ValueText(t, j, k), m, u, v)
<1> DEFINE f == IF z.st = "length" THEN z.flags \cup {"length"} ELSE z.flags
           a == [z EXCEPT !.flags = f]
           b == [t EXCEPT !.flags = f]
<1>1. /\ j \in Nat \ {0} /\ j + 1 \in Nat \ {0} /\ j \in 1 .. m /\ z.span = "value" /\ z.st # "error"
      /\ t.st = z.st /\ t.flags = z.flags
  BY ResponseAssumption DEF Sound, Live, InValue, Same, SameRun
<1>2. Sound(z, j + 1)
  BY <1>1, SoundNext
<1>3. Reportable(z, j) /\ Reportable(z, j + 1)
  BY <1>1, <1>2, SoundReportable
<1>4. ASSUME NEW p, p.st = z.st, p.flags = z.flags, IsParser(p)
      PROVE  ValueText(p, j, k) = CASE k.k = "value" -> Word(p, j)
                                    [] k.k = "nl"    -> EndSpan([p EXCEPT !.flags = f], j, "lws")
                                    [] OTHER -> BadValue(p, j)
  <2>1. [p EXCEPT !.flags = f] = [p EXCEPT !.flags = IF p.st = "length" THEN @ \cup {"length"} ELSE @]
    BY <1>4 DEF IsParser, Fields
  <2> DEFINE g == [p EXCEPT !.flags = f]
             h == [p EXCEPT !.flags = IF p.st = "length" THEN @ \cup {"length"} ELSE @]
  <2>2. ValueText(p, j, k) = CASE k.k = "value" -> Word(p, j)
                               [] k.k = "nl"    -> EndSpan(h, j, "lws")
                               [] OTHER -> BadValue(p, j)
    BY Zenon DEF ValueText
  <2>3. g = h
    BY <2>1
  <2> HIDE DEF g, h
  <2>4. ValueText(p, j, k) = CASE k.k = "value" -> Word(p, j)
                               [] k.k = "nl"    -> EndSpan(g, j, "lws")
                               [] OTHER -> BadValue(p, j)
    BY <2>2, <2>3
  <2> QED
    BY <2>4 DEF g
<1> HIDE DEF f
<1>5. Same(a, b, m, u, v)
  BY DEF Same, SameRun, IsParser, Fields
<1>6. a.find = z.find /\ a.field = z.field /\ a.value = z.value /\ a.span = z.span
  BY DEF Same, IsParser, Fields
<1>7. IsParser(z) /\ IsParser(t)
  BY DEF Same
<1>8. /\ ValueText(z, j, k) = CASE k.k = "value" -> Word(z, j) [] k.k = "nl" -> EndSpan(a, j, "lws")
                                [] OTHER -> BadValue(z, j)
      /\ ValueText(t, j, k) = CASE k.k = "value" -> Word(t, j) [] k.k = "nl" -> EndSpan(b, j, "lws")
                                [] OTHER -> BadValue(t, j)
  BY <1>1, <1>4, <1>7
<1> HIDE DEF a, b
<1>9. Reportable(a, j)
  BY <1>1, <1>3, <1>6 DEF Reportable
<1>10. Same(EndSpan(a, j, "lws"), EndSpan(b, j, "lws"), m, u, v)
  BY <1>1, <1>5, <1>9, SameEndSpan
<1>11. Same(Word(z, j), Word(t, j), m, u, v)
  BY <1>3, SameWord
<1>12. Same(BadValue(z, j), BadValue(t, j), m, u, v)
  BY <1>1, <1>3, SameBadValue
<1> QED
  BY <1>8, <1>10, <1>11, <1>12

LEMMA SameLws ==
  ASSUME NEW m \in 1 .. RespSize + 1, NEW z, NEW t, NEW u, NEW v, Same(z, t, m, u, v),
         NEW j \in 1 .. m - 1, Idle(z, j), NEW k
  PROVE  Same(Lws(z, j, k), Lws(t, j, k), m, u, v)
<1>1. Same(Flagged(z), Flagged(t), m, u, v)
  BY SameFlagged
<1>2. Idle(Flagged(z), j)
  BY FlaggedIdle
<1>3. Same(FieldStart(Flagged(z), j), FieldStart(Flagged(t), j), m, u, v)
  BY <1>1, <1>2, SameFieldStart
<1>4. Same(ValueStart(z, j), ValueStart(t, j), m, u, v)
  BY SameValueStart
<1> QED
  BY <1>3, <1>4 DEF Lws

LEMMA SameFieldName ==
  ASSUME NEW m \in 1 .. RespSize + 1, NEW z, NEW t, NEW u, NEW v, Same(z, t, m, u, v),
         NEW j \in 1 .. m - 1, Sound(z, j), z.st = "field", NEW k
  PROVE  Same(FieldName(z, j, k), FieldName(t, j, k), m, u, v)
<1>1. j \in Nat \ {0} /\ j \in 1 .. m /\ z.span = "field"
  BY ResponseAssumption DEF Sound, Live
<1>2. Reportable(z, j)
  BY <1>1, SoundReportable
<1>3. Same(EndSpan(z, j, "discard_ws"), EndSpan(t, j, "discard_ws"), m, u, v)
  BY <1>1, <1>2, SameEndSpan
<1>4. Same(Fail(z, "HPE_INVALID_HEADER_TOKEN"), Fail(t, "HPE_INVALID_HEADER_TOKEN"), m, u, v)
  BY SameFail
<1> QED
  BY <1>3, <1>4 DEF FieldName

LEMMA SameStart ==
  ASSUME NEW m, NEW z, NEW t, NEW u, NEW v, Same(z, t, m, u, v), NEW k
  PROVE  Same(Start(z, k), Start(t, k), m, u, v)
<1> DEFINE a == MessageBegin(z)
           b == MessageBegin(t)
           n == k.v
<1>1. Same(a, b, m, u, v)
  <2>1. Same(OnMessageBegin(z), OnMessageBegin(t), m, u, v)
    BY DEF OnMessageBegin, Same, SameRun, IsParser, Fields
  <2>2. Searching(z) <=> Searching(t)
    BY DEF Searching, Same, SameRun
  <2> QED
    BY <2>1, <2>2 DEF MessageBegin
<1>2. /\ Start(z, k) = CASE k.k = "nl" -> z
                         [] k.k = "http" /\ n # 0 -> [a EXCEPT !.version = n, !.st = "code"]
                         [] k.k = "http" /\ n = 0 -> Fail(a, "HPE_INVALID_VERSION")
                         [] OTHER -> Fail(a, "HPE_INVALID_CONSTANT")
      /\ Start(t, k) = CASE k.k = "nl" -> t
                         [] k.k = "http" /\ n # 0 -> [b EXCEPT !.version = n, !.st = "code"]
                         [] k.k = "http" /\ n = 0 -> Fail(b, "HPE_INVALID_VERSION")
                         [] OTHER -> Fail(b, "HPE_INVALID_CONSTANT")
  BY Zenon DEF Start
<1> HIDE DEF a, b, n
<1>3. Same([a EXCEPT !.version = n, !.st = "code"], [b EXCEPT !.version = n, !.st = "code"], m, u, v)
  BY <1>1 DEF Same, SameRun, IsParser, Fields
<1>4. /\ Same(Fail(a, "HPE_INVALID_VERSION"), Fail(b, "HPE_INVALID_VERSION"), m, u, v)
      /\ Same(Fail(a, "HPE_INVALID_CONSTANT"), Fail(b, "HPE_INVALID_CONSTANT"), m, u, v)
  BY <1>1, SameFail
<1> DEFINE x == [a EXCEPT !.version = n, !.st = "code"]
           y == [b EXCEPT !.version = n, !.st = "code"]
           c == Fail(a, "HPE_INVALID_VERSION")
           d == Fail(b, "HPE_INVALID_VERSION")
           e == Fail(a, "HPE_INVALID_CONSTANT")
           f == Fail(b, "HPE_INVALID_CONSTANT")
<1> HIDE DEF x, y, c, d, e, f
<1>5. Same(x, y, m, u, v) /\ Same(c, d, m, u, v) /\ Same(e, f, m, u, v)
  BY <1>3, <1>4 DEF x, y, c, d, e, f
<1>6. /\ Start(z, k) = CASE k.k = "nl" -> z
                         [] k.k = "http" /\ n # 0 -> x
                         [] k.k = "http" /\ n = 0 -> c
                         [] OTHER -> e
      /\ Start(t, k) = CASE k.k = "nl" -> t
                         [] k.k = "http" /\ n # 0 -> y
                         [] k.k = "http" /\ n = 0 -> d
                         [] OTHER -> f
  BY <1>2 DEF x, y, c, d, e, f
<1> QED
  BY <1>5, <1>6

LEMMA SameStatusCode ==
  ASSUME NEW m, NEW z, NEW t, NEW u, NEW v, Same(z, t, m, u, v), NEW k
  PROVE  Same(StatusCode(z, k), StatusCode(t, k), m, u, v)
<1>1. Same([z EXCEPT !.code = k.v, !.st = "status_start"], [t EXCEPT !.code = k.v, !.st = "status_start"],
           m, u, v)
  BY DEF Same, SameRun, IsParser, Fields
<1> QED
  BY <1>1, SameFail DEF StatusCode

LEMMA SameStatusText ==
  ASSUME NEW m \in 1 .. RespSize + 1, NEW z, NEW t, NEW u, NEW v, Same(z, t, m, u, v),
         NEW j \in 1 .. m - 1, Sound(z, j), z.st \in {"status_start", "status"}, NEW k
  PROVE  Same(StatusText(z, j, k), StatusText(t, j, k), m, u, v)
<1>1. j \in Nat \ {0} /\ j \in 1 .. m /\ t.st = z.st
  BY ResponseAssumption DEF Same, SameRun
<1>2. Same(Goto(z, "field_start"), Goto(t, "field_start"), m, u, v)
  BY SameGoto
<1>3. Same(Goto(Open(z, "status", j), "status"), Goto(Open(t, "status", j), "status"), m, u, v)
  BY SameOpen, SameGoto
<1>4. CASE z.st = "status"
  <2>1. z.span = "status"
    BY <1>4 DEF Sound, Live
  <2>2. Reportable(z, j)
    BY <1>1, <1>4, <2>1, SoundReportable
  <2>3. Same(EndSpan(z, j, "field_start"), EndSpan(t, j, "field_start"), m, u, v)
    BY <1>1, <2>2, SameEndSpan
  <2> QED
    BY <1>1, <1>4, <2>3 DEF StatusText
<1>5. CASE z.st = "status_start"
  BY <1>1, <1>2, <1>3, <1>5 DEF StatusText
<1> QED
  BY <1>4, <1>5

LEMMA SameConsume ==
  ASSUME NEW m \in 1 .. RespSize + 1, NEW z, NEW t, NEW u, NEW v, Same(z, t, m, u, v),
         NEW j \in 1 .. m - 1, Sound(z, j), z.st \in InBody, NEW st
  PROVE  Same(Consume(z, j, st), Consume(t, j, st), m, u, v)
<1> DEFINE o(p) == IF p.span = "none" THEN Open(p, "body", j) ELSE p
           a == o(z)
           b == o(t)
           d(p) == [p EXCEPT !.length = @ - 1]
<1>1. j \in Nat \ {0} /\ j + 1 \in Nat \ {0} /\ j + 1 \in 1 .. m /\ t.span = z.span /\ j \in 1 .. RespSize
  BY ResponseAssumption DEF Same, SameRun
<1>2. Same(a, b, m, u, v)
  BY <1>1, SameOpen
<1>3. Reportable(a, j + 1)
  <2>1. z.st # "error"
    BY DEF InBody
  <2>2. CASE z.span = "none"
    <3>1. Idle(z, j)
      BY <2>1, <2>2, SoundIdle
    <3>2. a.find = z.find /\ a.field = z.field /\ a.value = z.value /\ a.from = j /\ a.body = z.body
          /\ a.bodyLen = z.bodyLen
      BY <2>2 DEF Open, Same, IsParser, Fields
    <3> HIDE DEF o, a
    <3>3. Before(z.field, j + 1) /\ Before(z.value, j + 1)
      BY <1>1, <3>1, Later DEF Idle
    <3>4. a.find = NoSearch /\ Before([at |-> a.body, len |-> a.bodyLen], a.from) /\ a.from \in 1 .. j + 1
      BY <1>1, <3>1, <3>2 DEF Idle
    <3> QED
      BY <3>2, <3>3, <3>4 DEF Reportable
  <2>3. CASE z.span # "none"
    <3>1. Sound(z, j + 1)
      BY <1>1, SoundNext
    <3> QED
      BY <1>1, <2>1, <2>3, <3>1, SoundReportable
  <2> QED
    BY <2>2, <2>3
<1>4. ASSUME NEW p
      PROVE  Consume(p, j, st) = IF d(o(p)).length > 0 THEN d(o(p)) ELSE EndSpan(d(o(p)), j + 1, st)
  BY DEF Consume
<1> HIDE DEF o
<1>5. /\ Consume(z, j, st) = IF d(a).length > 0 THEN d(a) ELSE EndSpan(d(a), j + 1, st)
      /\ Consume(t, j, st) = IF d(b).length > 0 THEN d(b) ELSE EndSpan(d(b), j + 1, st)
  BY <1>4
<1> HIDE DEF a, b
<1>6. Same(d(a), d(b), m, u, v)
  BY <1>2 DEF Same, SameRun, IsParser, Fields
<1>7. /\ d(a).find = a.find /\ d(a).field = a.field /\ d(a).value = a.value /\ d(a).span = a.span
      /\ d(a).from = a.from /\ d(a).body = a.body /\ d(a).bodyLen = a.bodyLen
  BY <1>2 DEF Same, IsParser, Fields
<1> HIDE DEF d
<1>8. Reportable(d(a), j + 1)
  BY <1>3, <1>7 DEF Reportable
<1>9. Same(EndSpan(d(a), j + 1, st), EndSpan(d(b), j + 1, st), m, u, v)
  BY <1>1, <1>6, <1>8, SameEndSpan
<1>10. d(b).length = d(a).length
  BY <1>6 DEF Same, SameRun
<1> QED
  BY <1>5, <1>6, <1>9, <1>10

LEMMA SameIdentity ==
  ASSUME NEW m \in 1 .. RespSize + 1, NEW z, NEW t, NEW u, NEW v, Same(z, t, m, u, v),
         NEW j \in 1 .. m - 1, Sound(z, j), z.st = "identity"
  PROVE  Same(Identity(z, j), Identity(t, j), m, u, v)
<1> DEFINE a == Consume(z, j, "identity_done")
           b == Consume(t, j, "identity_done")
<1>1. Same(a, b, m, u, v)
  BY SameConsume DEF InBody
<1>2. /\ Identity(z, j) = IF a.st = "identity_done" THEN BodyComplete(a) ELSE a
      /\ Identity(t, j) = IF b.st = "identity_done" THEN BodyComplete(b) ELSE b
  BY DEF Identity
<1> HIDE DEF a, b
<1>3. a.st = b.st
  BY <1>1 DEF Same, SameRun
<1>4. Same(BodyComplete(a), BodyComplete(b), m, u, v)
  BY <1>1, SameComplete
<1> QED
  BY <1>1, <1>2, <1>3, <1>4

LEMMA SameChunks ==
  ASSUME NEW m, NEW z, NEW t, NEW u, NEW v, Same(z, t, m, u, v), NEW k, NEW j
  PROVE  /\ Same(UntilEof(z, j), UntilEof(t, j), m, u, v)
         /\ Same(ChunkSize(z, k), ChunkSize(t, k), m, u, v)
         /\ Same(SizeEnd(z, k), SizeEnd(t, k), m, u, v)
         /\ Same(Parameters(z, k), Parameters(t, k), m, u, v)
         /\ Same(ChunkEnd(z), ChunkEnd(t), m, u, v)
<1>1. t.span = z.span /\ t.length = z.length
  BY DEF Same, SameRun
<1>2. Same(UntilEof(z, j), UntilEof(t, j), m, u, v)
  BY <1>1, SameOpen DEF UntilEof
<1>3. Same(Fail(z, "HPE_INVALID_CHUNK_SIZE"), Fail(t, "HPE_INVALID_CHUNK_SIZE"), m, u, v)
  BY SameFail
<1>4. Same(ChunkSize(z, k), ChunkSize(t, k), m, u, v)
  <2>1. Same([z EXCEPT !.length = k.v, !.st = "size_end"], [t EXCEPT !.length = k.v, !.st = "size_end"],
             m, u, v)
    BY DEF Same, SameRun, IsParser, Fields
  <2> QED
    BY <1>3, <2>1 DEF ChunkSize
<1>5. Same(ChunkHeader(z), ChunkHeader(t), m, u, v)
  <2>1. Same([z EXCEPT !.flags = @ \cup {"trailing"}, !.st = "field_start"],
             [t EXCEPT !.flags = @ \cup {"trailing"}, !.st = "field_start"], m, u, v)
    BY DEF Same, SameRun, IsParser, Fields
  <2> QED
    BY <1>1, <2>1, SameGoto DEF ChunkHeader
<1>6. Same(SizeEnd(z, k), SizeEnd(t, k), m, u, v)
  BY <1>3, <1>5, SameGoto DEF SizeEnd
<1>7. Same(Parameters(z, k), Parameters(t, k), m, u, v)
  BY <1>5 DEF Parameters
<1>8. Same(ChunkEnd(z), ChunkEnd(t), m, u, v)
  BY DEF ChunkEnd, Same, SameRun, IsParser, Fields
<1> QED
  BY <1>2, <1>4, <1>6, <1>7, <1>8

LEMMA SameFeed ==
  ASSUME NEW m \in 1 .. RespSize + 1, NEW z, NEW t, NEW u, NEW v, Same(z, t, m, u, v),
         NEW j \in 1 .. m - 1, Sound(z, j)
  PROVE  Same(Feed(z, j), Feed(t, j), m, u, v)
<1> DEFINE k == z.buf[j]
<1>1. Same(z, t, m, u, v) /\ t.buf[j] = k
  BY DEF Same
<1>2. j \in Nat \ {0} /\ j <= RespSize
  BY ResponseAssumption
<1>3. t.st = z.st
  BY DEF Same, SameRun
<1>4. ASSUME z.st # "error", z.st \notin {"status", "field"} \cup InValue \cup InBody PROVE Idle(z, j)
  <2>1. z.span = "none"
    BY <1>4 DEF Sound, Live
  <2> QED
    BY <1>4, <2>1, SoundIdle
<1>5. z.st # "error" /\ z.st \in Named => z.field.at # 0
  BY DEF Sound, Live
<1> HIDE DEF k
<1>6. CASE z.st = "start"
  <2>1. Feed(z, j) = Start(z, k) /\ Feed(t, j) = Start(t, k)
    BY <1>1, <1>3, <1>6 DEF Feed, k
  <2> QED
    BY <1>1, <2>1, SameStart
<1>7. CASE z.st = "code"
  <2>1. Feed(z, j) = StatusCode(z, k) /\ Feed(t, j) = StatusCode(t, k)
    BY <1>1, <1>3, <1>7 DEF Feed, k
  <2> QED
    BY <1>1, <2>1, SameStatusCode
<1>8. CASE z.st \in {"status_start", "status"}
  <2>1. Feed(z, j) = StatusText(z, j, k) /\ Feed(t, j) = StatusText(t, j, k)
    BY <1>1, <1>3, <1>8 DEF Feed, k
  <2> QED
    BY <1>1, <1>2, <1>8, <2>1, SameStatusText
<1>9. CASE z.st = "field_start"
  <2>1. Feed(z, j) = FieldStart(z, j) /\ Feed(t, j) = FieldStart(t, j)
    BY <1>3, <1>9 DEF Feed
  <2> QED
    BY <1>1, <1>2, <1>4, <1>9, <2>1, SameFieldStart DEF InValue, InBody
<1>10. CASE z.st = "field"
  <2>1. Feed(z, j) = FieldName(z, j, k) /\ Feed(t, j) = FieldName(t, j, k)
    BY <1>1, <1>3, <1>10 DEF Feed, k
  <2> QED
    BY <1>1, <1>2, <1>10, <2>1, SameFieldName
<1>11. CASE z.st = "discard_ws"
  <2>1. Feed(z, j) = DiscardWs(z, j, k) /\ Feed(t, j) = DiscardWs(t, j, k)
    BY <1>1, <1>3, <1>11 DEF Feed, k
  <2> QED
    BY <1>1, <1>2, <1>4, <1>11, <2>1, SameDiscardWs DEF InValue, InBody
<1>12. CASE z.st = "discard_lws"
  <2>1. Feed(z, j) = DiscardLws(z, j, k) /\ Feed(t, j) = DiscardLws(t, j, k)
    BY <1>1, <1>3, <1>12 DEF Feed, k
  <2> QED
    BY <1>1, <1>2, <1>4, <1>5, <1>12, <2>1, SameDiscardLws DEF InValue, InBody, Named
<1>13. CASE z.st \in InValue
  <2>1. Feed(z, j) = ValueText(z, j, k) /\ Feed(t, j) = ValueText(t, j, k)
    BY <1>1, <1>3, <1>13 DEF Feed, k, InValue
  <2> QED
    BY <1>1, <1>2, <1>13, <2>1, SameValueText
<1>14. CASE z.st = "lws"
  <2>1. Feed(z, j) = Lws(z, j, k) /\ Feed(t, j) = Lws(t, j, k)
    BY <1>1, <1>3, <1>14 DEF Feed, k
  <2> QED
    BY <1>1, <1>2, <1>4, <1>14, <2>1, SameLws DEF InValue, InBody
<1>15. CASE z.st = "identity"
  <2>1. Feed(z, j) = Identity(z, j) /\ Feed(t, j) = Identity(t, j)
    BY <1>3, <1>15 DEF Feed
  <2> QED
    BY <1>1, <1>2, <1>15, <2>1, SameIdentity
<1>16. CASE z.st = "chunk"
  <2>1. Feed(z, j) = Consume(z, j, "chunk_end") /\ Feed(t, j) = Consume(t, j, "chunk_end")
    BY <1>3, <1>16 DEF Feed
  <2> QED
    BY <1>1, <1>2, <1>16, <2>1, SameConsume DEF InBody
<1>17. CASE z.st \in {"eof", "size", "size_end", "parameters", "chunk_end"}
  <2>1. /\ z.st = "eof" => Feed(z, j) = UntilEof(z, j) /\ Feed(t, j) = UntilEof(t, j)
        /\ z.st = "size" => Feed(z, j) = ChunkSize(z, k) /\ Feed(t, j) = ChunkSize(t, k)
        /\ z.st = "size_end" => Feed(z, j) = SizeEnd(z, k) /\ Feed(t, j) = SizeEnd(t, k)
        /\ z.st = "parameters" => Feed(z, j) = Parameters(z, k) /\ Feed(t, j) = Parameters(t, k)
        /\ z.st = "chunk_end" => Feed(z, j) = ChunkEnd(z) /\ Feed(t, j) = ChunkEnd(t)
    BY <1>1, <1>3 DEF Feed, k
  <2> QED
    BY <1>1, <1>17, <2>1, SameChunks
<1>18. CASE z.st \in {"closed", "error"}
  <2>1. Feed(z, j) = z /\ Feed(t, j) = t
    BY <1>3, <1>18 DEF Feed
  <2> QED
    BY <1>1, <2>1
<1>19. z.st \in States \cup {"error"}
  BY DEF Sound, Live
<1> QED
  BY <1>6, <1>7, <1>8, <1>9, <1>10, <1>11, <1>12, <1>13, <1>14, <1>15, <1>16, <1>17, <1>18, <1>19
     DEF States, Named, InBody

-----------------------------------------------------------------------------
(* A span that is reported in two pieces.                                  *)

SameTexts(z, t) ==
  /\ t.field = z.field /\ t.value = z.value /\ t.statusCode = z.statusCode /\ t.hdr = z.hdr
  /\ t.count = z.count /\ t.body = z.body /\ t.bodyLen = z.bodyLen /\ t.seen = z.seen /\ t.buf = z.buf

\* Nothing differs but the count of the header bytes and the place of the callback
\* before.
Agree(z, t) == IsParser(z) /\ IsParser(t) /\ SameRun(z, t) /\ t.from = z.from /\ SameTexts(z, t)

LEMMA AgreeIs ==
  ASSUME NEW z, NEW t, NEW u, NEW v
  PROVE  Agree(z, t) <=> Same(z, t, RespSize + 1, u, v)
<1>1. \A i : i \notin RespSize + 1 .. RespSize
  BY ResponseAssumption
<1>2. (RespSize + 1) - 1 = RespSize
  BY ResponseAssumption
<1>3. ASSUME IsParser(z), IsParser(t)
      PROVE  (\A i \in 1 .. (RespSize + 1) - 1 : t.buf[i] = z.buf[i]) <=> t.buf = z.buf
  <2>1. z.buf = [i \in 1 .. RespSize |-> z.buf[i]] /\ t.buf = [i \in 1 .. RespSize |-> t.buf[i]]
    BY <1>3 DEF IsParser
  <2> DEFINE a == z.buf
             b == t.buf
  <2> HIDE DEF a, b
  <2>2. (\A i \in 1 .. RespSize : b[i] = a[i]) <=> b = a
    BY <2>1 DEF a, b
  <2> QED
    BY <1>2, <2>2 DEF a, b
<1> DEFINE front == \A i \in 1 .. (RespSize + 1) - 1 : t.buf[i] = z.buf[i]
           tail  == \A i \in RespSize + 1 .. RespSize : z.buf[i] = u[i] /\ t.buf[i] = v[i]
<1>4. tail
  BY <1>1, Zenon
<1>5. Same(z, t, RespSize + 1, u, v) <=>
        /\ IsParser(z) /\ IsParser(t)
        /\ SameRun(z, t) /\ t.from = z.from
        /\ t.field = z.field /\ t.value = z.value /\ t.statusCode = z.statusCode /\ t.hdr = z.hdr
        /\ t.count = z.count /\ t.body = z.body /\ t.bodyLen = z.bodyLen /\ t.seen = z.seen
        /\ front /\ tail
  BY DEF Same
<1> HIDE DEF front, tail
<1>6. IsParser(z) /\ IsParser(t) => (front <=> t.buf = z.buf)
  BY <1>3 DEF front
<1> QED
  BY <1>4, <1>5, <1>6 DEF Agree, SameTexts

\* Where one leads, those that agree with it lead.
LEMMA SameAgree ==
  ASSUME NEW m \in 1 .. RespSize + 1, NEW z, NEW t, NEW a, NEW b, NEW u, NEW v,
         Same(z, t, m, u, v), Agree(z, a), Agree(t, b)
  PROVE  Same(a, b, m, u, v)
BY DEF Agree, Same, SameRun, SameTexts

\* A parser without an error whose open span began at j or before.
Opened(z, j) ==
  /\ IsParser(z) /\ ~z.failed /\ z.find = NoSearch
  /\ z.span \in {"status", "field", "value", "body"}
  /\ z.from \in 1 .. j
  /\ Before(z.field, z.from) /\ Before(z.value, z.from) /\ Before([at |-> z.body, len |-> z.bodyLen], z.from)
  /\ z.value.at # 0 => z.field.at # 0
  /\ z.span = "value" => z.field.at # 0

LEMMA SoundOpened ==
  ASSUME NEW j, NEW z, Sound(z, j), z.st # "error", z.span # "none"
  PROVE  Opened(z, j)
BY DEF Sound, Live, Opened, Named

\* f is z after the part of its open span in front of j was reported.
Behind(z, f, j) ==
  /\ IsParser(f) /\ ~f.failed /\ SameRun(z, f) /\ f.from = j
  /\ SameTexts(Report(z, j), f)

LEMMA RestBehind ==
  ASSUME NEW j \in Nat \ {0}, NEW z, Sound(z, j), z.st # "error", z.span # "none"
  PROVE  Behind(z, Rest(z, j), j)
<1> DEFINE w == Report(z, j)
           f == Rest(z, j)
<1>1. z.err = "HPE_OK"
  BY DEF Sound
<1>2. IsParser(w) /\ SameRun(z, w) /\ ~w.failed
  BY SpanReported
<1>3. f = [[w EXCEPT !.from = j] EXCEPT !.cur = j]
  BY <1>1 DEF Rest, Flush
<1>4. w = Report(z, j)
  OBVIOUS
<1> HIDE DEF w
<1>5. IsParser(f) /\ ~f.failed /\ SameRun(w, f) /\ f.from = j /\ SameTexts(w, f)
  BY <1>2, <1>3 DEF IsParser, Fields, SameRun, SameTexts
<1> HIDE DEF f
<1>6. SameRun(z, f)
  BY <1>2, <1>5 DEF SameRun
<1> QED
  BY <1>4, <1>5, <1>6 DEF Behind, f

\* Texts that grow twice, and bytes that are moved in two pieces.
LEMMA ExtendTwice ==
  ASSUME NEW loc \in Nat \ {0}, NEW t \in [at : Nat, len : Nat], NEW n \in Nat, NEW k \in Nat, NEW j, j = loc + n
  PROVE  Extend(Extend(t, loc, n), j, k) = Extend(t, loc, n + k)
BY DEF Extend

LEMMA MovedTwice ==
  ASSUME NEW b, IsBuffer(b), NEW to \in Nat, NEW loc \in Nat \ {0}, to < loc, NEW n \in Nat, NEW k \in Nat,
         loc + n + k <= RespSize + 1
  PROVE  Moved(Moved(b, to, loc, n), to + n, loc + n, k) = Moved(b, to, loc, n + k)
<1> DEFINE a == Moved(b, to, loc, n)
           c == Moved(a, to + n, loc + n, k)
           d == Moved(b, to, loc, n + k)
<1>1. IsBuffer(a) /\ \A i \in 1 .. RespSize : a[i] = IF i - to \in 0 .. n - 1 THEN b[loc + i - to] ELSE b[i]
  BY MovedIs
<1> HIDE DEF a
<1>2. /\ IsBuffer(c)
      /\ \A i \in 1 .. RespSize :
           c[i] = IF i - (to + n) \in 0 .. k - 1 THEN a[(loc + n) + i - (to + n)] ELSE a[i]
  BY <1>1, MovedIs
<1>3. /\ IsBuffer(d)
      /\ \A i \in 1 .. RespSize : d[i] = IF i - to \in 0 .. n + k - 1 THEN b[loc + i - to] ELSE b[i]
  BY MovedIs
<1> HIDE DEF c, d
<1>4. ASSUME NEW i \in 1 .. RespSize PROVE c[i] = d[i]
  <2>1. CASE i - (to + n) \in 0 .. k - 1
    <3>1. (loc + n) + i - (to + n) = loc + i - to /\ i - to \in 0 .. n + k - 1
      BY <2>1
    <3>2. c[i] = a[loc + i - to] /\ d[i] = b[loc + i - to]
      BY <1>2, <1>3, <2>1, <3>1
    <3>3. /\ loc + i - to \in 1 .. RespSize
          /\ (loc + i - to) - to \notin 0 .. n - 1
      BY <2>1, ResponseAssumption
    <3> QED
      BY <1>1, <3>2, <3>3
  <2>2. CASE i - (to + n) \notin 0 .. k - 1
    BY <1>1, <1>2, <1>3, <2>2
  <2> QED
    BY <2>1, <2>2
<1> QED
  BY <1>2, <1>3, <1>4 DEF IsBuffer, a, c, d

\* The rest of a span that was reported up to j adds to its text what one report
\* of it all adds.
LEMMA TwoReports ==
  ASSUME NEW j \in 1 .. RespSize, NEW z, NEW f, Opened(z, j), Behind(z, f, j),
         NEW p \in j .. RespSize + 1
  PROVE  LET a == Report(z, p)
             b == Report(f, p)
         IN  IsParser(a) /\ IsParser(b) /\ SameRun(z, a) /\ SameRun(a, b) /\ SameTexts(a, b)
<1> DEFINE loc == z.from
           n   == j - z.from
           k   == p - j
           l   == p - z.from
           y   == Report(z, j)
           a   == Report(z, p)
           b   == Report(f, p)
<1>1. /\ loc \in Nat \ {0} /\ n \in Nat /\ k \in Nat /\ l = n + k /\ j = loc + n /\ p = loc + l /\ p = j + k
      /\ loc \in 1 .. RespSize /\ j \in 1 .. RespSize /\ l \in Nat /\ j \in Nat \ {0}
      /\ loc + n + k <= RespSize + 1
  BY ResponseAssumption DEF Opened
<1>c. loc \in Nat \ {0} /\ n \in Nat /\ k \in Nat /\ j = loc + n /\ l = n + k
  BY <1>1
<1>2. /\ IsParser(z) /\ ~z.failed /\ ~Searching(z) /\ IsParser(f) /\ ~f.failed /\ SameRun(z, f)
      /\ f.from = j /\ SameTexts(y, f)
  BY NotSearching DEF Opened, Behind
<1>a. IsParser(z) /\ ~z.failed
  BY <1>2
<1>b. IsParser(f) /\ ~f.failed
  BY <1>2
<1>3. ~Searching(f) /\ f.span = z.span /\ f.code = z.code
  BY <1>2 DEF Searching, SameRun
<1>4. /\ z.field \in [at : Nat, len : Nat] /\ z.value \in [at : Nat, len : Nat]
      /\ z.body \in Nat /\ z.bodyLen \in Nat /\ z.body + z.bodyLen <= loc
      /\ NoText \in [at : Nat, len : Nat] /\ NoText.at = 0
      /\ z.value.at # 0 => z.field.at # 0
  BY DEF Opened, Before, NoText
<1>5. CASE z.span = "status"
  <2>1. y = OnStatus(z, loc, n) /\ a = OnStatus(z, loc, l) /\ b = OnStatus(f, j, k)
    BY <1>2, <1>3, <1>5 DEF Report
  <2> HIDE DEF y, a, b, loc, n, k, l
  <2>2. /\ IsParser(a) /\ SameRun(z, a) /\ a.hdr = z.hdr /\ a.body = z.body /\ a.bodyLen = z.bodyLen
        /\ a.buf = z.buf /\ a.statusCode = z.code /\ a.field = NoText
        /\ a.value = NoText /\ a.count = z.count /\ a.seen = z.seen
    BY <1>a, <2>1, StatusReported
  <2>3. /\ y.hdr = z.hdr /\ y.body = z.body /\ y.bodyLen = z.bodyLen
        /\ y.buf = z.buf /\ y.count = z.count /\ y.seen = z.seen
    BY <1>a, <2>1, StatusReported
  <2>4. /\ IsParser(b) /\ SameRun(f, b) /\ b.hdr = f.hdr /\ b.body = f.body /\ b.bodyLen = f.bodyLen
        /\ b.buf = f.buf /\ b.statusCode = f.code /\ b.field = NoText
        /\ b.value = NoText /\ b.count = f.count /\ b.seen = f.seen
    BY <1>b, <2>1, StatusReported
  <2>5. SameRun(a, b)
    BY <1>2, <2>2, <2>4 DEF SameRun
  <2> QED
    BY <1>2, <1>3, <2>2, <2>3, <2>4, <2>5 DEF SameTexts, a, b
<1>6. CASE z.span = "field"
  <2>1. y = OnHeaderField(z, loc, n) /\ a = OnHeaderField(z, loc, l) /\ b = OnHeaderField(f, j, k)
    BY <1>2, <1>3, <1>6 DEF Report
  <2> DEFINE grows == z.field.at = 0 \/ z.value.at = 0
             t     == IF grows THEN z.field ELSE NoText
  <2> HIDE DEF y, a, b, loc, n, k, l
  <2>2. /\ IsParser(a) /\ SameRun(z, a) /\ a.hdr = (IF z.hdr = 0 THEN loc ELSE z.hdr) /\ a.body = z.body
        /\ a.bodyLen = z.bodyLen /\ a.buf = z.buf /\ a.statusCode = z.statusCode
        /\ a.field = Extend(t, loc, l) /\ a.value = (IF grows THEN z.value ELSE NoText)
        /\ a.count = (IF grows THEN z.count ELSE z.count + 1)
        /\ a.seen = (IF grows THEN z.seen ELSE Append(z.seen, <<Text(z, z.field), Text(z, z.value)>>))
    <3> DEFINE w == OnHeaderField(z, loc, l)
    <3>1. /\ IsParser(w) /\ SameRun(z, w) /\ w.hdr = (IF z.hdr = 0 THEN loc ELSE z.hdr) /\ w.body = z.body
          /\ w.bodyLen = z.bodyLen /\ w.buf = z.buf /\ w.statusCode = z.statusCode
          /\ IF z.field.at = 0 \/ z.value.at = 0
             THEN /\ w.field = Extend(z.field, loc, l) /\ w.value = z.value
                  /\ w.count = z.count /\ w.seen = z.seen
             ELSE /\ w.field = Extend(NoText, loc, l) /\ w.value = NoText /\ w.count = z.count + 1
                  /\ w.seen = Append(z.seen, <<Text(z, z.field), Text(z, z.value)>>)
      BY <1>a, FieldReported
    <3>2. a = w
      BY <2>1
    <3> HIDE DEF w
    <3> QED
      BY <3>1, <3>2
  <2>3. /\ y.hdr = (IF z.hdr = 0 THEN loc ELSE z.hdr) /\ y.body = z.body
        /\ y.bodyLen = z.bodyLen /\ y.buf = z.buf /\ y.statusCode = z.statusCode
        /\ y.field = Extend(t, loc, n) /\ y.value = (IF grows THEN z.value ELSE NoText)
        /\ y.count = (IF grows THEN z.count ELSE z.count + 1)
        /\ y.seen = (IF grows THEN z.seen ELSE Append(z.seen, <<Text(z, z.field), Text(z, z.value)>>))
    <3> DEFINE w == OnHeaderField(z, loc, n)
    <3>1. /\ IsParser(w) /\ SameRun(z, w) /\ w.hdr = (IF z.hdr = 0 THEN loc ELSE z.hdr) /\ w.body = z.body
          /\ w.bodyLen = z.bodyLen /\ w.buf = z.buf /\ w.statusCode = z.statusCode
          /\ IF z.field.at = 0 \/ z.value.at = 0
             THEN /\ w.field = Extend(z.field, loc, n) /\ w.value = z.value
                  /\ w.count = z.count /\ w.seen = z.seen
             ELSE /\ w.field = Extend(NoText, loc, n) /\ w.value = NoText /\ w.count = z.count + 1
                  /\ w.seen = Append(z.seen, <<Text(z, z.field), Text(z, z.value)>>)
      BY <1>a, FieldReported
    <3>2. y = w
      BY <2>1
    <3> HIDE DEF w
    <3> QED
      BY <3>1, <3>2
  <2>4. f.value.at = 0 /\ f.hdr # 0
    <3>1. z.value.at = 0 \/ ~grows
      BY <1>4
    <3> QED
      BY <1>1, <1>2, <1>4, <2>3, <3>1 DEF SameTexts
  <2>5. /\ IsParser(b) /\ SameRun(f, b) /\ b.hdr = f.hdr /\ b.body = f.body /\ b.bodyLen = f.bodyLen
        /\ b.buf = f.buf /\ b.statusCode = f.statusCode /\ b.field = Extend(f.field, j, k)
        /\ b.value = f.value /\ b.count = f.count /\ b.seen = f.seen
    BY <1>b, <2>1, <2>4, FieldReported
  <2>6. Extend(f.field, j, k) = Extend(t, loc, l)
    <3>1. t \in [at : Nat, len : Nat]
      BY <1>4
    <3>2. f.field = Extend(t, loc, n)
      BY <1>2, <2>3 DEF SameTexts
    <3> HIDE DEF t
    <3>3. Extend(Extend(t, loc, n), j, k) = Extend(t, loc, n + k)
      BY <1>c, <3>1, ExtendTwice
    <3> QED
      BY <1>c, <3>2, <3>3, Zenon
  <2>7. SameRun(a, b)
    BY <1>2, <2>2, <2>5 DEF SameRun
  <2>8. SameTexts(a, b)
    <3> HIDE DEF t, grows
    <3> QED
      BY <1>2, <2>2, <2>3, <2>5, <2>6 DEF SameTexts
  <2> QED
    BY <2>2, <2>5, <2>7, <2>8 DEF a, b
<1>7. CASE z.span = "value"
  <2>1. y = OnHeaderValue(z, loc, n) /\ a = OnHeaderValue(z, loc, l) /\ b = OnHeaderValue(f, j, k)
    BY <1>2, <1>3, <1>7 DEF Report
  <2> HIDE DEF y, a, b, loc, n, k, l
  <2>2. z.field.at # 0
    BY <1>7 DEF Opened
  <2>3. /\ IsParser(a) /\ SameRun(z, a) /\ a.hdr = z.hdr /\ a.body = z.body /\ a.bodyLen = z.bodyLen
        /\ a.buf = z.buf /\ a.statusCode = z.statusCode /\ a.field = z.field
        /\ a.value = Extend(z.value, loc, l) /\ a.count = z.count /\ a.seen = z.seen
    BY <1>a, <2>1, <2>2, ValueReported
  <2>4. /\ y.hdr = z.hdr /\ y.body = z.body /\ y.bodyLen = z.bodyLen
        /\ y.buf = z.buf /\ y.statusCode = z.statusCode /\ y.field = z.field
        /\ y.value = Extend(z.value, loc, n) /\ y.count = z.count /\ y.seen = z.seen
    BY <1>a, <2>1, <2>2, ValueReported
  <2>5. f.field.at # 0
    BY <1>2, <2>2, <2>4 DEF SameTexts
  <2>6. /\ IsParser(b) /\ SameRun(f, b) /\ b.hdr = f.hdr /\ b.body = f.body /\ b.bodyLen = f.bodyLen
        /\ b.buf = f.buf /\ b.statusCode = f.statusCode /\ b.field = f.field
        /\ b.value = Extend(f.value, j, k) /\ b.count = f.count /\ b.seen = f.seen
    BY <1>b, <2>1, <2>5, ValueReported
  <2>7. Extend(f.value, j, k) = Extend(z.value, loc, l)
    <3>1. f.value = Extend(z.value, loc, n)
      BY <1>2, <2>4 DEF SameTexts
    <3>2. Extend(Extend(z.value, loc, n), j, k) = Extend(z.value, loc, n + k)
      <4>1. z.value \in [at : Nat, len : Nat]
        BY <1>4
      <4>2. ASSUME NEW v \in [at : Nat, len : Nat]
            PROVE  Extend(Extend(v, loc, n), j, k) = Extend(v, loc, n + k)
        BY <1>c, ExtendTwice
      <4> QED
        BY <4>1, <4>2
    <3> QED
      BY <1>c, <3>1, <3>2, Zenon
  <2>8. SameRun(a, b)
    BY <1>2, <2>3, <2>6 DEF SameRun
  <2>9. SameTexts(a, b)
    BY <1>2, <2>3, <2>4, <2>6, <2>7 DEF SameTexts
  <2> QED
    BY <2>3, <2>6, <2>8, <2>9 DEF a, b
<1>8. CASE z.span = "body"
  <2>1. y = OnBody(z, loc, n) /\ a = OnBody(z, loc, l) /\ b = OnBody(f, j, k)
    BY <1>2, <1>3, <1>8 DEF Report
  <2> DEFINE next  == IF z.body = 0 THEN loc ELSE z.body + z.bodyLen
             after == IF f.body = 0 THEN j ELSE f.body + f.bodyLen
             len   == IF z.body = 0 THEN n ELSE z.bodyLen + n
  <2> HIDE DEF y, a, b, loc, n, k, l
  <2>2. /\ IsParser(a) /\ SameRun(z, a) /\ a.hdr = z.hdr /\ a.body = (IF z.body = 0 THEN loc ELSE z.body)
        /\ a.bodyLen = (IF z.body = 0 THEN l ELSE z.bodyLen + l)
        /\ a.buf = (IF loc > next THEN Moved(z.buf, next, loc, l) ELSE z.buf)
        /\ a.statusCode = z.statusCode /\ a.field = z.field
        /\ a.value = z.value /\ a.count = z.count /\ a.seen = z.seen
    BY <1>1, <1>a, <2>1, BodyReported
  <2>3. /\ y.hdr = z.hdr /\ y.body = (IF z.body = 0 THEN loc ELSE z.body) /\ y.bodyLen = len
        /\ y.buf = (IF loc > next THEN Moved(z.buf, next, loc, n) ELSE z.buf)
        /\ y.statusCode = z.statusCode /\ y.field = z.field
        /\ y.value = z.value /\ y.count = z.count /\ y.seen = z.seen
    BY <1>1, <1>a, <2>1, BodyReported
  <2>4. /\ IsParser(b) /\ SameRun(f, b) /\ b.hdr = f.hdr /\ b.body = (IF f.body = 0 THEN j ELSE f.body)
        /\ b.bodyLen = (IF f.body = 0 THEN k ELSE f.bodyLen + k)
        /\ b.buf = (IF j > after THEN Moved(f.buf, after, j, k) ELSE f.buf)
        /\ b.statusCode = f.statusCode /\ b.field = f.field
        /\ b.value = f.value /\ b.count = f.count /\ b.seen = f.seen
    BY <1>1, <1>b, <2>1, BodyReported
  <2>5. f.body = (IF z.body = 0 THEN loc ELSE z.body) /\ f.body # 0 /\ f.bodyLen = len
        /\ f.buf = (IF loc > next THEN Moved(z.buf, next, loc, n) ELSE z.buf)
    <3> HIDE DEF next, len
    <3> QED
      BY <1>1, <1>2, <2>3 DEF SameTexts
  <2>6. next \in Nat /\ after = next + n /\ (j > after <=> loc > next)
    BY <1>1, <1>4, <2>5
  <2>7. b.body = a.body /\ b.bodyLen = a.bodyLen
    BY <1>1, <1>4, <2>2, <2>4, <2>5
  <2>8. b.buf = a.buf
    <3>1. IsBuffer(z.buf)
      BY <1>2 DEF IsParser, IsBuffer
    <3> HIDE DEF next, after, len
    <3>2. CASE loc > next
      <4>1. Moved(Moved(z.buf, next, loc, n), next + n, loc + n, k) = Moved(z.buf, next, loc, n + k)
        <5>1. next < loc
          BY <1>1, <2>6, <3>2
        <5> QED
          BY <1>1, <2>6, <3>1, <5>1, MovedTwice
      <4>2. f.buf = Moved(z.buf, next, loc, n) /\ b.buf = Moved(f.buf, after, j, k)
            /\ a.buf = Moved(z.buf, next, loc, l)
        BY <2>2, <2>4, <2>5, <2>6, <3>2
      <4> QED
        BY <1>1, <2>6, <4>1, <4>2
    <3>3. CASE ~(loc > next)
      BY <2>2, <2>4, <2>5, <2>6, <3>3
    <3> QED
      BY <3>2, <3>3
  <2>9. SameRun(a, b)
    BY <1>2, <2>2, <2>4 DEF SameRun
  <2>10. SameTexts(a, b)
    <3> HIDE DEF next, after, len
    <3> QED
      BY <1>2, <2>2, <2>3, <2>4, <2>7, <2>8 DEF SameTexts
  <2> QED
    BY <2>2, <2>4, <2>9, <2>10 DEF a, b
<1> QED
  BY <1>5, <1>6, <1>7, <1>8 DEF Opened

\* So the span ends the same, now
LEMMA BehindEnd ==
  ASSUME NEW j \in 1 .. RespSize, NEW z, NEW f, Opened(z, j), Behind(z, f, j),
         NEW p \in j .. RespSize + 1, NEW st
  PROVE  Agree(EndSpan(z, p, st), EndSpan(f, p, st))
<1> DEFINE a == Report(z, p)
           b == Report(f, p)
           next == IF a.err = "HPE_OK" THEN st ELSE "error"
           x == [a EXCEPT !.span = "none", !.from = 0, !.st = next]
           y == [b EXCEPT !.span = "none", !.from = 0, !.st = next]
<1>1. IsParser(a) /\ IsParser(b) /\ SameRun(a, b) /\ SameTexts(a, b)
  BY TwoReports
<1>2. EndSpan(z, p, st) = x /\ EndSpan(f, p, st) = y
  BY <1>1 DEF EndSpan, SameRun
<1> HIDE DEF a, b, next
<1>3. Agree(x, y)
  BY <1>1 DEF Agree, SameRun, SameTexts, IsParser, Fields
<1> QED
  BY <1>2, <1>3

\* or at the end of the receive.
LEMMA BehindRest ==
  ASSUME NEW j \in 1 .. RespSize, NEW z, NEW f, Opened(z, j), Behind(z, f, j), z.err = "HPE_OK",
         NEW p \in j .. RespSize + 1
  PROVE  Agree(Rest(z, p), Rest(f, p))
<1> DEFINE a == Report(z, p)
           b == Report(f, p)
           x == [[a EXCEPT !.from = p] EXCEPT !.cur = p]
           y == [[b EXCEPT !.from = p] EXCEPT !.cur = p]
<1>1. IsParser(a) /\ IsParser(b) /\ SameRun(a, b) /\ SameTexts(a, b)
  BY TwoReports
<1>2. z.span # "none" /\ f.span = z.span /\ f.err = z.err
  BY DEF Opened, Behind, SameRun
<1>3. Rest(z, p) = x /\ Rest(f, p) = y
  BY <1>2 DEF Rest, Flush
<1> HIDE DEF a, b
<1>4. Agree(x, y)
  BY <1>1 DEF Agree, SameRun, SameTexts, IsParser, Fields
<1> QED
  BY <1>3, <1>4

\* t differs from z in nothing that a report is made of.
Keeps(z, t) ==
  /\ IsParser(t) /\ t.span = z.span /\ t.from = z.from /\ t.code = z.code /\ t.find = z.find
  /\ t.failed = z.failed /\ SameTexts(z, t)

LEMMA KeepsReport ==
  ASSUME NEW j \in 1 .. RespSize, NEW w, NEW t, Opened(w, j), Keeps(w, t)
  PROVE  SameTexts(Report(w, j), Report(t, j))
<1> DEFINE loc == w.from
           n   == j - w.from
           a   == Report(w, j)
           b   == Report(t, j)
<1>1. /\ IsParser(w) /\ ~w.failed /\ ~Searching(w) /\ loc \in 1 .. RespSize
      /\ IsParser(t) /\ ~t.failed /\ t.span = w.span /\ t.from = w.from /\ t.code = w.code
      /\ SameTexts(w, t)
  BY NotSearching, ResponseAssumption DEF Opened, Keeps
<1>2. ~Searching(t)
  BY <1>1 DEF Searching, Keeps
<1>a. IsParser(w) /\ ~w.failed
  BY <1>1
<1>b. IsParser(t) /\ ~t.failed
  BY <1>1
<1>3. CASE w.span = "status"
  <2>1. a = OnStatus(w, loc, n) /\ b = OnStatus(t, loc, n)
    BY <1>1, <1>2, <1>3 DEF Report
  <2> HIDE DEF a, b, loc, n
  <2>2. SameTexts(OnStatus(w, loc, n), OnStatus(t, loc, n))
    BY <1>1 DEF OnStatus, SameTexts, IsParser, Fields
  <2> QED
    BY <2>1, <2>2 DEF a, b
<1>4. CASE w.span = "field"
  <2>1. a = OnHeaderField(w, loc, n) /\ b = OnHeaderField(t, loc, n)
    BY <1>1, <1>2, <1>4 DEF Report
  <2> HIDE DEF a, b, loc, n
  <2> DEFINE x == OnHeaderField(w, loc, n)
             y == OnHeaderField(t, loc, n)
  <2>2. /\ x.hdr = (IF w.hdr = 0 THEN loc ELSE w.hdr) /\ x.body = w.body
        /\ x.bodyLen = w.bodyLen /\ x.buf = w.buf /\ x.statusCode = w.statusCode
        /\ IF w.field.at = 0 \/ w.value.at = 0
           THEN /\ x.field = Extend(w.field, loc, n) /\ x.value = w.value
                /\ x.count = w.count /\ x.seen = w.seen
           ELSE /\ x.field = Extend(NoText, loc, n) /\ x.value = NoText /\ x.count = w.count + 1
                /\ x.seen = Append(w.seen, <<Text(w, w.field), Text(w, w.value)>>)
    BY <1>a, FieldReported
  <2>3. /\ y.hdr = (IF t.hdr = 0 THEN loc ELSE t.hdr) /\ y.body = t.body
        /\ y.bodyLen = t.bodyLen /\ y.buf = t.buf /\ y.statusCode = t.statusCode
        /\ IF t.field.at = 0 \/ t.value.at = 0
           THEN /\ y.field = Extend(t.field, loc, n) /\ y.value = t.value
                /\ y.count = t.count /\ y.seen = t.seen
           ELSE /\ y.field = Extend(NoText, loc, n) /\ y.value = NoText /\ y.count = t.count + 1
                /\ y.seen = Append(t.seen, <<Text(t, t.field), Text(t, t.value)>>)
    BY <1>b, FieldReported
  <2>4. Text(t, t.field) = Text(w, w.field) /\ Text(t, t.value) = Text(w, w.value)
    BY <1>1 DEF Text, SameTexts
  <2> HIDE DEF x, y
  <2>5. SameTexts(x, y)
    BY <1>1, <2>2, <2>3, <2>4 DEF SameTexts
  <2> QED
    BY <2>1, <2>5 DEF a, b, x, y
<1>5. CASE w.span = "value"
  <2>1. a = OnHeaderValue(w, loc, n) /\ b = OnHeaderValue(t, loc, n)
    BY <1>1, <1>2, <1>5 DEF Report
  <2> HIDE DEF a, b, loc, n
  <2>2. SameTexts(OnHeaderValue(w, loc, n), OnHeaderValue(t, loc, n))
    BY <1>1 DEF OnHeaderValue, Asserted, SameTexts, IsParser, Fields
  <2> QED
    BY <2>1, <2>2 DEF a, b
<1>6. CASE w.span = "body"
  <2>1. a = OnBody(w, loc, n) /\ b = OnBody(t, loc, n)
    BY <1>1, <1>2, <1>6 DEF Report
  <2> HIDE DEF a, b, n
  <2> DEFINE x == OnBody(w, loc, n)
             y == OnBody(t, loc, n)
             to(z) == IF z.body = 0 THEN loc ELSE z.body + z.bodyLen
  <2>2. /\ x.hdr = w.hdr /\ x.body = (IF w.body = 0 THEN loc ELSE w.body)
        /\ x.bodyLen = (IF w.body = 0 THEN n ELSE w.bodyLen + n)
        /\ x.buf = (IF loc > to(w) THEN Moved(w.buf, to(w), loc, n) ELSE w.buf)
        /\ x.statusCode = w.statusCode /\ x.field = w.field
        /\ x.value = w.value /\ x.count = w.count /\ x.seen = w.seen
    BY <1>1, <1>a, BodyReported
  <2>3. /\ y.hdr = t.hdr /\ y.body = (IF t.body = 0 THEN loc ELSE t.body)
        /\ y.bodyLen = (IF t.body = 0 THEN n ELSE t.bodyLen + n)
        /\ y.buf = (IF loc > to(t) THEN Moved(t.buf, to(t), loc, n) ELSE t.buf)
        /\ y.statusCode = t.statusCode /\ y.field = t.field
        /\ y.value = t.value /\ y.count = t.count /\ y.seen = t.seen
    BY <1>1, <1>b, BodyReported
  <2>4. to(t) = to(w)
    BY <1>1 DEF SameTexts
  <2> HIDE DEF x, y, to, loc
  <2>5. SameTexts(x, y)
    BY <1>1, <2>2, <2>3, <2>4 DEF SameTexts
  <2> QED
    BY <2>1, <2>5 DEF a, b, x, y
<1> QED
  BY <1>3, <1>4, <1>5, <1>6 DEF Opened

\* A step that changes none of that leaves one parser behind the other.
LEMMA StaysBehind ==
  ASSUME NEW j \in 1 .. RespSize, NEW z, NEW f, Opened(z, j), Behind(z, f, j),
         NEW a, NEW b, Keeps(z, a), Keeps(f, b), SameRun(a, b)
  PROVE  Opened(a, j) /\ Behind(a, b, j)
<1>1. Opened(a, j)
  BY DEF Opened, Keeps, SameTexts
<1>2. SameTexts(Report(z, j), Report(a, j))
  BY KeepsReport
<1>3. IsParser(b) /\ ~b.failed /\ b.from = j /\ SameTexts(Report(z, j), b)
  BY DEF Behind, Keeps, SameTexts
<1>4. SameTexts(Report(a, j), b)
  BY <1>2, <1>3 DEF SameTexts
<1> QED
  BY <1>1, <1>3, <1>4 DEF Behind

-----------------------------------------------------------------------------
(* One token for a parser and for one that is behind it.                   *)

\* Then one is still behind the other, they agree, or they have found the same
\* error.
Settled(a, b, j) ==
  \/ Opened(a, j) /\ Behind(a, b, j)
  \/ Agree(a, b)
  \/ IsParser(a) /\ IsParser(b) /\ SameRun(a, b) /\ a.err # "HPE_OK"

LEMMA AgreeFail == ASSUME NEW z, NEW t, Agree(z, t), NEW err PROVE Agree(Fail(z, err), Fail(t, err))
BY DEF Agree, SameRun, SameTexts, IsParser, Fields, Fail

LEMMA AgreeComplete == ASSUME NEW z, NEW t, Agree(z, t) PROVE Agree(BodyComplete(z), BodyComplete(t))
<1>1. Same(z, t, RespSize + 1, <<>>, <<>>)
  BY AgreeIs
<1>2. Same(BodyComplete(z), BodyComplete(t), RespSize + 1, <<>>, <<>>)
  BY <1>1, SameComplete
<1> QED
  BY <1>2, AgreeIs

\* Errors that leave the span as it is.
LEMMA FailSettled ==
  ASSUME NEW j, NEW z, NEW f, Opened(z, j), Behind(z, f, j), NEW err, err # "HPE_OK"
  PROVE  Settled(Fail(z, err), Fail(f, err), j)
<1>1. IsParser(z) /\ IsParser(f) /\ SameRun(z, f)
  BY DEF Opened, Behind
<1> DEFINE a == Fail(z, err)
           b == Fail(f, err)
<1>2. IsParser(a) /\ IsParser(b) /\ SameRun(a, b) /\ a.err # "HPE_OK"
  BY <1>1 DEF Fail, SameRun, IsParser, Fields
<1> QED
  BY <1>2 DEF Settled

LEMMA WordSettled ==
  ASSUME NEW j \in 1 .. RespSize, NEW z, NEW f, Opened(z, j), Behind(z, f, j), f.buf[j] = z.buf[j],
         z.st \in InValue
  PROVE  Settled(Word(z, j), Word(f, j), j)
<1> DEFINE v == z.buf[j].v
<1>1. IsParser(z) /\ IsParser(f) /\ SameRun(z, f) /\ j + 1 \in j .. RespSize + 1
  BY ResponseAssumption DEF Opened, Behind
<1>2. f.buf[j].v = v /\ f.st = z.st
  BY <1>1 DEF SameRun
<1> HIDE DEF v
<1>3. CASE z.st = "length"
  <2>1. Word(z, j) = Digit(z, j, v) /\ Word(f, j) = Digit(f, j, v)
    BY <1>2, <1>3 DEF Word, v
  <2> DEFINE n == z.length * 10 + v
             x == [z EXCEPT !.length = n]
             y == [f EXCEPT !.length = n]
             e == EndSpan(z, j + 1, "error")
             g == EndSpan(f, j + 1, "error")
  <2>2. Agree(e, g)
    BY <1>1, BehindEnd
  <2>3. /\ Digit(z, j, v) = IF n > MaxLength THEN Fail(e, "HPE_INVALID_CONTENT_LENGTH") ELSE x
        /\ Digit(f, j, v) = IF n > MaxLength THEN Fail(g, "HPE_INVALID_CONTENT_LENGTH") ELSE y
    BY <1>1 DEF Digit, SameRun
  <2> HIDE DEF n, e, g
  <2>4. Agree(Fail(e, "HPE_INVALID_CONTENT_LENGTH"), Fail(g, "HPE_INVALID_CONTENT_LENGTH"))
    BY <2>2, AgreeFail
  <2>5. Keeps(z, x) /\ Keeps(f, y) /\ SameRun(x, y)
    BY <1>1 DEF Keeps, SameTexts, SameRun, IsParser, Fields
  <2> HIDE DEF x, y
  <2>6. Opened(x, j) /\ Behind(x, y, j)
    BY <2>5, StaysBehind
  <2> QED
    BY <2>1, <2>3, <2>4, <2>6 DEF Settled
<1>4. CASE z.st = "connection"
  <2>1. Word(z, j) = ConnectionWord(z, v) /\ Word(f, j) = ConnectionWord(f, v)
    BY <1>2, <1>4 DEF Word, v
  <2> DEFINE next == IF v \in {KeepAlive, Closing, Switching} THEN v ELSE Connection
             g(p) == [Flagged(p) EXCEPT !.header = next]
  <2>2. ConnectionWord(z, v) = g(z) /\ ConnectionWord(f, v) = g(f)
    BY DEF ConnectionWord
  <2> HIDE DEF next
  <2>3. Keeps(z, Flagged(z)) /\ Keeps(f, Flagged(f)) /\ SameRun(Flagged(z), Flagged(f))
    BY <1>1 DEF Flagged, Keeps, SameTexts, SameRun, IsParser, Fields
  <2>4. ASSUME NEW a, NEW b, Keeps(z, a), Keeps(f, b), SameRun(a, b)
        PROVE  /\ Keeps(z, [a EXCEPT !.header = next]) /\ Keeps(f, [b EXCEPT !.header = next])
               /\ SameRun([a EXCEPT !.header = next], [b EXCEPT !.header = next])
    BY <2>4 DEF Keeps, SameTexts, SameRun, IsParser, Fields
  <2>5. Keeps(z, g(z)) /\ Keeps(f, g(f)) /\ SameRun(g(z), g(f))
    BY <2>3, <2>4
  <2> HIDE DEF g
  <2>6. Opened(g(z), j) /\ Behind(g(z), g(f), j)
    BY <2>5, StaysBehind
  <2> QED
    BY <2>1, <2>2, <2>6 DEF Settled
<1>5. CASE z.st = "encoding"
  <2>1. Word(z, j) = EncodingWord(z, v) /\ Word(f, j) = EncodingWord(f, v)
    BY <1>2, <1>5 DEF Word, v
  <2> DEFINE next == IF v = Chunked THEN Chunked ELSE General
             g(p) == [p EXCEPT !.header = next]
  <2>2. EncodingWord(z, v) = g(z) /\ EncodingWord(f, v) = g(f)
    BY DEF EncodingWord
  <2> HIDE DEF next
  <2>3. Keeps(z, g(z)) /\ Keeps(f, g(f)) /\ SameRun(g(z), g(f))
    BY <1>1 DEF Keeps, SameTexts, SameRun, IsParser, Fields
  <2> HIDE DEF g
  <2>4. Opened(g(z), j) /\ Behind(g(z), g(f), j)
    BY <2>3, StaysBehind
  <2> QED
    BY <2>1, <2>2, <2>4 DEF Settled
<1>6. CASE z.st = "value"
  <2>1. Word(z, j) = z /\ Word(f, j) = f
    BY <1>2, <1>6 DEF Word
  <2> QED
    BY <2>1 DEF Settled
<1> QED
  BY <1>3, <1>4, <1>5, <1>6 DEF InValue

LEMMA BadValueSettled ==
  ASSUME NEW j \in 1 .. RespSize, NEW z, NEW f, Opened(z, j), Behind(z, f, j)
  PROVE  Settled(BadValue(z, j), BadValue(f, j), j)
<1>1. f.header = z.header /\ j \in j .. RespSize + 1
  BY ResponseAssumption DEF Behind, SameRun
<1>2. Agree(EndSpan(z, j, "error"), EndSpan(f, j, "error"))
  BY <1>1, BehindEnd
<1>3. Agree(Fail(EndSpan(z, j, "error"), "HPE_INVALID_CONTENT_LENGTH"),
            Fail(EndSpan(f, j, "error"), "HPE_INVALID_CONTENT_LENGTH"))
  BY <1>2, AgreeFail
<1>4. Settled(Fail(z, "HPE_INVALID_HEADER_TOKEN"), Fail(f, "HPE_INVALID_HEADER_TOKEN"), j)
  BY FailSettled
<1>5. CASE z.header = Length
  BY <1>1, <1>3, <1>5 DEF BadValue, Settled
<1>6. CASE z.header # Length
  BY <1>1, <1>4, <1>6 DEF BadValue
<1> QED
  BY <1>5, <1>6

LEMMA ValueTextSettled ==
  ASSUME NEW j \in 1 .. RespSize, NEW z, NEW f, Opened(z, j), Behind(z, f, j), f.buf[j] = z.buf[j],
         z.st \in InValue, NEW k
  PROVE  Settled(ValueText(z, j, k), ValueText(f, j, k), j)
<1> DEFINE flags == IF z.st = "length" THEN z.flags \cup {"length"} ELSE z.flags
           a == [z EXCEPT !.flags = flags]
           b == [f EXCEPT !.flags = flags]
<1>1. IsParser(z) /\ IsParser(f) /\ SameRun(z, f) /\ j \in j .. RespSize + 1
  BY ResponseAssumption DEF Opened, Behind
<1>2. /\ ValueText(z, j, k) = CASE k.k = "value" -> Word(z, j) [] k.k = "nl" -> EndSpan(a, j, "lws")
                                [] OTHER -> BadValue(z, j)
      /\ ValueText(f, j, k) = CASE k.k = "value" -> Word(f, j) [] k.k = "nl" -> EndSpan(b, j, "lws")
                                [] OTHER -> BadValue(f, j)
  <2> DEFINE g(p) == [p EXCEPT !.flags = IF p.st = "length" THEN @ \cup {"length"} ELSE @]
  <2>1. a = g(z) /\ b = g(f)
    BY <1>1 DEF SameRun, IsParser, Fields
  <2>2. /\ ValueText(z, j, k) = CASE k.k = "value" -> Word(z, j) [] k.k = "nl" -> EndSpan(g(z), j, "lws")
                                  [] OTHER -> BadValue(z, j)
        /\ ValueText(f, j, k) = CASE k.k = "value" -> Word(f, j) [] k.k = "nl" -> EndSpan(g(f), j, "lws")
                                  [] OTHER -> BadValue(f, j)
    BY Zenon DEF ValueText
  <2> HIDE DEF a, b, g
  <2> QED
    BY <2>1, <2>2, Zenon
<1> HIDE DEF flags
<1>3. Keeps(z, a) /\ Keeps(f, b) /\ SameRun(a, b)
  BY <1>1 DEF Keeps, SameTexts, SameRun, IsParser, Fields
<1> HIDE DEF a, b
<1>4. Opened(a, j) /\ Behind(a, b, j)
  BY <1>3, StaysBehind
<1>5. Agree(EndSpan(a, j, "lws"), EndSpan(b, j, "lws"))
  BY <1>1, <1>4, BehindEnd
<1>6. Settled(EndSpan(a, j, "lws"), EndSpan(b, j, "lws"), j)
  BY <1>5 DEF Settled
<1>7. Settled(Word(z, j), Word(f, j), j) /\ Settled(BadValue(z, j), BadValue(f, j), j)
  BY WordSettled, BadValueSettled
<1> QED
  BY <1>2, <1>6, <1>7

LEMMA ConsumeSettled ==
  ASSUME NEW j \in 1 .. RespSize, NEW z, NEW f, Opened(z, j), Behind(z, f, j), NEW st
  PROVE  \/ /\ Opened(Consume(z, j, st), j) /\ Behind(Consume(z, j, st), Consume(f, j, st), j)
            /\ Consume(z, j, st).st = z.st
         \/ Agree(Consume(z, j, st), Consume(f, j, st))
<1> DEFINE a == [z EXCEPT !.length = @ - 1]
           b == [f EXCEPT !.length = @ - 1]
<1>1. IsParser(z) /\ IsParser(f) /\ SameRun(z, f) /\ j + 1 \in j .. RespSize + 1 /\ z.span # "none"
  BY ResponseAssumption DEF Opened, Behind
<1>2. f.span # "none"
  BY <1>1 DEF SameRun
<1>3. /\ Consume(z, j, st) = IF a.length > 0 THEN a ELSE EndSpan(a, j + 1, st)
      /\ Consume(f, j, st) = IF b.length > 0 THEN b ELSE EndSpan(b, j + 1, st)
  BY <1>1, <1>2 DEF Consume
<1>4. Keeps(z, a) /\ Keeps(f, b) /\ SameRun(a, b) /\ a.st = z.st
  BY <1>1 DEF Keeps, SameTexts, SameRun, IsParser, Fields
<1> HIDE DEF a, b
<1>5. Opened(a, j) /\ Behind(a, b, j)
  BY <1>4, StaysBehind
<1>6. Agree(EndSpan(a, j + 1, st), EndSpan(b, j + 1, st))
  BY <1>1, <1>5, BehindEnd
<1>7. b.length = a.length
  BY <1>4 DEF SameRun
<1> QED
  BY <1>3, <1>4, <1>5, <1>6, <1>7

LEMMA IdentitySettled ==
  ASSUME NEW j \in 1 .. RespSize, NEW z, NEW f, Opened(z, j), Behind(z, f, j), z.st = "identity"
  PROVE  Settled(Identity(z, j), Identity(f, j), j)
<1> DEFINE a == Consume(z, j, "identity_done")
           b == Consume(f, j, "identity_done")
<1>1. /\ Identity(z, j) = IF a.st = "identity_done" THEN BodyComplete(a) ELSE a
      /\ Identity(f, j) = IF b.st = "identity_done" THEN BodyComplete(b) ELSE b
  BY DEF Identity
<1>2. (Opened(a, j) /\ Behind(a, b, j) /\ a.st = "identity") \/ Agree(a, b)
  BY ConsumeSettled
<1> HIDE DEF a, b
<1>3. a.st = b.st
  BY <1>2 DEF Behind, Agree, SameRun
<1>4. CASE Opened(a, j) /\ Behind(a, b, j) /\ a.st = "identity"
  BY <1>1, <1>3, <1>4 DEF Settled
<1>5. CASE Agree(a, b)
  BY <1>1, <1>3, <1>5, AgreeComplete DEF Settled
<1> QED
  BY <1>2, <1>4, <1>5

\* All states with an open span.
LEMMA FeedSettled ==
  ASSUME NEW j \in 1 .. RespSize, NEW z, NEW f, Sound(z, j), z.st # "error", z.span # "none",
         Behind(z, f, j), f.buf[j] = z.buf[j]
  PROVE  Settled(Feed(z, j), Feed(f, j), j)
<1> DEFINE k == z.buf[j]
<1>1. Opened(z, j) /\ Live(z, j) /\ j \in j .. RespSize + 1
  BY SoundOpened, ResponseAssumption DEF Sound
<1>2. f.st = z.st /\ f.buf[j] = k /\ f.span = z.span
  BY DEF Behind, SameRun
<1>3. Settled(z, f, j)
  BY <1>1 DEF Settled
<1> HIDE DEF k
<1>4. CASE z.span = "status"
  <2>1. z.st = "status"
    BY <1>1, <1>4 DEF Live
  <2>2. Feed(z, j) = StatusText(z, j, k) /\ Feed(f, j) = StatusText(f, j, k)
    BY <1>2, <2>1 DEF Feed, k
  <2>3. /\ StatusText(z, j, k) = IF k.k = "nl" THEN EndSpan(z, j, "field_start") ELSE z
        /\ StatusText(f, j, k) = IF k.k = "nl" THEN EndSpan(f, j, "field_start") ELSE f
    BY <1>2, <2>1 DEF StatusText
  <2>4. Agree(EndSpan(z, j, "field_start"), EndSpan(f, j, "field_start"))
    BY <1>1, BehindEnd
  <2> QED
    BY <1>3, <2>2, <2>3, <2>4 DEF Settled
<1>5. CASE z.span = "field"
  <2>1. z.st = "field"
    BY <1>1, <1>5 DEF Live
  <2>2. Feed(z, j) = FieldName(z, j, k) /\ Feed(f, j) = FieldName(f, j, k)
    BY <1>2, <2>1 DEF Feed, k
  <2>3. Settled(EndSpan(z, j, "discard_ws"), EndSpan(f, j, "discard_ws"), j)
    BY <1>1, BehindEnd DEF Settled
  <2>4. Settled(Fail(z, "HPE_INVALID_HEADER_TOKEN"), Fail(f, "HPE_INVALID_HEADER_TOKEN"), j)
    BY <1>1, FailSettled
  <2> QED
    BY <1>3, <2>2, <2>3, <2>4 DEF FieldName
<1>6. CASE z.span = "value"
  <2>1. z.st \in InValue
    BY <1>1, <1>6 DEF Live
  <2>2. Feed(z, j) = ValueText(z, j, k) /\ Feed(f, j) = ValueText(f, j, k)
    BY <1>2, <2>1 DEF Feed, k, InValue
  <2> QED
    BY <1>1, <2>1, <2>2, ValueTextSettled
<1>7. CASE z.span = "body" /\ z.st = "identity"
  <2>1. Feed(z, j) = Identity(z, j) /\ Feed(f, j) = Identity(f, j)
    BY <1>2, <1>7 DEF Feed
  <2> QED
    BY <1>1, <1>7, <2>1, IdentitySettled
<1>8. CASE z.span = "body" /\ z.st = "chunk"
  <2>1. Feed(z, j) = Consume(z, j, "chunk_end") /\ Feed(f, j) = Consume(f, j, "chunk_end")
    BY <1>2, <1>8 DEF Feed
  <2> QED
    BY <1>1, <2>1, ConsumeSettled DEF Settled
<1>9. CASE z.span = "body" /\ z.st = "eof"
  <2>1. Feed(z, j) = z /\ Feed(f, j) = f
    BY <1>2, <1>9 DEF Feed, UntilEof
  <2> QED
    BY <1>3, <2>1
<1> QED
  BY <1>1, <1>4, <1>5, <1>6, <1>7, <1>8, <1>9 DEF Live, InBody

\* A report changes no byte behind the place where the span is.
LEMMA ReportLeaves ==
  ASSUME NEW j \in 1 .. RespSize, NEW z, Opened(z, j)
  PROVE  Report(z, j).buf[j] = z.buf[j]
<1> DEFINE loc == z.from
           n   == j - z.from
           w   == Report(z, j)
<1>1. /\ IsParser(z) /\ ~z.failed /\ ~Searching(z) /\ loc \in 1 .. RespSize /\ loc \in 1 .. j
      /\ z.body \in Nat /\ z.bodyLen \in Nat /\ z.body + z.bodyLen <= loc
  BY NotSearching, ResponseAssumption DEF Opened, Before
<1>2. CASE z.span = "body"
  <2> DEFINE to == IF z.body = 0 THEN loc ELSE z.body + z.bodyLen
  <2>1. w = OnBody(z, loc, n)
    BY <1>1, <1>2 DEF Report
  <2>2. OnBody(z, loc, n).buf = IF loc > to THEN Moved(z.buf, to, loc, n) ELSE z.buf
    BY <1>1, BodyReported
  <2>3. loc > to => Moved(z.buf, to, loc, n)[j] = z.buf[j]
    <3>1. IsBuffer(z.buf)
      BY <1>1 DEF IsParser, IsBuffer
    <3>2. Moved(z.buf, to, loc, n)[j] = IF j - to \in 0 .. n - 1 THEN z.buf[loc + j - to] ELSE z.buf[j]
      BY <3>1, MovedIs
    <3>3. loc > to => j - to \notin 0 .. n - 1
      BY <1>1
    <3> QED
      BY <3>2, <3>3
  <2> HIDE DEF w, to
  <2> QED
    BY <2>1, <2>2, <2>3 DEF w
<1>3. CASE z.span = "status"
  BY <1>1, <1>3, StatusReported DEF Report
<1>4. CASE z.span = "field"
  BY <1>1, <1>4, FieldReported DEF Report
<1>5. CASE z.span = "value"
  BY <1>1, <1>5, ValueReported DEF Report, Opened
<1> QED
  BY <1>2, <1>3, <1>4, <1>5 DEF Opened

-----------------------------------------------------------------------------
(* A response that arrives in pieces.                                      *)

\* The same error, or no difference.
Alike(z, t, m, u, v) ==
  /\ IsParser(z) /\ IsParser(t) /\ SameRun(z, t)
  /\ z.err = "HPE_OK" => Same(z, t, m, u, v)

\* The end of a receive changes nothing of a run, and without an open span
\* nothing but the place of the callback before.
LEMMA RestRun ==
  ASSUME NEW j \in Nat \ {0}, NEW z, Sound(z, j)
  PROVE  /\ IsParser(Rest(z, j)) /\ SameRun(z, Rest(z, j))
         /\ z.err # "HPE_OK" \/ z.span = "none" => Agree(z, Rest(z, j))
<1>1. IsParser(z)
  BY DEF Sound
<1>2. CASE z.err # "HPE_OK" \/ z.span = "none"
  <2> DEFINE f == [z EXCEPT !.cur = j]
  <2>1. Rest(z, j) = f
    BY <1>2 DEF Rest, Flush
  <2>2. Agree(z, f)
    BY <1>1 DEF Agree, SameRun, SameTexts, IsParser, Fields
  <2> HIDE DEF f
  <2> QED
    BY <2>1, <2>2 DEF Agree
<1>3. CASE z.err = "HPE_OK" /\ z.span # "none"
  <2>1. Behind(z, Rest(z, j), j)
    BY <1>3, RestBehind DEF Sound
  <2> QED
    BY <1>3, <2>1 DEF Behind
<1> QED
  BY <1>2, <1>3

\* What agrees ends a receive the same.
LEMMA AgreeRest ==
  ASSUME NEW j \in 1 .. RespSize + 1, NEW z, NEW t, Agree(z, t), Sound(z, j)
  PROVE  Agree(Rest(z, j), Rest(t, j))
<1>1. j \in Nat \ {0} /\ RespSize + 1 \in 1 .. RespSize + 1
  BY ResponseAssumption
<1>2. z.err = "HPE_OK" /\ z.span # "none" => Reportable(z, j)
  BY <1>1, SoundReportable DEF Sound
<1>3. Same(z, t, RespSize + 1, <<>>, <<>>)
  BY AgreeIs
<1>4. Same(Rest(z, j), Rest(t, j), RespSize + 1, <<>>, <<>>)
  BY <1>1, <1>2, <1>3, SameRest
<1> QED
  BY <1>4, AgreeIs

\* What is reported at the end of a receive and again at the end of the next one
\* is what one report says.
LEMMA FeedRested ==
  ASSUME NEW j \in 1 .. RespSize, NEW z, Sound(z, j)
  PROVE  LET a == Rest(Feed(z, j), j + 1)
             b == Rest(Feed(Rest(z, j), j), j + 1)
         IN  IsParser(a) /\ IsParser(b) /\ SameRun(a, b) /\ (a.err = "HPE_OK" => Agree(a, b))
<1> DEFINE f == Rest(z, j)
           a == Feed(z, j)
           b == Feed(f, j)
<1>1. j \in Nat \ {0} /\ j + 1 \in Nat \ {0} /\ j + 1 \in 1 .. RespSize + 1 /\ j <= RespSize
      /\ j \in 1 .. (RespSize + 1) - 1 /\ j + 1 \in j .. RespSize + 1 /\ RespSize + 1 \in 1 .. RespSize + 1
  BY ResponseAssumption
<1>2. Sound(f, j)
  BY <1>1, RestSound
<1>3. Sound(a, j + 1) /\ Sound(b, j + 1)
  BY <1>2, FeedSound
<1>4. IsParser(Rest(a, j + 1)) /\ SameRun(a, Rest(a, j + 1))
      /\ IsParser(Rest(b, j + 1)) /\ SameRun(b, Rest(b, j + 1))
  BY <1>1, <1>3, RestRun
<1>5. Settled(a, b, j)
  <2>1. CASE z.err # "HPE_OK" \/ z.span = "none"
    <3>1. Agree(z, f)
      BY <1>1, <2>1, RestRun
    <3>2. Same(z, f, RespSize + 1, <<>>, <<>>)
      BY <3>1, AgreeIs
    <3> HIDE DEF f
    <3>3. Same(Feed(z, j), Feed(f, j), RespSize + 1, <<>>, <<>>)
      BY <1>1, <3>2, SameFeed
    <3> QED
      BY <3>3, AgreeIs DEF Settled
  <2>2. CASE z.err = "HPE_OK" /\ z.span # "none"
    <3>1. z.st # "error"
      BY <2>2 DEF Sound
    <3>2. Behind(z, f, j)
      BY <1>1, <2>2, <3>1, RestBehind
    <3> HIDE DEF f
    <3>3. Opened(z, j)
      BY <2>2, <3>1, SoundOpened
    <3>4. f.buf[j] = z.buf[j]
      <4>1. SameTexts(Report(z, j), f)
        BY <3>2 DEF Behind
      <4>2. Report(z, j).buf[j] = z.buf[j]
        BY <1>1, <3>3, ReportLeaves
      <4> QED
        BY <4>1, <4>2 DEF SameTexts
    <3> QED
      BY <2>2, <3>1, <3>2, <3>4, FeedSettled
  <2> QED
    BY <2>1, <2>2
<1> HIDE DEF f, a, b
<1>6. CASE Opened(a, j) /\ Behind(a, b, j)
  <2>1. a.err = "HPE_OK" => Agree(Rest(a, j + 1), Rest(b, j + 1))
    BY <1>1, <1>6, BehindRest
  <2> QED
    BY <1>4, <1>6, <2>1 DEF Behind, SameRun, a, b, f
<1>7. CASE Agree(a, b)
  <2>1. Agree(Rest(a, j + 1), Rest(b, j + 1))
    BY <1>1, <1>3, <1>7, AgreeRest
  <2> QED
    BY <2>1 DEF Agree, a, b, f
<1>8. CASE IsParser(a) /\ IsParser(b) /\ SameRun(a, b) /\ a.err # "HPE_OK"
  BY <1>4, <1>8 DEF SameRun, a, b, f
<1> QED
  BY <1>5, <1>6, <1>7, <1>8 DEF Settled

\* A receive that ends twice ends once.
LEMMA RestTwice ==
  ASSUME NEW j \in 1 .. RespSize, NEW z, Sound(z, j)
  PROVE  Agree(Rest(z, j), Rest(Rest(z, j), j))
<1> DEFINE f == Rest(z, j)
<1>1. j \in Nat \ {0} /\ j <= RespSize /\ j \in j .. RespSize + 1
  BY ResponseAssumption
<1>2. CASE z.err = "HPE_OK" /\ z.span # "none"
  <2>1. z.st # "error"
    BY <1>2 DEF Sound
  <2>2. Opened(z, j) /\ Behind(z, f, j)
    BY <1>1, <1>2, <2>1, SoundOpened, RestBehind
  <2> QED
    BY <1>1, <1>2, <2>2, BehindRest
<1>3. CASE z.err # "HPE_OK" \/ z.span = "none"
  <2>1. Sound(f, j) /\ SameRun(z, f)
    BY <1>1, RestSound, RestRun
  <2>2. f.err # "HPE_OK" \/ f.span = "none"
    BY <1>3, <2>1 DEF SameRun
  <2> HIDE DEF f
  <2>3. Agree(f, Rest(f, j))
    BY <1>1, <2>1, <2>2, RestRun
  <2> QED
    BY <2>3 DEF f
<1> QED
  BY <1>2, <1>3

\* Between two ways to receive nothing but where receives ended is different.
LEMMA FeedAlike ==
  ASSUME NEW m \in 1 .. RespSize + 1, NEW j \in 1 .. m - 1, NEW u, NEW v, NEW z, NEW t,
         Sound(z, j), Sound(t, j), Alike(Rest(z, j), Rest(t, j), m, u, v)
  PROVE  Alike(Rest(Feed(z, j), j + 1), Rest(Feed(t, j), j + 1), m, u, v)
<1> DEFINE f == Rest(z, j)
           g == Rest(t, j)
           a == Rest(Feed(z, j), j + 1)
           b == Rest(Feed(t, j), j + 1)
           c == Rest(Feed(f, j), j + 1)
           d == Rest(Feed(g, j), j + 1)
<1>1. /\ j \in 1 .. RespSize /\ j \in Nat \ {0} /\ j + 1 \in Nat \ {0} /\ j <= RespSize /\ j + 1 \in 1 .. m
      /\ j + 1 \in 1 .. RespSize + 1
  BY ResponseAssumption
<1>2. Sound(f, j) /\ Sound(g, j) /\ SameRun(z, f) /\ SameRun(t, g)
  BY <1>1, RestSound, RestRun
<1>3. /\ IsParser(a) /\ IsParser(c) /\ SameRun(a, c) /\ (a.err = "HPE_OK" => Agree(a, c))
      /\ IsParser(b) /\ IsParser(d) /\ SameRun(b, d) /\ (b.err = "HPE_OK" => Agree(b, d))
  BY <1>1, FeedRested
<1>4. SameRun(f, g) /\ (f.err = "HPE_OK" => Same(f, g, m, u, v))
  BY DEF Alike
<1>5. SameRun(c, d) /\ (c.err = "HPE_OK" => Same(c, d, m, u, v))
  <2>1. CASE f.err = "HPE_OK"
    <3> HIDE DEF f, g
    <3>1. Same(Feed(f, j), Feed(g, j), m, u, v)
      BY <1>2, <1>4, <2>1, SameFeed
    <3>2. Sound(Feed(f, j), j + 1)
      BY <1>1, <1>2, FeedSound
    <3>3. Feed(f, j).err = "HPE_OK" /\ Feed(f, j).span # "none" => Reportable(Feed(f, j), j + 1)
      BY <1>1, <3>2, SoundReportable DEF Sound
    <3>4. Same(c, d, m, u, v)
      BY <1>1, <3>1, <3>3, SameRest
    <3> QED
      BY <3>4 DEF Same
  <2>2. CASE f.err # "HPE_OK"
    <3> HIDE DEF f, g
    <3>1. g.err = f.err /\ f.st = "error" /\ g.st = "error"
      BY <1>2, <1>4, <2>2 DEF SameRun, Sound
    <3>2. Feed(f, j) = f /\ Feed(g, j) = g
      BY <3>1 DEF Feed
    <3>3. Sound(f, j + 1) /\ Sound(g, j + 1)
      BY <1>1, <1>2, <3>2, FeedSound
    <3>4. SameRun(f, c) /\ SameRun(g, d)
      BY <1>1, <3>2, <3>3, RestRun
    <3> HIDE DEF c, d
    <3>5. SameRun(c, d) /\ c.err # "HPE_OK"
      BY <1>4, <2>2, <3>4 DEF SameRun
    <3> QED
      BY <3>5
  <2> QED
    BY <2>1, <2>2
<1> HIDE DEF a, b, c, d, f, g
<1>6. SameRun(a, b)
  BY <1>3, <1>5 DEF SameRun
<1>7. ASSUME a.err = "HPE_OK" PROVE Same(a, b, m, u, v)
  <2>1. c.err = "HPE_OK" /\ b.err = "HPE_OK"
    BY <1>3, <1>6, <1>7 DEF SameRun
  <2>2. Same(c, d, m, u, v) /\ Agree(a, c) /\ Agree(b, d)
    BY <1>3, <1>5, <1>7, <2>1
  <2>3. Agree(c, a) /\ Agree(d, b)
    BY <2>2 DEF Agree, SameRun, SameTexts
  <2> QED
    BY <2>2, <2>3, SameAgree
<1> QED
  BY <1>3, <1>6, <1>7 DEF Alike, a, b

LEMMA FedAlike ==
  ASSUME NEW m \in 1 .. RespSize + 1, NEW c \in Nat \ {0}, NEW n \in Nat, c + n <= m, NEW u, NEW v,
         NEW z, NEW t, Sound(z, c), Sound(t, c), Alike(Rest(z, c), Rest(t, c), m, u, v)
  PROVE  Alike(Rest(Fed(z, c, n), c + n), Rest(Fed(t, c, n), c + n), m, u, v)
<1> DEFINE S == {i \in Nat : c + i <= m => Alike(Rest(Fed(z, c, i), c + i), Rest(Fed(t, c, i), c + i), m, u, v)}
<1>1. 0 \in S
  <2>1. Fed(z, c, 0) = z /\ Fed(t, c, 0) = t /\ c + 0 = c
    BY FedIs
  <2> QED
    BY <2>1
<1>2. ASSUME NEW i \in Nat, i \in S PROVE i + 1 \in S
  <2> SUFFICES ASSUME c + (i + 1) <= m
               PROVE  Alike(Rest(Fed(z, c, i + 1), c + (i + 1)), Rest(Fed(t, c, i + 1), c + (i + 1)), m, u, v)
    OBVIOUS
  <2> DEFINE j == c + i
             a == Fed(z, c, i)
             b == Fed(t, c, i)
  <2>1. j \in 1 .. m - 1 /\ c + i <= RespSize + 1 /\ j + 1 = c + (i + 1) /\ c + i <= m
    BY ResponseAssumption
  <2>2. Sound(a, j) /\ Sound(b, j)
    BY <2>1, FedSound
  <2>3. Alike(Rest(a, j), Rest(b, j), m, u, v)
    BY <1>2, <2>1
  <2>4. Fed(z, c, i + 1) = Feed(a, j) /\ Fed(t, c, i + 1) = Feed(b, j)
    BY FedIs
  <2> HIDE DEF j, a, b
  <2>5. Alike(Rest(Feed(a, j), j + 1), Rest(Feed(b, j), j + 1), m, u, v)
    BY <2>1, <2>2, <2>3, FeedAlike
  <2> QED
    BY <2>1, <2>4, <2>5
<1> HIDE DEF S
<1>3. n \in S
  BY <1>1, <1>2, Induction
<1> QED
  BY <1>3 DEF S

\* n more tokens.
LEMMA FedMore ==
  ASSUME NEW p, NEW c \in Nat, NEW k \in Nat, NEW n \in Nat
  PROVE  Fed(Fed(p, c, k), c + k, n) = Fed(p, c, k + n)
<1> DEFINE f == Fed(p, c, k)
           S == {i \in Nat : Fed(f, c + k, i) = Fed(p, c, k + i)}
<1> HIDE DEF f
<1>1. 0 \in S
  <2>1. Fed(f, c + k, 0) = f /\ k + 0 = k
    BY FedIs DEF f
  <2> QED
    BY <2>1 DEF f
<1>2. ASSUME NEW i \in Nat, i \in S PROVE i + 1 \in S
  <2>0. c + k \in Nat /\ k + i \in Nat
    OBVIOUS
  <2>1. Fed(f, c + k, i + 1) = Feed(Fed(f, c + k, i), c + k + i)
    BY <2>0, FedIs
  <2>2. Fed(p, c, (k + i) + 1) = Feed(Fed(p, c, k + i), c + (k + i))
    BY <2>0, FedIs
  <2>3. (k + i) + 1 = k + (i + 1) /\ c + k + i = c + (k + i)
    OBVIOUS
  <2> QED
    BY <1>2, <2>1, <2>2, <2>3
<1> HIDE DEF S
<1>3. n \in S
  BY <1>1, <1>2, Induction
<1> QED
  BY <1>3 DEF S, f

\* The parser after n tokens that came at once.
AtOnce(head, b, n) == Rest(Fed([InitialState(head) EXCEPT !.buf = b], 1, n), 1 + n)

\* k tokens were received in some pieces, and the parser l is where it were had
\* they come at once; n more come.  b and d are the buffers for the k and for all
\* tokens, e is the buffer before, and x the one that the n tokens were added to.
LEMMA OnePieceMore ==
  ASSUME NEW head, NEW k \in Nat, NEW n \in Nat, k < RespSize, k + n <= RespSize,
         NEW e, NEW b, NEW d, IsBuffer(b), IsBuffer(d),
         \A i \in 1 .. k : d[i] = b[i], \A i \in k + 1 .. RespSize : b[i] = e[i],
         \A i \in k + n + 1 .. RespSize : d[i] = e[i],
         NEW l, Sound(l, k + 1), l.err = "HPE_OK", Alike(AtOnce(head, b, k), l, k + 1, e, e),
         NEW x, IsBuffer(x), \A i \in 1 .. k : x[i] = l.buf[i], \A i \in k + 1 .. RespSize : x[i] = d[i]
  PROVE  Alike(AtOnce(head, d, k + n), Rest(Fed([l EXCEPT !.buf = x], k + 1, n), k + 1 + n),
               k + n + 1, e, e)
<1> DEFINE P(y) == [InitialState(head) EXCEPT !.buf = y]
           p  == [l EXCEPT !.buf = x]
           o  == AtOnce(head, b, k)
           w  == Fed(P(d), 1, k)
           ow == AtOnce(head, d, k)
<1>1. /\ k + 1 \in 1 .. RespSize /\ k + 1 \in Nat \ {0} /\ k + 1 \in 1 .. RespSize + 1 /\ 1 + k = k + 1
      /\ k + n + 1 \in 1 .. RespSize + 1 /\ k + 1 + n = k + n + 1 /\ 1 \in Nat \ {0} /\ k + 1 <= RespSize
      /\ 1 + (k + n) = k + n + 1 /\ 1 + k <= RespSize + 1 /\ k + 1 \in 1 .. k + 1
  BY ResponseAssumption
<1>2. Sound(P(b), 1) /\ Sound(P(d), 1)
  BY InitialSound DEF IsBuffer
<1>3. Same(P(b), P(d), k + 1, b, d)
  <2> DEFINE y == P(b)
             z == P(d)
  <2>1. IsParser(y) /\ IsParser(z) /\ y.buf = b /\ z.buf = d
    BY DEF InitialState, IsParser, Fields, IsBuffer
  <2>2. /\ SameRun(y, z) /\ z.from = y.from
        /\ z.field = y.field /\ z.value = y.value /\ z.statusCode = y.statusCode /\ z.hdr = y.hdr
        /\ z.count = y.count /\ z.body = y.body /\ z.bodyLen = y.bodyLen /\ z.seen = y.seen
    BY DEF InitialState, SameRun
  <2> HIDE DEF y, z
  <2>3. (k + 1) - 1 = k
    OBVIOUS
  <2>4. \A i \in 1 .. (k + 1) - 1 : z.buf[i] = y.buf[i]
    BY <2>1, <2>3
  <2>5. \A i \in k + 1 .. RespSize : y.buf[i] = b[i] /\ z.buf[i] = d[i]
    BY <2>1
  <2>6. Same(y, z, k + 1, b, d)
    BY <2>1, <2>2, <2>4, <2>5, Zenon DEF Same
  <2> QED
    BY <2>6 DEF y, z
<1>4. Agree(P(b), Rest(P(b), 1)) /\ Agree(P(d), Rest(P(d), 1))
  <2>1. P(b).span = "none" /\ P(d).span = "none"
    BY DEF InitialState
  <2> HIDE DEF P
  <2> QED
    BY <1>1, <1>2, <2>1, RestRun
<1> HIDE DEF P
<1>5. Alike(Rest(P(b), 1), Rest(P(d), 1), k + 1, b, d)
  <2>1. Same(Rest(P(b), 1), Rest(P(d), 1), k + 1, b, d)
    BY <1>1, <1>3, <1>4, SameAgree
  <2> QED
    BY <2>1 DEF Alike, Same
<1>6. o = Rest(Fed(P(b), 1, k), k + 1) /\ ow = Rest(w, k + 1)
  BY <1>1 DEF AtOnce, P
<1>7. Alike(o, ow, k + 1, b, d)
  <2>1. 1 + k <= k + 1
    OBVIOUS
  <2>2. Alike(Rest(Fed(P(b), 1, k), 1 + k), Rest(Fed(P(d), 1, k), 1 + k), k + 1, b, d)
    BY <1>1, <1>2, <1>5, <2>1, FedAlike
  <2> QED
    BY <1>1, <1>6, <2>2
<1>8. Sound(Fed(P(b), 1, k), k + 1) /\ Sound(w, k + 1)
  <2>1. Sound(Fed(P(b), 1, k), 1 + k) /\ Sound(Fed(P(d), 1, k), 1 + k)
    BY <1>1, <1>2, FedSound
  <2> QED
    BY <1>1, <2>1
<1>9. Sound(o, k + 1) /\ Agree(o, Rest(o, k + 1))
  <2>1. Sound(o, k + 1)
    <3>1. k + 1 \in Nat \ {0} /\ k + 1 <= RespSize
      BY ResponseAssumption
    <3>2. ASSUME NEW z, Sound(z, k + 1) PROVE Sound(Rest(z, k + 1), k + 1)
      BY <3>1, <3>2, RestSound
    <3> HIDE DEF o, w
    <3> QED
      BY <1>6, <1>8, <3>2
  <2>2. Agree(o, Rest(o, k + 1))
    BY <1>1, <1>6, <1>8, RestTwice
  <2> QED
    BY <2>1, <2>2
<1>10. Sound(p, k + 1)
  <2>1. IsParser(l) /\ ~l.failed
    BY DEF Sound
  <2>2. /\ IsParser(p) /\ ~p.failed /\ p.find = l.find
        /\ p.state = l.state /\ p.err = l.err /\ p.st = l.st /\ p.span = l.span /\ p.from = l.from
        /\ p.cur = l.cur /\ p.hdr = l.hdr /\ p.field = l.field /\ p.value = l.value /\ p.body = l.body
        /\ p.bodyLen = l.bodyLen
    BY <2>1 DEF IsParser, Fields, IsBuffer
  <2> HIDE DEF p
  <2> QED
    BY <2>2, KeepSound
<1> HIDE DEF o, ow, w
<1>11. o.err = "HPE_OK" /\ Same(o, l, k + 1, e, e) /\ Same(o, ow, k + 1, b, d)
  <2>1. Alike(o, l, k + 1, e, e)
    BY DEF o
  <2>2. o.err = "HPE_OK"
    BY <2>1 DEF Alike, SameRun
  <2> QED
    BY <1>7, <2>1, <2>2 DEF Alike
<1>12. Same(o, p, k + 1, e, d)
  <2>1. \A i \in 1 .. (k + 1) - 1 : x[i] = o.buf[i]
    <3>1. (k + 1) - 1 = k
      OBVIOUS
    <3> QED
      BY <1>11, <3>1 DEF Same
  <2>2. \A i \in k + 1 .. RespSize : o.buf[i] = e[i]
    BY <1>11 DEF Same
  <2>3. IsParser(l) /\ IsParser(o)
    BY <1>11 DEF Same
  <2>4. /\ IsParser(p) /\ SameRun(l, p) /\ p.from = l.from /\ p.buf = x
        /\ p.field = l.field /\ p.value = l.value /\ p.statusCode = l.statusCode /\ p.hdr = l.hdr
        /\ p.count = l.count /\ p.body = l.body /\ p.bodyLen = l.bodyLen /\ p.seen = l.seen
    BY <2>3 DEF IsParser, Fields, IsBuffer, SameRun
  <2> HIDE DEF p
  <2>5. SameRun(o, p)
    BY <1>11, <2>4 DEF Same, SameRun
  <2> QED
    BY <1>11, <2>1, <2>2, <2>3, <2>4, <2>5 DEF Same
<1>13. Same(o, Rest(p, k + 1), k + 1, e, d)
  <2>1. o.err = "HPE_OK" /\ o.span # "none" => Reportable(o, k + 1)
    BY <1>1, <1>9, SoundReportable DEF Sound
  <2> HIDE DEF p
  <2>2. Same(Rest(o, k + 1), Rest(p, k + 1), k + 1, e, d)
    BY <1>1, <1>12, <2>1, SameRest
  <2>3. Agree(Rest(o, k + 1), o)
    BY <1>9 DEF Agree, SameRun, SameTexts
  <2>4. Agree(Rest(p, k + 1), Rest(p, k + 1))
    BY <2>2 DEF Agree, Same, SameRun, SameTexts
  <2> QED
    BY <1>1, <2>2, <2>3, <2>4, SameAgree
<1> HIDE DEF p
<1>14. Same(ow, Rest(p, k + 1), k + n + 1, e, e)
  <2> DEFINE f == Rest(p, k + 1)
  <2> HIDE DEF f
  <2>1. Same(o, f, k + 1, e, d) /\ Same(o, ow, k + 1, b, d)
    BY <1>11, <1>13 DEF f
  <2>2. SameRun(ow, f)
    BY <2>1 DEF Same, SameRun
  <2>3. ASSUME NEW i \in 1 .. (k + n + 1) - 1 PROVE f.buf[i] = ow.buf[i]
    <3>1. i \in 1 .. (k + 1) - 1 \/ i \in k + 1 .. RespSize
      BY ResponseAssumption
    <3> QED
      BY <2>1, <3>1 DEF Same
  <2>4. ASSUME NEW i \in k + n + 1 .. RespSize PROVE f.buf[i] = e[i] /\ ow.buf[i] = e[i]
    <3>1. i \in k + 1 .. RespSize
      BY <1>1
    <3> QED
      BY <2>1, <3>1 DEF Same
  <2>5. Same(ow, f, k + n + 1, e, e)
    BY <2>1, <2>2, <2>3, <2>4 DEF Same
  <2> QED
    BY <2>5 DEF f
<1>15. Alike(Rest(Fed(w, k + 1, n), k + 1 + n), Rest(Fed(p, k + 1, n), k + 1 + n), k + n + 1, e, e)
  <2>1. Alike(Rest(w, k + 1), Rest(p, k + 1), k + n + 1, e, e)
    BY <1>6, <1>14 DEF Alike, Same
  <2>2. k + 1 + n <= k + n + 1
    BY <1>1
  <2> QED
    BY <1>1, <1>8, <1>10, <2>1, <2>2, FedAlike
<1>16. Rest(Fed(w, k + 1, n), k + 1 + n) = AtOnce(head, d, k + n)
  <2>1. Fed(Fed(P(d), 1, k), 1 + k, n) = Fed(P(d), 1, k + n)
    <3>1. 1 \in Nat /\ k \in Nat /\ n \in Nat
      OBVIOUS
    <3> QED
      BY <3>1, FedMore
  <2> QED
    BY <1>1, <2>1 DEF AtOnce, w, P
<1> QED
  BY <1>15, <1>16 DEF p

-----------------------------------------------------------------------------
(* The socket.                                                             *)

\* Who has a socket, and who is where.
SocketInv ==
  /\ caller \in {"spm", "app"}
  /\ pc \in {"idle", "done"} => sock = "none"
  /\ caller = "app" /\ pc # "idle" => sock = "none"
  /\ pc \in {"socket", "resolve", "connect"} => caller = "spm"

\* A return of HTTPClient_Send is not yet one of HTTPSendRequest.
LEMMA ReturnedKeeps ==
  ASSUME SocketInv, pc # "idle", NEW st, Returned(st), UNCHANGED <<caller, sock>>
  PROVE  SocketInv'
BY DEF SocketInv, Returned

\* It holds at first: there is no socket.
LEMMA SocketInit == Init => SocketInv
BY DEF Init, SocketInv

\* Every step of the call, the transport and the server keeps it.
LEMMA SocketStep == SocketInv /\ [Next]_vars => SocketInv'
<1> SUFFICES ASSUME SocketInv, [Next]_vars PROVE SocketInv'
  OBVIOUS
<1> USE DEF request, sending, response
<1>1. ASSUME NEW c \in {"spm", "app"}, NEW req \in Requests, Begin(c, req) PROVE SocketInv'
  BY <1>1 DEF Begin, SocketInv
<1>2. ASSUME NEW c \in Additions, Add(c) PROVE SocketInv'
  BY <1>2 DEF Add, SocketInv
<1>3. CASE Socket
  BY <1>3 DEF Socket, SocketInv
<1>4. CASE Resolve
  BY <1>4 DEF Resolve, CloseAndFail, SocketInv
<1>5. CASE Connect
  BY <1>5 DEF Connect, CloseAndFail, SocketInv
<1>6. CASE Close
  BY <1>6 DEF Close, SocketInv
<1>7. CASE InitializeHeaders
  BY <1>7 DEF InitializeHeaders, SocketInv
<1>8. CASE Skip
  BY <1>8 DEF Skip, SocketInv
<1>9. CASE Send
  <2>1. pc = "send" /\ UNCHANGED <<caller, sock>>
    BY <1>9 DEF Send
  <2>2. \/ pc' = "send headers"
        \/ \E st : Returned(st)
    BY <1>9 DEF Send
  <2>3. CASE pc' = "send headers"
    BY <2>1, <2>3 DEF SocketInv
  <2> QED
    BY <2>1, <2>2, <2>3, ReturnedKeeps
<1>10. ASSUME NEW n \in 1 .. ReqSize, Transmit(n) PROVE SocketInv'
  <2>1. pc' \in {pc, "send body", "receive"} /\ pc \in {"send headers", "send body"}
    BY <1>10 DEF Transmit
  <2> QED
    BY <1>10, <2>1 DEF Transmit, SocketInv
<1>11. CASE TransmitNothing
  <2>1. pc \in {"send headers", "send body"} /\ UNCHANGED <<caller, sock>>
    BY <1>11 DEF TransmitNothing
  <2>2. UNCHANGED pc \/ Returned("HTTPNetworkError")
    BY <1>11 DEF TransmitNothing
  <2>3. CASE UNCHANGED pc
    BY <2>1, <2>3 DEF SocketInv
  <2> QED
    BY <2>1, <2>2, <2>3, ReturnedKeeps
<1>12. ASSUME NEW p, NEW total, NEW over, Continue(p, total, over),
              pc = "receive", UNCHANGED <<caller, sock>>
       PROVE  SocketInv'
  <2>1. UNCHANGED pc \/ \E st : Returned(st)
    BY <1>12 DEF Continue
  <2>2. CASE UNCHANGED pc
    BY <1>12, <2>2 DEF SocketInv
  <2> QED
    BY <1>12, <2>1, <2>2, ReturnedKeeps
<1>13. ASSUME NEW n \in 1 .. Available, Receive(n) PROVE SocketInv'
  <2>1. pc = "receive" /\ UNCHANGED <<caller, sock>> /\ Continue(s', received', FALSE)
    BY <1>13 DEF Receive
  <2> QED
    BY <1>12, <2>1
<1>14. CASE ReceiveNothing
  <2>1. /\ pc = "receive" /\ UNCHANGED <<caller, sock>>
        /\ UNCHANGED pc \/ Continue(s', received, TRUE)
    BY <1>14 DEF ReceiveNothing
  <2>2. CASE UNCHANGED pc
    BY <2>1, <2>2 DEF SocketInv
  <2> QED
    BY <1>12, <2>1, <2>2
<1>15. CASE ReceiveError
  BY <1>15, ReturnedKeeps DEF ReceiveError
<1>16. CASE Return
  BY <1>16 DEF Return, SocketInv
<1>17. ASSUME NEW a \in Answers, Answer(a) PROVE SocketInv'
  BY <1>17 DEF Answer, SocketInv
<1>18. CASE ServerClose
  BY <1>18 DEF ServerClose, SocketInv
<1>19. CASE UNCHANGED vars
  BY <1>19 DEF vars, SocketInv
<1> QED
  BY <1>1, <1>2, <1>3, <1>4, <1>5, <1>6, <1>7, <1>8, <1>9, <1>10, <1>11, <1>13, <1>14, <1>15,
     <1>16, <1>17, <1>18, <1>19 DEF Next, Call

\* HTTPSendRequest closes the socket on every way out of it, and an application
\* is not given one.
THEOREM SocketAlwaysReleased == Spec => []SocketReleased
<1>1. SocketInv => SocketReleased
  BY DEF SocketInv, SocketReleased
<1> QED
  BY <1>1, SocketInit, SocketStep, PTL DEF Spec

-----------------------------------------------------------------------------
(* The request headers.                                                    *)

\* The pieces of text that the code writes itself, and all pieces: those of the
\* application and written numbers too.  (No prover knows a literal for a STRING.)
Literal ==
  {CRLF, ":", "0", "-", "bytes=", "Us", "er-Agent", "platform", "Ho", "st", "Co", "nnection",
   "keep-alive", "ntent-Length", "Ra", "nge", "data", "/"}

Piece == Literal \cup STRING \cup {ToString(n) : n \in Int}

Outcome == {"HTTPSuccess", "HTTPInsufficientMemory", "HTTPSecurityAlertInvalidCharacter",
            "HTTPInvalidParameter"}

Headers == [buf : [1 .. ReqSize -> Piece], len : 0 .. ReqSize, status : Outcome]
Entries == [lines : Seq(Piece), whole : BOOLEAN, ok : BOOLEAN]

\* The buffer h holds the lines of the text t, and behind them CRLF if t is
\* whole: an empty line, which is there if and only if t is whole.
Holds(h, t) ==
  /\ h \in Headers /\ t \in Entries
  /\ h.len = Len(t.lines) + (IF t.whole THEN 1 ELSE 0)
  /\ \A i \in 1 .. Len(t.lines) : h.buf[i] = t.lines[i]
  /\ t.whole => /\ t.lines # <<>> /\ t.lines[Len(t.lines)] = CRLF
                /\ h.buf[Len(t.lines) + 1] = CRLF
  /\ ~t.whole /\ Len(t.lines) >= 2 =>
       ~(t.lines[Len(t.lines) - 1] = CRLF /\ t.lines[Len(t.lines)] = CRLF)

\* What the code writes are pieces.
LEMMA LiteralsArePieces ==
  /\ Literal \subseteq Piece /\ STRING \subseteq Piece
  /\ \A n \in Int : ToString(n) \in Piece
  /\ CRLF \in Piece /\ ":" \in Piece
<1>1. CRLF \in Literal /\ ":" \in Literal
  BY DEF Literal
<1> QED
  BY <1>1, Zenon DEF Piece

\* Put puts every piece in its place, and leaves those before alone.
LEMMA PutType ==
  ASSUME NEW buf \in [1 .. ReqSize -> Piece], NEW at \in Nat, NEW p \in Seq(Piece)
  PROVE  /\ Put(buf, at, p) \in [1 .. ReqSize -> Piece]
         /\ \A i \in 1 .. ReqSize : i <= at => Put(buf, at, p)[i] = buf[i]
         /\ \A i \in 1 .. Len(p) : at + i <= ReqSize => Put(buf, at, p)[at + i] = p[i]
<1>1. ReqSize \in Nat /\ Len(p) \in Nat
  BY RequestAssumption
<1>2. ASSUME NEW i \in 1 .. ReqSize
      PROVE  (IF i - at \in 1 .. Len(p) THEN p[i - at] ELSE buf[i]) \in Piece
  <2>1. CASE i - at \in 1 .. Len(p)
    BY <2>1
  <2>2. CASE i - at \notin 1 .. Len(p)
    BY <2>2
  <2> QED
    BY <2>1, <2>2
<1>3. Put(buf, at, p) \in [1 .. ReqSize -> Piece]
  BY <1>2 DEF Put
<1>4. \A i \in 1 .. ReqSize : Put(buf, at, p)[i] = IF i - at \in 1 .. Len(p) THEN p[i - at] ELSE buf[i]
  BY DEF Put
<1>5. ASSUME NEW i \in 1 .. Len(p), at + i <= ReqSize PROVE Put(buf, at, p)[at + i] = p[i]
  <2>1. at + i \in 1 .. ReqSize /\ (at + i) - at = i
    BY <1>1, <1>5
  <2> QED
    BY <1>4, <2>1
<1>6. ASSUME NEW i \in 1 .. ReqSize, i <= at PROVE Put(buf, at, p)[i] = buf[i]
  BY <1>1, <1>4, <1>6
<1> QED
  BY <1>3, <1>5, <1>6

\* The next header goes where the lines end.
LEMMA BacktracksToLines ==
  ASSUME NEW h, NEW t, Holds(h, t)
  PROVE  Backtracked(h) = Len(t.lines)
<1> DEFINE L == Len(t.lines)
<1>1. /\ t.lines \in Seq(Piece) /\ L \in Nat /\ t.whole \in BOOLEAN
      /\ h.len = L + (IF t.whole THEN 1 ELSE 0)
      /\ \A i \in 1 .. L : h.buf[i] = t.lines[i]
  BY DEF Holds, Entries
<1>2. CASE t.whole
  <2>1. L >= 1 /\ t.lines[L] = CRLF /\ h.buf[L + 1] = CRLF /\ h.len = L + 1
    BY <1>1, <1>2 DEF Holds
  <2>2. h.buf[L] = CRLF
    BY <1>1, <2>1
  <2> HIDE DEF L
  <2>3. h.len >= 2 /\ h.len - 1 = L
    BY <1>1, <2>1
  <2>4. h.buf[h.len - 1] = CRLF /\ h.buf[h.len] = CRLF
    BY <2>1, <2>2, <2>3
  <2>5. Backtracked(h) = L
    BY <2>3, <2>4 DEF Backtracked
  <2> QED
    BY <2>5 DEF L
<1>3. CASE ~t.whole
  <2>1. h.len = L
    BY <1>1, <1>3
  <2>2. ASSUME L >= 2 PROVE ~(h.buf[L - 1] = CRLF /\ h.buf[L] = CRLF)
    <3>1. L - 1 \in 1 .. L /\ L \in 1 .. L
      BY <1>1, <2>2
    <3>2. h.buf[L - 1] = t.lines[L - 1] /\ h.buf[L] = t.lines[L]
      BY <1>1, <3>1
    <3> QED
      BY <1>3, <2>2, <3>2 DEF Holds
  <2> HIDE DEF L
  <2>3. Backtracked(h) = L
    BY <1>1, <2>1, <2>2 DEF Backtracked
  <2> QED
    BY <2>3 DEF L
<1> QED
  BY <1>1, <1>2, <1>3

\* httpHeaderStrncpy copies nothing or begins with the first piece, which is
\* none that it refuses.
LEMMA CopiedType ==
  ASSUME NEW text \in Seq(Piece), text # <<>>, NEW isField
  PROVE  /\ Copied(text, isField) \in Seq(Piece)
         /\ Len(Copied(text, isField)) <= Len(text)
         /\ Refused(text, isField) = {} => Copied(text, isField) = text
         /\ Copied(text, isField) # <<>> =>
              Copied(text, isField)[1] = text[1] /\ text[1] # CRLF
<1> DEFINE stops == Refused(text, isField)
           first == CHOOSE i \in stops : \A j \in stops : i <= j
<1>1. Len(text) \in Nat /\ Len(text) >= 1
  OBVIOUS
<1>2. /\ stops \subseteq 1 .. Len(text)
      /\ text[1] = CRLF => 1 \in stops
  BY <1>1 DEF Refused
<1>3. CASE stops = {}
  <2>1. Copied(text, isField) = text
    BY <1>3 DEF Copied
  <2> QED
    BY <1>1, <1>2, <1>3, <2>1
<1>4. CASE stops # {}
  <2>1. first \in stops /\ \A j \in stops : first <= j
    <3>1. stops \in SUBSET Nat
      BY <1>1, <1>2
    <3> HIDE DEF stops
    <3>2. \E i \in stops : \A j \in stops : i <= j
      BY <1>4, <3>1, Least
    <3> QED
      BY <3>2
  <2>2. Copied(text, isField) = SubSeq(text, 1, first - 1)
    BY <1>4 DEF Copied
  <2> HIDE DEF stops, first
  <2>3. first \in 1 .. Len(text)
    BY <1>2, <2>1
  <2>4. /\ SubSeq(text, 1, first - 1) \in Seq(Piece) /\ Len(SubSeq(text, 1, first - 1)) = first - 1
        /\ first > 1 => SubSeq(text, 1, first - 1)[1] = text[1]
    BY <1>1, <2>3
  <2>5. ASSUME first > 1 PROVE text[1] # CRLF
    BY <1>2, <2>1, <2>5
  <2>6. first = 1 => SubSeq(text, 1, first - 1) = <<>>
    BY <2>3, <2>4
  <2>7. stops = Refused(text, isField)
    BY DEF stops
  <2> QED
    BY <1>1, <1>4, <2>2, <2>3, <2>4, <2>5, <2>6, <2>7
<1> QED
  BY <1>3, <1>4

\* A header as a line, the same with the empty line behind it, what is written of
\* one that is refused, the characters it is refused for; is there no room for it?
Line(field, value)    == field \o <<":">> \o value \o <<CRLF>>
Whole(field, value)   == field \o <<":">> \o value \o <<CRLF, CRLF>>
Part(field, value)    == IF Refused(field, TRUE) # {} THEN Copied(field, TRUE)
                         ELSE field \o <<":">> \o Copied(value, FALSE)
Bad(field, value)     == Refused(field, TRUE) \cup Refused(value, FALSE)
NoRoom(at, text)      == at + Len(text) > ReqSize

\* The three outcomes of addHeader.
LEMMA AddHeaderCases ==
  ASSUME NEW h, NEW field, NEW value, NEW at, Backtracked(h) = at
  PROVE  AddHeader(h, field, value) =
           IF NoRoom(at, Whole(field, value)) THEN [h EXCEPT !.status = "HTTPInsufficientMemory"]
           ELSE IF Bad(field, value) # {}
           THEN [h EXCEPT !.buf = Put(h.buf, at, Part(field, value)),
                          !.status = "HTTPSecurityAlertInvalidCharacter"]
           ELSE [buf |-> Put(h.buf, at, Whole(field, value)), len |-> at + Len(Whole(field, value)),
                 status |-> "HTTPSuccess"]
  BY Zenon DEF AddHeader, Whole, Bad, Part, NoRoom

\* What becomes of a text with a header more.
LEMMA EntryCases ==
  ASSUME NEW t, NEW field, NEW value
  PROVE  Entry(t, field, value) =
           IF Len(t.lines) + Len(Line(field, value)) + 1 > ReqSize THEN [t EXCEPT !.ok = FALSE]
           ELSE IF Bad(field, value) = {}
           THEN [lines |-> t.lines \o Line(field, value), whole |-> TRUE, ok |-> TRUE]
           ELSE IF t.whole /\ Copied(field, TRUE) # <<>>
           THEN [lines |-> Append(t.lines, Head(field)), whole |-> FALSE, ok |-> FALSE]
           ELSE [t EXCEPT !.ok = FALSE]
  BY Zenon DEF Entry, Line, Bad

\* Both end in CRLF and are the same up to that.
LEMMA LineType ==
  ASSUME NEW field \in Seq(Piece), field # <<>>, NEW value \in Seq(Piece)
  PROVE  /\ Line(field, value) \in Seq(Piece) /\ Whole(field, value) \in Seq(Piece)
         /\ Len(Line(field, value)) >= 3
         /\ Len(Whole(field, value)) = Len(Line(field, value)) + 1
         /\ Line(field, value)[Len(Line(field, value))] = CRLF
         /\ Whole(field, value)[Len(Whole(field, value))] = CRLF
         /\ \A i \in 1 .. Len(Line(field, value)) : Whole(field, value)[i] = Line(field, value)[i]
<1>1. CRLF \in Piece /\ ":" \in Piece
  BY LiteralsArePieces
<1>2. Len(field) \in Nat /\ Len(field) >= 1 /\ Len(value) \in Nat
  OBVIOUS
<1> DEFINE start == field \o <<":">> \o value
<1>3. start \in Seq(Piece) /\ Len(start) = Len(field) + Len(value) + 1
  BY <1>1
<1>4. Line(field, value) = start \o <<CRLF>> /\ Whole(field, value) = start \o <<CRLF, CRLF>>
  BY DEF Line, Whole
<1> HIDE DEF start
<1>5. /\ start \o <<CRLF>> \in Seq(Piece) /\ Len(start \o <<CRLF>>) = Len(start) + 1
      /\ start \o <<CRLF, CRLF>> \in Seq(Piece) /\ Len(start \o <<CRLF, CRLF>>) = Len(start) + 2
  BY <1>1, <1>3
<1>6. /\ (start \o <<CRLF>>)[Len(start) + 1] = CRLF
      /\ (start \o <<CRLF, CRLF>>)[Len(start) + 1] = CRLF
      /\ (start \o <<CRLF, CRLF>>)[Len(start) + 2] = CRLF
  BY <1>1, <1>3
<1>7. \A i \in 1 .. Len(start) : (start \o <<CRLF>>)[i] = start[i] /\ (start \o <<CRLF, CRLF>>)[i] = start[i]
  BY <1>1, <1>3
<1> QED
  BY <1>2, <1>3, <1>4, <1>5, <1>6, <1>7

\* A header that is taken is a line more of the text.
LEMMA TakenHolds ==
  ASSUME NEW h, NEW t, Holds(h, t),
         NEW field \in Seq(Piece), field # <<>>, NEW value \in Seq(Piece),
         Len(t.lines) + Len(Line(field, value)) + 1 <= ReqSize
  PROVE  Holds([buf |-> Put(h.buf, Len(t.lines), Whole(field, value)),
                len |-> Len(t.lines) + Len(Whole(field, value)), status |-> "HTTPSuccess"],
               [lines |-> t.lines \o Line(field, value), whole |-> TRUE, ok |-> TRUE])
<1> DEFINE old   == t.lines
           one   == Line(field, value)
           more  == Whole(field, value)
           L     == Len(old)
           lines == old \o one
           buf   == Put(h.buf, L, more)
           hh    == [buf |-> buf, len |-> L + Len(more), status |-> "HTTPSuccess"]
           tt    == [lines |-> lines, whole |-> TRUE, ok |-> TRUE]
<1>1. /\ old \in Seq(Piece) /\ L \in Nat /\ h.buf \in [1 .. ReqSize -> Piece] /\ ReqSize \in Nat
      /\ \A i \in 1 .. L : h.buf[i] = old[i]
  BY RequestAssumption DEF Holds, Headers, Entries
<1>2. /\ one \in Seq(Piece) /\ more \in Seq(Piece) /\ Len(one) \in Nat /\ Len(one) >= 3
      /\ Len(more) = Len(one) + 1 /\ one[Len(one)] = CRLF /\ more[Len(more)] = CRLF
      /\ \A i \in 1 .. Len(one) : more[i] = one[i]
  BY LineType
<1>3. L + Len(one) + 1 <= ReqSize
  OBVIOUS
<1> HIDE DEF one, more
<1>4. /\ buf \in [1 .. ReqSize -> Piece]
      /\ \A i \in 1 .. ReqSize : i <= L => buf[i] = h.buf[i]
      /\ \A i \in 1 .. Len(more) : L + i <= ReqSize => buf[L + i] = more[i]
  BY <1>1, <1>2, PutType
<1> HIDE DEF buf, old
<1>5. /\ lines \in Seq(Piece) /\ Len(lines) = L + Len(one)
      /\ \A i \in 1 .. L : lines[i] = old[i]
      /\ \A i \in 1 .. Len(one) : lines[L + i] = one[i]
  BY <1>1, <1>2
<1> HIDE DEF L, lines
<1>6. ASSUME NEW i \in 1 .. Len(lines) PROVE buf[i] = lines[i]
  <2>1. CASE i <= L
    <3>1. i \in 1 .. L /\ i \in 1 .. ReqSize
      BY <1>1, <1>2, <1>3, <1>5, <2>1
    <3> QED
      BY <1>1, <1>4, <1>5, <2>1, <3>1
  <2>2. CASE i > L
    <3> DEFINE j == i - L
    <3>1. j \in 1 .. Len(one) /\ j \in 1 .. Len(more) /\ i = L + j /\ L + j <= ReqSize
      BY <1>1, <1>2, <1>3, <1>5, <2>2
    <3> HIDE DEF j
    <3> QED
      BY <1>2, <1>4, <1>5, <3>1
  <2> QED
    BY <1>1, <1>5, <2>1, <2>2
<1>7. lines[Len(lines)] = CRLF /\ Len(lines) >= 1
  <2>1. Len(one) \in 1 .. Len(one)
    BY <1>2
  <2>2. lines[L + Len(one)] = one[Len(one)]
    BY <1>5, <2>1
  <2> QED
    BY <1>1, <1>2, <1>5, <2>2
<1>8. buf[Len(lines) + 1] = CRLF
  <2>1. Len(more) \in 1 .. Len(more) /\ Len(lines) + 1 = L + Len(more) /\ L + Len(more) <= ReqSize
    BY <1>1, <1>2, <1>3, <1>5
  <2> QED
    BY <1>2, <1>4, <2>1
<1>9. L + Len(more) = Len(lines) + 1 /\ L + Len(more) \in 0 .. ReqSize
  BY <1>1, <1>2, <1>3, <1>5
<1>10. lines # <<>>
  BY <1>5, <1>7
<1>11. /\ hh \in Headers /\ hh.buf = buf /\ hh.len = L + Len(more)
  <2> DEFINE n == L + Len(more)
  <2>1. n \in 0 .. ReqSize
    BY <1>9
  <2>2. hh = [buf |-> buf, len |-> n, status |-> "HTTPSuccess"]
    OBVIOUS
  <2>3. "HTTPSuccess" \in Outcome
    BY DEF Outcome
  <2> HIDE DEF n, hh
  <2>4. hh \in Headers /\ hh.buf = buf /\ hh.len = n
    BY <1>4, <2>1, <2>2, <2>3 DEF Headers
  <2> QED
    BY <2>4 DEF n
<1>12. /\ tt \in Entries /\ tt.lines = lines /\ tt.whole = TRUE
  BY <1>5 DEF Entries
<1> HIDE DEF hh, tt
<1>13. Holds(hh, tt)
  BY <1>6, <1>7, <1>8, <1>9, <1>10, <1>11, <1>12 DEF Holds
<1> QED
  BY <1>13 DEF hh, tt, buf, lines, L, old, one, more

\* What is written of a header that is refused begins with the first piece of
\* its name, or is nothing if that is why.
LEMMA PartType ==
  ASSUME NEW field \in Seq(Piece), field # <<>>, NEW value \in Seq(Piece)
  PROVE  /\ Part(field, value) \in Seq(Piece)
         /\ Copied(field, TRUE) = <<>> => Part(field, value) = <<>>
         /\ Copied(field, TRUE) # <<>> =>
              Len(Part(field, value)) >= 1 /\ Part(field, value)[1] = field[1] /\ field[1] # CRLF
<1> DEFINE head == Copied(field, TRUE)
           rest == Copied(value, FALSE)
<1>1. /\ head \in Seq(Piece)
      /\ Refused(field, TRUE) = {} => head = field
      /\ head # <<>> => head[1] = field[1] /\ field[1] # CRLF
  BY CopiedType
<1>2. rest \in Seq(Piece)
  <2>1. CASE value = <<>>
    <3>1. Len(value) = 0
      BY <2>1
    <3>2. Refused(value, FALSE) = {}
      BY <3>1 DEF Refused
    <3> QED
      BY <2>1, <3>2 DEF Copied
  <2>2. CASE value # <<>>
    BY <2>2, CopiedType
  <2> QED
    BY <2>1, <2>2
<1>3. ":" \in Piece
  BY LiteralsArePieces
<1> HIDE DEF head, rest
<1>4. CASE Refused(field, TRUE) # {}
  <2>1. Part(field, value) = head
    BY <1>4 DEF Part, head
  <2>2. head # <<>> => Len(head) >= 1
    BY <1>1
  <2> QED
    BY <1>1, <2>1, <2>2 DEF head
<1>5. CASE Refused(field, TRUE) = {}
  <2>1. Part(field, value) = field \o <<":">> \o rest
    BY <1>5 DEF Part, rest
  <2>2. Len(field) >= 1
    OBVIOUS
  <2>3. /\ field \o <<":">> \o rest \in Seq(Piece) /\ Len(field \o <<":">> \o rest) >= 1
        /\ (field \o <<":">> \o rest)[1] = field[1]
    BY <1>2, <1>3, <2>2
  <2>4. head = field
    BY <1>1, <1>5
  <2> QED
    BY <1>1, <2>1, <2>3, <2>4 DEF head
<1> QED
  BY <1>4, <1>5

\* A header that is refused takes the empty line away, and the beginning of its
\* name stays; without either the text is what it was.
LEMMA RefusedHolds ==
  ASSUME NEW h, NEW t, Holds(h, t),
         NEW field \in Seq(Piece), field # <<>>, NEW value \in Seq(Piece),
         Len(t.lines) + Len(Line(field, value)) + 1 <= ReqSize,
         NEW hh, hh = [h EXCEPT !.buf = Put(h.buf, Len(t.lines), Part(field, value)),
                                !.status = "HTTPSecurityAlertInvalidCharacter"]
  PROVE  /\ t.whole /\ Copied(field, TRUE) # <<>> =>
              Holds(hh, [lines |-> Append(t.lines, Head(field)), whole |-> FALSE, ok |-> FALSE])
         /\ ~(t.whole /\ Copied(field, TRUE) # <<>>) => Holds(hh, [t EXCEPT !.ok = FALSE])
<1> DEFINE old  == t.lines
           L    == Len(old)
           part == Part(field, value)
           head == Copied(field, TRUE)
           buf  == Put(h.buf, L, part)
<1>1. /\ old \in Seq(Piece) /\ L \in Nat /\ t.whole \in BOOLEAN /\ t \in Entries
      /\ h \in Headers /\ h.buf \in [1 .. ReqSize -> Piece] /\ ReqSize \in Nat
      /\ h.len = L + (IF t.whole THEN 1 ELSE 0) /\ h.len \in 0 .. ReqSize
      /\ \A i \in 1 .. L : h.buf[i] = old[i]
  BY RequestAssumption DEF Holds, Headers, Entries
<1>2. L + 1 <= ReqSize
  BY <1>1, LineType
<1>3. field[1] \in Piece /\ Head(field) = field[1]
  <2>1. 1 \in 1 .. Len(field)
    OBVIOUS
  <2> QED
    BY <2>1
<1>4. /\ part \in Seq(Piece)
      /\ head = <<>> => part = <<>>
      /\ head # <<>> => Len(part) >= 1 /\ part[1] = field[1] /\ field[1] # CRLF
  BY PartType
<1> HIDE DEF part, head
<1>5. /\ buf \in [1 .. ReqSize -> Piece]
      /\ \A i \in 1 .. ReqSize : i <= L => buf[i] = h.buf[i]
      /\ \A i \in 1 .. Len(part) : L + i <= ReqSize => buf[L + i] = part[i]
  BY <1>1, <1>4, PutType
<1>6. ASSUME head = <<>> PROVE buf = h.buf
  <2>1. part = <<>> /\ Len(part) = 0
    BY <1>4, <1>6
  <2>2. \A i \in 1 .. ReqSize : buf[i] = h.buf[i]
    BY <2>1, <1>1 DEF Put
  <2> DEFINE before == h.buf
  <2>3. before \in [1 .. ReqSize -> Piece] /\ \A i \in 1 .. ReqSize : buf[i] = before[i]
    BY <1>1, <2>2
  <2> HIDE DEF buf, before
  <2>4. buf = before
    <3>1. buf = [i \in 1 .. ReqSize |-> buf[i]] /\ before = [i \in 1 .. ReqSize |-> before[i]]
      BY <1>5, <2>3
    <3>2. [i \in 1 .. ReqSize |-> buf[i]] = [i \in 1 .. ReqSize |-> before[i]]
      BY <2>3
    <3> QED
      BY <3>1, <3>2
  <2> QED
    BY <2>4 DEF before
<1>7. hh = [h EXCEPT !.buf = buf, !.status = "HTTPSecurityAlertInvalidCharacter"]
  BY DEF part
<1> HIDE DEF buf
<1>8. "HTTPSecurityAlertInvalidCharacter" \in Outcome
  BY DEF Outcome
<1>9. hh \in Headers /\ hh.buf = buf /\ hh.len = h.len
  BY <1>1, <1>5, <1>7, <1>8 DEF Headers
<1>10. \A i \in 1 .. L : buf[i] = old[i]
  <2> SUFFICES ASSUME NEW i \in 1 .. L PROVE buf[i] = old[i]
    OBVIOUS
  <2>1. i \in 1 .. ReqSize /\ i <= L
    BY <1>1, <1>2
  <2> QED
    BY <1>1, <1>5, <2>1
<1>11. ASSUME t.whole, head # <<>>
       PROVE  Holds(hh, [lines |-> Append(old, field[1]), whole |-> FALSE, ok |-> FALSE])
  <2> DEFINE lines == Append(old, field[1])
             tt    == [lines |-> lines, whole |-> FALSE, ok |-> FALSE]
  <2>1. /\ lines \in Seq(Piece) /\ Len(lines) = L + 1 /\ lines[L + 1] = field[1]
        /\ \A i \in 1 .. L : lines[i] = old[i]
    BY <1>1, <1>3
  <2>2. buf[L + 1] = field[1]
    <3>1. 1 \in 1 .. Len(part) /\ L + 1 <= ReqSize
      BY <1>2, <1>4, <1>11
    <3> QED
      BY <1>4, <1>5, <1>11, <3>1
  <2> HIDE DEF lines, L
  <2>3. ASSUME NEW i \in 1 .. Len(lines) PROVE buf[i] = lines[i]
    <3>1. i \in 1 .. L \/ i = L + 1
      BY <1>1, <2>1
    <3> QED
      BY <1>10, <2>1, <2>2, <3>1 DEF L
  <2>4. ~(lines[Len(lines) - 1] = CRLF /\ lines[Len(lines)] = CRLF)
    BY <1>4, <1>11, <2>1
  <2>5. tt \in Entries /\ tt.lines = lines /\ tt.whole = FALSE
    BY <2>1 DEF Entries
  <2>6. hh.len = Len(lines)
    BY <1>1, <1>9, <1>11, <2>1
  <2> HIDE DEF tt
  <2>7. Holds(hh, tt)
    BY <1>9, <2>3, <2>4, <2>5, <2>6 DEF Holds
  <2> QED
    BY <2>7 DEF tt, lines
<1>12. ASSUME ~(t.whole /\ head # <<>>) PROVE Holds(hh, [t EXCEPT !.ok = FALSE])
  <2> DEFINE tt == [t EXCEPT !.ok = FALSE]
  <2>1. tt \in Entries /\ tt.lines = old /\ tt.whole = t.whole
    BY <1>1 DEF Entries
  <2> HIDE DEF tt
  <2>2. t.whole => buf = h.buf
    BY <1>6, <1>12
  <2>3. Holds(hh, tt)
    BY <1>1, <1>9, <1>10, <2>1, <2>2 DEF Holds
  <2> QED
    BY <2>3 DEF tt
<1> QED
  BY <1>3, <1>11, <1>12 DEF head

\* A header that is added, or not, is an entry of the text.
LEMMA AddHeaderHolds ==
  ASSUME NEW h, NEW t, Holds(h, t),
         NEW field \in Seq(Piece), field # <<>>, NEW value \in Seq(Piece)
  PROVE  /\ Holds(AddHeader(h, field, value), Entry(t, field, value))
         /\ AddHeader(h, field, value).status = "HTTPSuccess" <=> Entry(t, field, value).ok
<1> DEFINE at    == Len(t.lines)
           none  == [h EXCEPT !.status = "HTTPInsufficientMemory"]
           wrong == [h EXCEPT !.buf = Put(h.buf, at, Part(field, value)),
                              !.status = "HTTPSecurityAlertInvalidCharacter"]
           taken == [buf |-> Put(h.buf, at, Whole(field, value)), len |-> at + Len(Whole(field, value)),
                     status |-> "HTTPSuccess"]
           same  == [t EXCEPT !.ok = FALSE]
           more  == [lines |-> t.lines \o Line(field, value), whole |-> TRUE, ok |-> TRUE]
           begun == [lines |-> Append(t.lines, Head(field)), whole |-> FALSE, ok |-> FALSE]
           begin == t.whole /\ Copied(field, TRUE) # <<>>
<1>1. /\ h \in Headers /\ t \in Entries /\ at \in Nat /\ ReqSize \in Nat
  BY RequestAssumption DEF Holds, Entries
<1>2. /\ Len(Line(field, value)) \in Nat
      /\ Len(Whole(field, value)) = Len(Line(field, value)) + 1
  BY LineType
<1>3. AddHeader(h, field, value) = IF NoRoom(at, Whole(field, value)) THEN none
                                   ELSE IF Bad(field, value) # {} THEN wrong ELSE taken
  BY BacktracksToLines, AddHeaderCases, Zenon
<1>4. Entry(t, field, value) = IF at + Len(Line(field, value)) + 1 > ReqSize THEN same
                               ELSE IF Bad(field, value) = {} THEN more ELSE IF begin THEN begun ELSE same
  BY EntryCases, Zenon
<1>5. NoRoom(at, Whole(field, value)) <=> at + Len(Line(field, value)) + 1 > ReqSize
  <2> HIDE DEF at
  <2> QED
    BY <1>1, <1>2 DEF NoRoom
<1>6. same \in Entries /\ same.lines = t.lines /\ same.whole = t.whole /\ same.ok = FALSE
  BY <1>1 DEF Entries
<1>7. /\ "HTTPInsufficientMemory" \in Outcome
      /\ "HTTPInsufficientMemory" # "HTTPSuccess"
      /\ "HTTPSecurityAlertInvalidCharacter" # "HTTPSuccess"
  BY DEF Outcome
<1>8. none \in Headers /\ none.buf = h.buf /\ none.len = h.len /\ none.status # "HTTPSuccess"
  BY <1>1, <1>7 DEF Headers
<1>9. wrong.status # "HTTPSuccess"
  BY <1>1, <1>7 DEF Headers
<1>10. taken.status = "HTTPSuccess" /\ more.ok = TRUE /\ begun.ok = FALSE
  OBVIOUS
<1>11. CASE NoRoom(at, Whole(field, value))
  <2>1. AddHeader(h, field, value) = none /\ Entry(t, field, value) = same
    BY <1>3, <1>4, <1>5, <1>11, Zenon
  <2> HIDE DEF none, same
  <2>2. Holds(none, same)
    BY <1>6, <1>8 DEF Holds
  <2> QED
    BY <1>6, <1>8, <2>1, <2>2
<1>12. CASE ~NoRoom(at, Whole(field, value)) /\ Bad(field, value) = {}
  <2>1. AddHeader(h, field, value) = taken /\ Entry(t, field, value) = more
    BY <1>3, <1>4, <1>5, <1>12, Zenon
  <2>2. Len(t.lines) + Len(Line(field, value)) + 1 <= ReqSize
    BY <1>1, <1>2, <1>5, <1>12
  <2>3. Holds(taken, more)
    BY <2>2, TakenHolds
  <2> HIDE DEF taken, more
  <2> QED
    BY <1>10, <2>1, <2>3
<1>13. CASE ~NoRoom(at, Whole(field, value)) /\ Bad(field, value) # {}
  <2>1. AddHeader(h, field, value) = wrong /\ Entry(t, field, value) = IF begin THEN begun ELSE same
    BY <1>3, <1>4, <1>5, <1>13, Zenon
  <2>2. Len(t.lines) + Len(Line(field, value)) + 1 <= ReqSize
    BY <1>1, <1>2, <1>5, <1>13
  <2>3. /\ begin => Holds(wrong, begun)
        /\ ~begin => Holds(wrong, same)
    BY <2>2, RefusedHolds
  <2> HIDE DEF wrong, begun, same, begin
  <2> QED
    BY <1>6, <1>9, <1>10, <2>1, <2>3
<1> QED
  BY <1>11, <1>12, <1>13

-----------------------------------------------------------------------------
(* The request line and the headers that a request begins with.            *)

\* What TextAssumption says of one request.
TextOf(req) ==
  /\ req.method \in STRING /\ req.method # CRLF
  /\ req.path \in Seq(STRING) /\ (req.path # <<>> => req.path[Len(req.path)] # CRLF)
  /\ req.host \in Seq(STRING)
  /\ req.body \in Nat
  /\ req.keepAlive \in BOOLEAN /\ req.noLength \in BOOLEAN

\* A sequence of strings is a sequence of pieces.
LEMMA StringsType == \A b \in Seq(STRING) : b \in Seq(Piece)
<1> SUFFICES ASSUME NEW b \in Seq(STRING) PROVE b \in Seq(Piece)
  OBVIOUS
<1>1. Len(b) \in Nat /\ b = [i \in 1 .. Len(b) |-> b[i]]
  OBVIOUS
<1>2. ASSUME NEW i \in 1 .. Len(b) PROVE b[i] \in Piece
  <2>1. b[i] \in STRING
    OBVIOUS
  <2> QED
    BY <2>1, LiteralsArePieces, Zenon
<1>3. [i \in 1 .. Len(b) |-> b[i]] \in Seq(Piece)
  BY <1>1, <1>2
<1> QED
  BY <1>1, <1>3, Zenon

LineOf(req) == <<req.method>> \o Path(req) \o <<CRLF>>

Fits(req) == req.method # NoMethod /\ req.host # <<>> /\ Len(LineOf(req)) <= ReqSize

FirstEntry(req) ==
  [lines |-> IF Fits(req) THEN LineOf(req) ELSE <<>>, whole |-> FALSE, ok |-> Fits(req)]

\* A path is never empty on the line, and ends in no line break.
LEMMA PathType ==
  ASSUME NEW req, TextOf(req)
  PROVE  /\ Path(req) \in Seq(Piece) /\ Path(req) # <<>>
         /\ Path(req)[Len(Path(req))] # CRLF
<1>1. CASE req.path = <<>>
  <2>1. "/" \in Piece /\ "/" # CRLF
    <3>1. "/" \in Literal
      BY DEF Literal
    <3> QED
      BY <3>1, LiteralsArePieces DEF CRLF
  <2> QED
    BY <1>1, <2>1 DEF Path
<1>2. CASE req.path # <<>>
  BY <1>2, StringsType DEF Path, TextOf
<1> QED
  BY <1>1, <1>2

\* The request line is the first line, or there is none.
LEMMA StartedHolds ==
  ASSUME NEW req, TextOf(req)
  PROVE  /\ Holds(Started(Blank, req), FirstEntry(req))
         /\ Started(Blank, req).status = "HTTPSuccess" <=> FirstEntry(req).ok
<1> DEFINE line  == LineOf(req)
           path  == Path(req)
           start == <<req.method>> \o path
           n     == Len(line)
           buf   == Put(Blank.buf, 0, line)
           named == req.method # NoMethod /\ req.host # <<>>
<1>1. req.method \in Piece /\ path \in Seq(Piece) /\ CRLF \in Piece /\ ReqSize \in Nat
      /\ path # <<>> /\ path[Len(path)] # CRLF
  BY LiteralsArePieces, PathType, RequestAssumption DEF TextOf
<1> HIDE DEF path
<1>2. start \in Seq(Piece) /\ Len(start) \in Nat /\ Len(start) = Len(path) + 1 /\ start[Len(start)] # CRLF
  BY <1>1
<1>3. line = start \o <<CRLF>>
  BY DEF LineOf, path
<1> HIDE DEF start, line, named
<1>4. line \in Seq(Piece) /\ n \in Nat /\ n = Len(start) + 1 /\ line[n - 1] # CRLF
  BY <1>1, <1>2, <1>3
<1>5. Blank \in Headers /\ Blank.buf \in [1 .. ReqSize -> Piece]
  <2>1. "0" \in Piece
    <3>1. "0" \in Literal
      BY DEF Literal
    <3> QED
      BY <3>1, LiteralsArePieces
  <2>2. "HTTPSuccess" \in Outcome /\ 0 \in 0 .. ReqSize
    BY <1>1 DEF Outcome
  <2> DEFINE empty == [i \in 1 .. ReqSize |-> "0"]
  <2>3. empty \in [1 .. ReqSize -> Piece] /\ Blank = [buf |-> empty, len |-> 0, status |-> "HTTPSuccess"]
    BY <2>1 DEF Blank
  <2> HIDE DEF empty
  <2> QED
    BY <2>2, <2>3 DEF Headers
<1>6. CASE ~named \/ n > ReqSize
  <2> DEFINE none == IF named THEN [Blank EXCEPT !.len = 0, !.status = "HTTPInsufficientMemory"]
                     ELSE [Blank EXCEPT !.status = "HTTPInvalidParameter"]
             text == [lines |-> <<>>, whole |-> FALSE, ok |-> FALSE]
  <2>1. Started(Blank, req) = none
    BY <1>6, Zenon DEF Started, RequestLine, line, LineOf, named
  <2>2. FirstEntry(req) = text
    <3>1. ~named \/ ~(n <= ReqSize)
      BY <1>1, <1>4, <1>6
    <3>2. Fits(req) = FALSE
      BY <3>1 DEF Fits, line, named
    <3> QED
      BY <3>2, Zenon DEF FirstEntry
  <2>3. {"HTTPInsufficientMemory", "HTTPInvalidParameter"} \subseteq Outcome /\ 0 \in 0 .. ReqSize
    BY <1>1 DEF Outcome
  <2>4. none \in Headers /\ none.len = 0 /\ none.status # "HTTPSuccess"
    BY <1>5, <2>3 DEF Headers, Blank
  <2>5. /\ text \in Entries /\ text.lines = <<>> /\ Len(text.lines) = 0 /\ text.whole = FALSE
        /\ text.ok = FALSE
    BY DEF Entries
  <2> HIDE DEF none, text
  <2>6. Holds(none, text)
    BY <2>4, <2>5 DEF Holds
  <2> QED
    BY <2>1, <2>2, <2>4, <2>5, <2>6
<1>7. CASE named /\ ~(n > ReqSize)
  <2> DEFINE hh   == [buf |-> buf, len |-> n, status |-> "HTTPSuccess"]
             text == [lines |-> line, whole |-> FALSE, ok |-> TRUE]
  <2>1. Started(Blank, req) = hh
    BY <1>7, Zenon DEF Started, RequestLine, line, LineOf, named
  <2>2. FirstEntry(req) = text
    <3>1. n <= ReqSize
      BY <1>1, <1>4, <1>7
    <3> QED
      BY <1>7, <3>1 DEF FirstEntry, Fits, line, named
  <2>3. buf \in [1 .. ReqSize -> Piece] /\ \A i \in 1 .. n : 0 + i <= ReqSize => buf[0 + i] = line[i]
    BY <1>4, <1>5, PutType
  <2> HIDE DEF n, buf
  <2>4. \A i \in 1 .. n : buf[i] = line[i]
    <3> SUFFICES ASSUME NEW i \in 1 .. n PROVE buf[i] = line[i]
      OBVIOUS
    <3>1. 0 + i = i /\ i <= ReqSize
      BY <1>1, <1>4, <1>7
    <3> QED
      BY <2>3, <3>1
  <2>5. "HTTPSuccess" \in Outcome /\ n \in 0 .. ReqSize
    BY <1>1, <1>4, <1>7 DEF Outcome
  <2>6. hh \in Headers /\ hh.buf = buf /\ hh.len = n /\ hh.status = "HTTPSuccess"
    BY <2>3, <2>5 DEF Headers
  <2>7. text \in Entries /\ text.lines = line /\ text.whole = FALSE /\ text.ok = TRUE
    BY <1>4 DEF Entries
  <2>8. n = Len(line)
    BY DEF n
  <2> HIDE DEF hh, text
  <2>9. Holds(hh, text)
    BY <1>4, <2>4, <2>6, <2>7, <2>8 DEF Holds
  <2> QED
    BY <2>1, <2>2, <2>6, <2>7, <2>9
<1> QED
  BY <1>6, <1>7

-----------------------------------------------------------------------------
(* What is added to them.                                                  *)

\* A call that is refused before anything is written changes no text.
LEMMA RefusedCallHolds ==
  ASSUME NEW h, NEW t, Holds(h, t), NEW st \in Outcome
  PROVE  Holds([h EXCEPT !.status = st], [t EXCEPT !.ok = FALSE]) /\ Holds([h EXCEPT !.status = st], t)
<1> DEFINE hh == [h EXCEPT !.status = st]
           tt == [t EXCEPT !.ok = FALSE]
<1>1. h \in Headers /\ t \in Entries
  BY DEF Holds
<1>2. hh \in Headers /\ hh.buf = h.buf /\ hh.len = h.len
  BY <1>1 DEF Headers
<1>3. tt \in Entries /\ tt.lines = t.lines /\ tt.whole = t.whole
  BY <1>1 DEF Entries
<1> HIDE DEF hh, tt
<1>4. Holds(hh, tt) /\ Holds(hh, t)
  BY <1>2, <1>3 DEF Holds
<1> QED
  BY <1>4 DEF hh, tt

\* The pieces of a value, one behind the other.
LEMMA Joined ==
  ASSUME NEW a \in Piece, NEW b \in Piece, NEW c \in Piece
  PROVE  /\ <<a>> \o <<b>> \o <<c>> = <<a, b, c>>
         /\ <<a>> \o <<b, c>> \o <<>> = <<a, b, c>>
<1> DEFINE x == <<a>> \o <<b>> \o <<c>>
           z == <<a>> \o <<b, c>> \o <<>>
<1>1. x \in Seq(Piece) /\ Len(x) = 3 /\ x[1] = a /\ x[2] = b /\ x[3] = c
  OBVIOUS
<1>2. z \in Seq(Piece) /\ Len(z) = 3 /\ z[1] = a /\ z[2] = b /\ z[3] = c
  OBVIOUS
<1> HIDE DEF x, z
<1>3. x = <<a, b, c>>
  BY <1>1
<1>4. z = <<a, b, c>>
  BY <1>2
<1> QED
  BY <1>3, <1>4 DEF x, z

\* The value of a range as it is written, for each of the ranges that can be
\* asked for.
LEMMA RangeValues ==
  ASSUME NEW start \in Int, NEW end \in Int
  PROVE  /\ 0 <= start /\ end = EndOfFile => RangeValue(start, end) = <<"bytes=", ToString(start), "-">>
         /\ 0 <= start /\ start <= end =>
              RangeValue(start, end) = <<"bytes=", ToString(start), "-", ToString(end)>>
         /\ start < 0 /\ end = EndOfFile => RangeValue(start, end) = <<"bytes=", "-", ToString(-start)>>
<1> DEFINE from == ToString(start)
           to   == ToString(end)
           back == ToString(-start)
<1>0. /\ "bytes=" \in Piece /\ "-" \in Piece /\ from \in Piece /\ to \in Piece /\ back \in Piece
  <2>1. "bytes=" \in Literal /\ "-" \in Literal /\ -start \in Int
    BY DEF Literal
  <2> QED
    BY <2>1, LiteralsArePieces, Zenon
<1>1. ASSUME 0 <= start, end = EndOfFile
      PROVE  RangeValue(start, end) = <<"bytes=", ToString(start), "-">>
  <2>1. ConvertInt32ToAscii(start) = <<ToString(start)>>
    BY <1>1 DEF ConvertInt32ToAscii
  <2>2. RangeValue(start, end) = <<"bytes=">> \o <<ToString(start)>> \o <<"-">>
    BY <1>1, <2>1 DEF RangeValue
  <2> HIDE DEF from
  <2>3. <<"bytes=">> \o <<from>> \o <<"-">> = <<"bytes=", from, "-">>
    BY <1>0, Joined
  <2> QED
    BY <2>2, <2>3 DEF from
<1>2. ASSUME 0 <= start, start <= end
      PROVE  RangeValue(start, end) = <<"bytes=", ToString(start), "-", ToString(end)>>
  <2>1. ConvertInt32ToAscii(start) = <<ToString(start)>> /\ ConvertInt32ToAscii(end) = <<ToString(end)>>
    BY <1>2 DEF ConvertInt32ToAscii
  <2>2. end # EndOfFile
    BY <1>2 DEF EndOfFile
  <2>3. RangeValue(start, end) = <<"bytes=">> \o <<ToString(start)>> \o (<<"-">> \o <<ToString(end)>>)
    BY <2>1, <2>2 DEF RangeValue
  <2> HIDE DEF from, to
  <2>4. <<"bytes=">> \o <<from>> \o (<<"-">> \o <<to>>) = <<"bytes=", from, "-", to>>
    <3> DEFINE y == <<"bytes=">> \o <<from>> \o (<<"-">> \o <<to>>)
    <3>1. /\ y \in Seq(Piece) /\ Len(y) = 4
          /\ y[1] = "bytes=" /\ y[2] = from /\ y[3] = "-" /\ y[4] = to
      BY <1>0
    <3> HIDE DEF y
    <3>2. y = <<"bytes=", from, "-", to>>
      BY <3>1
    <3> QED
      BY <3>2 DEF y
  <2> QED
    BY <2>3, <2>4 DEF from, to
<1>3. ASSUME start < 0, end = EndOfFile
      PROVE  RangeValue(start, end) = <<"bytes=", "-", ToString(-start)>>
  <2>1. ConvertInt32ToAscii(start) = <<"-", ToString(-start)>>
    BY <1>3 DEF ConvertInt32ToAscii
  <2>2. RangeValue(start, end) = <<"bytes=">> \o <<"-", ToString(-start)>> \o <<>>
    BY <1>3, <2>1 DEF RangeValue
  <2> HIDE DEF back
  <2>3. <<"bytes=">> \o <<"-", back>> \o <<>> = <<"bytes=", "-", back>>
    BY <1>0, Joined, Zenon
  <2> QED
    BY <2>2, <2>3 DEF back
<1> QED
  BY <1>1, <1>2, <1>3

\* A range is an entry of the text, or refused.
LEMMA RangeHolds ==
  ASSUME NEW h, NEW t, Holds(h, t), NEW start \in Int, start >= Int32Min, NEW end \in Int
  PROVE  Holds(AddRangeHeader(h, start, end), RangeEntry(t, start, end))
<1> DEFINE wrong == \/ end < EndOfFile
                    \/ start < 0 /\ end # EndOfFile
                    \/ end # EndOfFile /\ start > end
                    \/ start = Int32Min
           from  == 0 <= start /\ end = EndOfFile
           both  == 0 <= start /\ start <= end
           last  == Int32Min < start /\ start < 0 /\ end = EndOfFile
           name  == <<"Ra", "nge">>
           v1    == <<"bytes=", ToString(start), "-">>
           v2    == <<"bytes=", ToString(start), "-", ToString(end)>>
           v3    == <<"bytes=", "-", ToString(-start)>>
           none  == [t EXCEPT !.ok = FALSE]
           e1    == Entry(t, name, v1)
           e2    == Entry(t, name, v2)
           e3    == Entry(t, name, v3)
<1>1. /\ ~wrong <=> from \/ both \/ last
      /\ ~(from /\ both) /\ ~(from /\ last) /\ ~(both /\ last)
  BY DEF EndOfFile, Int32Min
<1>2. RangeEntry(t, start, end) = CASE from -> e1 [] both -> e2 [] last -> e3 [] OTHER -> none
  BY Zenon DEF RangeEntry
<1>3. AddRangeHeader(h, start, end) =
        IF wrong THEN [h EXCEPT !.status = "HTTPInvalidParameter"]
        ELSE AddHeader(h, name, RangeValue(start, end))
  BY Zenon DEF AddRangeHeader
<1>4. /\ name \in Seq(Piece) /\ name # <<>>
      /\ v1 \in Seq(Piece) /\ v2 \in Seq(Piece) /\ v3 \in Seq(Piece)
  <2>1. "Ra" \in Literal /\ "nge" \in Literal /\ "bytes=" \in Literal /\ "-" \in Literal
    BY DEF Literal
  <2>2. /\ "Ra" \in Piece /\ "nge" \in Piece /\ "bytes=" \in Piece /\ "-" \in Piece
        /\ ToString(start) \in Piece /\ ToString(end) \in Piece /\ ToString(-start) \in Piece
    <3>1. start \in Int /\ end \in Int /\ -start \in Int
      OBVIOUS
    <3> QED
      BY <2>1, <3>1, LiteralsArePieces, Zenon
  <2> QED
    BY <2>2
<1>5. /\ from => RangeValue(start, end) = v1
      /\ both => RangeValue(start, end) = v2
      /\ last => RangeValue(start, end) = v3
  BY RangeValues
<1>6. /\ Holds(AddHeader(h, name, v1), e1)
      /\ Holds(AddHeader(h, name, v2), e2)
      /\ Holds(AddHeader(h, name, v3), e3)
  BY <1>4, AddHeaderHolds
<1>7. Holds([h EXCEPT !.status = "HTTPInvalidParameter"], none)
  <2>1. "HTTPInvalidParameter" \in Outcome
    BY DEF Outcome
  <2> QED
    BY <2>1, RefusedCallHolds
<1> HIDE DEF wrong, from, both, last, name, v1, v2, v3, none, e1, e2, e3
<1>8. CASE wrong
  <2>1. RangeEntry(t, start, end) = none
    BY <1>1, <1>2, <1>8
  <2> QED
    BY <1>3, <1>7, <1>8, <2>1, Zenon
<1>9. CASE from
  <2>1. RangeEntry(t, start, end) = e1
    BY <1>1, <1>2, <1>9
  <2> QED
    BY <1>1, <1>3, <1>5, <1>6, <1>9, <2>1, Zenon
<1>10. CASE both
  <2>1. RangeEntry(t, start, end) = e2
    BY <1>1, <1>2, <1>10
  <2> QED
    BY <1>1, <1>3, <1>5, <1>6, <1>10, <2>1, Zenon
<1>11. CASE last
  <2>1. RangeEntry(t, start, end) = e3
    BY <1>1, <1>2, <1>11
  <2> QED
    BY <1>1, <1>3, <1>5, <1>6, <1>11, <2>1, Zenon
<1> QED
  BY <1>1, <1>8, <1>9, <1>10, <1>11

\* What an application adds is an entry of the text.
LEMMA CallHolds ==
  ASSUME NEW h, NEW t, Holds(h, t), NEW c \in Additions
  PROVE  Holds(AddCall(h, c), CallEntry(t, c))
<1>1. IF "field" \in DOMAIN c
      THEN c.field \in Seq(STRING) /\ c.value \in Seq(STRING)
      ELSE c.start \in Int /\ c.start >= Int32Min /\ c.end \in Int
  BY TextAssumption
<1>2. CASE "field" \in DOMAIN c
  <2>1. c.field \in Seq(Piece) /\ c.value \in Seq(Piece)
    BY <1>1, <1>2, StringsType
  <2>2. CASE c.field = <<>> \/ c.value = <<>>
    <3>1. "HTTPInvalidParameter" \in Outcome
      BY DEF Outcome
    <3>2. Holds([h EXCEPT !.status = "HTTPInvalidParameter"], [t EXCEPT !.ok = FALSE])
      BY <3>1, RefusedCallHolds
    <3> QED
      BY <1>2, <2>2, <3>2 DEF AddCall, CallEntry
  <2>3. CASE c.field # <<>> /\ c.value # <<>>
    <3>1. Holds(AddHeader(h, c.field, c.value), Entry(t, c.field, c.value))
      BY <2>1, <2>3, AddHeaderHolds
    <3> QED
      BY <1>2, <2>3, <3>1 DEF AddCall, CallEntry
  <2> QED
    BY <2>2, <2>3
<1>3. CASE "field" \notin DOMAIN c
  <2>1. c.start \in Int /\ c.start >= Int32Min /\ c.end \in Int
    BY <1>1, <1>3
  <2>2. Holds(AddRangeHeader(h, c.start, c.end), RangeEntry(t, c.start, c.end))
    BY <2>1, RangeHolds
  <2> QED
    BY <1>3, <2>2 DEF AddCall, CallEntry
<1> QED
  BY <1>2, <1>3

\* The text with what HTTPClient_Send adds.
WithLength(t, req) ==
  IF req.body = 0 \/ req.noLength THEN t
  ELSE Entry(t, <<"Co", "ntent-Length">>, <<ToString(req.body)>>)

\* The Content-Length is an entry of the text, when it is added.
LEMMA LengthHolds ==
  ASSUME NEW h, NEW t, Holds(h, t), NEW req, TextOf(req)
  PROVE  Holds(AddContentLength(h, req), WithLength(t, req))
<1>1. CASE req.body = 0 \/ req.noLength
  <2>1. "HTTPSuccess" \in Outcome
    BY DEF Outcome
  <2>2. Holds([h EXCEPT !.status = "HTTPSuccess"], t)
    BY <2>1, RefusedCallHolds
  <2> QED
    BY <1>1, <2>2, Zenon DEF AddContentLength, WithLength
<1>2. CASE ~(req.body = 0 \/ req.noLength)
  <2> DEFINE name == <<"Co", "ntent-Length">>
  <2>1. ConvertInt32ToAscii(req.body) = <<ToString(req.body)>>
    <3>1. req.body \in Nat /\ ~(req.body < 0)
      BY DEF TextOf
    <3> QED
      BY <3>1 DEF ConvertInt32ToAscii
  <2>2. name \in Seq(Piece) /\ name # <<>> /\ <<ToString(req.body)>> \in Seq(Piece)
    <3>1. "Co" \in Literal /\ "ntent-Length" \in Literal /\ req.body \in Int
      BY DEF Literal, TextOf
    <3>2. "Co" \in Piece /\ "ntent-Length" \in Piece /\ ToString(req.body) \in Piece
      BY <3>1, LiteralsArePieces, Zenon
    <3> QED
      BY <3>2
  <2>3. Holds(AddHeader(h, name, <<ToString(req.body)>>), Entry(t, name, <<ToString(req.body)>>))
    BY <2>2, AddHeaderHolds
  <2> QED
    BY <1>2, <2>1, <2>3, Zenon DEF AddContentLength, WithLength
<1> QED
  BY <1>1, <1>2

-----------------------------------------------------------------------------
(* The request headers as they are composed.                               *)

\* The headers that a request begins with have a name.
LEMMA InitialType ==
  ASSUME NEW req, TextOf(req)
  PROVE  /\ Len(Initial(req)) \in Nat
         /\ \A i \in 1 .. Len(Initial(req)) :
              /\ Initial(req)[i].field \in Seq(Piece) /\ Initial(req)[i].field # <<>>
              /\ Initial(req)[i].value \in Seq(Piece)
<1> DEFINE agent == [field |-> <<"Us", "er-Agent">>, value |-> <<"platform">>]
           host  == [field |-> <<"Ho", "st">>, value |-> req.host]
           alive == [field |-> <<"Co", "nnection">>, value |-> <<"keep-alive">>]
           WithName == [field : Seq(Piece) \ {<<>>}, value : Seq(Piece)]
<1>1. /\ "Us" \in Piece /\ "er-Agent" \in Piece /\ "platform" \in Piece /\ "Ho" \in Piece
      /\ "st" \in Piece /\ "Co" \in Piece /\ "nnection" \in Piece /\ "keep-alive" \in Piece
  <2>1. /\ "Us" \in Literal /\ "er-Agent" \in Literal /\ "platform" \in Literal /\ "Ho" \in Literal
        /\ "st" \in Literal /\ "Co" \in Literal /\ "nnection" \in Literal /\ "keep-alive" \in Literal
    BY DEF Literal
  <2> QED
    BY <2>1, LiteralsArePieces
<1>2. req.host \in Seq(Piece)
  BY StringsType DEF TextOf
<1>3. /\ agent.field \in Seq(Piece) /\ agent.field # <<>> /\ agent.value \in Seq(Piece)
      /\ host.field \in Seq(Piece) /\ host.field # <<>> /\ host.value \in Seq(Piece)
      /\ alive.field \in Seq(Piece) /\ alive.field # <<>> /\ alive.value \in Seq(Piece)
  BY <1>1, <1>2
<1>4. agent \in WithName /\ host \in WithName /\ alive \in WithName
  BY <1>3
<1>5. \A e \in WithName : e.field \in Seq(Piece) /\ e.field # <<>> /\ e.value \in Seq(Piece)
  OBVIOUS
<1>6. Initial(req) = <<agent, host>> \o (IF req.keepAlive THEN <<alive>> ELSE <<>>)
  BY DEF Initial
<1> HIDE DEF agent, host, alive, WithName
<1>7. Initial(req) \in Seq(WithName)
  BY <1>4, <1>6
<1> QED
  BY <1>5, <1>7

\* The texts that a buffer can hold.
Held == {t \in Entries : \E h \in Headers : Holds(h, t)}

\* What the i-th header makes of a text.
EntryAt(req, added, t, i) ==
  IF i > Len(Initial(req)) THEN CallEntry(t, added[i - Len(Initial(req))])
  ELSE IF t.ok THEN Entry(t, Initial(req)[i].field, Initial(req)[i].value)
  ELSE t

\* f has the texts after each header.
Composes(f, req, added) ==
  /\ f \in [0 .. Len(Initial(req)) + Len(added) -> Held]
  /\ f[0] = FirstEntry(req)
  /\ \A i \in 1 .. Len(Initial(req)) + Len(added) : f[i] = EntryAt(req, added, f[i - 1], i)

\* They are what Composed is defined by.
LEMMA ComposedIs ==
  ASSUME NEW req, TextOf(req), NEW added \in Seq(Additions)
  PROVE  \E f : /\ Composes(f, req, added)
                /\ Composed(req, added) = f[Len(Initial(req)) + Len(added)]
<1> DEFINE N == Len(Initial(req))
           n == N + Len(added)
           IsEntry(f) == f = [i \in 0 .. n |->
                                IF i = 0 THEN FirstEntry(req)
                                ELSE IF i > N THEN CallEntry(f[i - 1], added[i - N])
                                ELSE IF f[i - 1].ok
                                THEN Entry(f[i - 1], Initial(req)[i].field, Initial(req)[i].value)
                                ELSE f[i - 1]]
           IsAt(f)    == f = [i \in 0 .. n |-> IF i = 0 THEN FirstEntry(req)
                                               ELSE EntryAt(req, added, f[i - 1], i)]
           entry == CHOOSE f : IsEntry(f)
           g == [t \in Held |-> [i \in Nat |-> IF i \in 1 .. n THEN EntryAt(req, added, t, i) ELSE t]]
<1>1. N \in Nat /\ Len(added) \in Nat /\ n \in Nat
  BY InitialType
<1>2. Composed(req, added) = entry[n]
  BY DEF Composed, FirstEntry, Fits, LineOf, Path
<1>3. \A f : IsEntry(f) <=> IsAt(f)
  BY DEF EntryAt
<1>4. FirstEntry(req) \in Held
  BY StartedHolds DEF Held, Holds
<1>5. ASSUME NEW t \in Held, NEW i \in 1 .. n PROVE EntryAt(req, added, t, i) \in Held
  <2>1. PICK h \in Headers : Holds(h, t)
    BY DEF Held
  <2>2. CASE i > N
    <3>1. i - N \in 1 .. Len(added)
      BY <1>1, <2>2
    <3>2. added[i - N] \in Additions
      BY <3>1
    <3>3. Holds(AddCall(h, added[i - N]), CallEntry(t, added[i - N]))
      BY <2>1, <3>2, CallHolds
    <3>4. CallEntry(t, added[i - N]) \in Held
      BY <3>3 DEF Held, Holds
    <3> QED
      BY <2>2, <3>4 DEF EntryAt
  <2>3. CASE ~(i > N)
    <3> DEFINE field == Initial(req)[i].field
               value == Initial(req)[i].value
    <3>1. i \in 1 .. N
      BY <1>1, <2>3
    <3>2. field \in Seq(Piece) /\ field # <<>> /\ value \in Seq(Piece)
      BY <3>1, InitialType
    <3>3. Holds(AddHeader(h, field, value), Entry(t, field, value))
      BY <2>1, <3>2, AddHeaderHolds
    <3>4. Entry(t, field, value) \in Held
      BY <3>3 DEF Held, Holds
    <3> QED
      BY <2>3, <3>4 DEF EntryAt
  <2> QED
    BY <2>2, <2>3
<1> HIDE DEF N, n
<1>6. g \in [Held -> [Nat -> Held]]
  BY <1>5
<1>7. \A t \in Held : \A i \in 1 .. n : g[t][i] = EntryAt(req, added, t, i)
  BY <1>1
<1> HIDE DEF g
<1>8. PICK f : Recurses(f, Held, FirstEntry(req), g, n)
  BY <1>1, <1>4, <1>6, Recursion
<1>9. ASSUME NEW i \in 1 .. n PROVE f[i] = EntryAt(req, added, f[i - 1], i)
  <2>1. f[i - 1] \in Held /\ f[i] = g[f[i - 1]][i]
    BY <1>1, <1>8 DEF Recurses
  <2> QED
    BY <1>7, <2>1
<1>10. f \in [0 .. n -> Held] /\ f[0] = FirstEntry(req)
  BY <1>8 DEF Recurses
<1>11. IsAt(f)
  BY <1>1, <1>9, <1>10
<1>12. \E h : IsEntry(h)
  BY <1>3, <1>11
<1>13. IsEntry(entry)
  BY <1>12
<1>14. IsAt(entry)
  BY <1>3, <1>13
<1> HIDE DEF entry
<1>15. entry[0] = FirstEntry(req) /\ \A i \in 1 .. n : entry[i] = EntryAt(req, added, entry[i - 1], i)
  <2>1. ASSUME NEW i \in 0 .. n
        PROVE  entry[i] = IF i = 0 THEN FirstEntry(req) ELSE EntryAt(req, added, entry[i - 1], i)
    BY <1>14
  <2>2. 0 \in 0 .. n /\ \A i \in 1 .. n : i \in 0 .. n /\ i # 0
    BY <1>1
  <2> QED
    BY <2>1, <2>2, Zenon
<1> DEFINE S == {i \in Nat : i <= n => entry[i] = f[i]}
<1>16. 0 \in S
  BY <1>10, <1>15
<1>17. ASSUME NEW i \in Nat, i \in S PROVE i + 1 \in S
  <2>1. CASE i + 1 <= n
    <3>1. entry[i] = f[i] /\ i + 1 \in 1 .. n /\ (i + 1) - 1 = i
      BY <1>1, <1>17, <2>1
    <3> QED
      BY <1>9, <1>15, <3>1
  <2>2. CASE ~(i + 1 <= n)
    BY <2>2
  <2> QED
    BY <2>1, <2>2
<1> HIDE DEF S
<1>18. n \in S
  BY <1>1, <1>16, <1>17, Induction
<1>19. Composed(req, added) = f[n]
  BY <1>1, <1>2, <1>18 DEF S
<1>20. Composes(f, req, added)
  BY <1>9, <1>10 DEF Composes, n, N
<1> QED
  BY <1>19, <1>20 DEF n, N

\* One call more makes one entry more.
LEMMA ComposedStep ==
  ASSUME NEW req, TextOf(req), NEW added \in Seq(Additions), NEW c \in Additions
  PROVE  Composed(req, Append(added, c)) = CallEntry(Composed(req, added), c)
<1> DEFINE more == Append(added, c)
           N == Len(Initial(req))
           n == N + Len(added)
<1>1. /\ N \in Nat /\ Len(added) \in Nat /\ n \in Nat
      /\ more \in Seq(Additions) /\ Len(more) = Len(added) + 1 /\ more[Len(added) + 1] = c
      /\ \A i \in 1 .. Len(added) : more[i] = added[i]
  BY InitialType
<1>2. PICK f : /\ Composes(f, req, added)
               /\ Composed(req, added) = f[n]
  BY ComposedIs
<1> HIDE DEF more
<1>3. PICK h : /\ Composes(h, req, more)
               /\ Composed(req, more) = h[N + Len(more)]
  BY <1>1, ComposedIs
<1> HIDE DEF N
<1>4. /\ f[0] = FirstEntry(req) /\ h[0] = FirstEntry(req)
      /\ \A i \in 1 .. n : f[i] = EntryAt(req, added, f[i - 1], i)
      /\ \A i \in 1 .. n + 1 : h[i] = EntryAt(req, more, h[i - 1], i)
  BY <1>1, <1>2, <1>3 DEF Composes, N
<1>5. ASSUME NEW i \in 1 .. n, NEW t PROVE EntryAt(req, more, t, i) = EntryAt(req, added, t, i)
  <2>1. CASE i > N
    <3>1. i - N \in 1 .. Len(added)
      BY <1>1, <2>1
    <3>2. more[i - N] = added[i - N]
      BY <1>1, <3>1
    <3> QED
      BY <2>1, <3>2 DEF EntryAt, N
  <2>2. CASE ~(i > N)
    BY <2>2 DEF EntryAt, N
  <2> QED
    BY <2>1, <2>2
<1> DEFINE S == {i \in Nat : i <= n => h[i] = f[i]}
<1>6. 0 \in S
  BY <1>4
<1> HIDE DEF n
<1>7. ASSUME NEW i \in Nat, i \in S PROVE i + 1 \in S
  <2>1. CASE i + 1 <= n
    <3>1. h[i] = f[i] /\ i + 1 \in 1 .. n /\ i + 1 \in 1 .. n + 1 /\ (i + 1) - 1 = i
      BY <1>1, <1>7, <2>1
    <3> QED
      BY <1>4, <1>5, <3>1
  <2>2. CASE ~(i + 1 <= n)
    BY <2>2
  <2> QED
    BY <2>1, <2>2
<1> HIDE DEF S
<1>8. n \in S
  BY <1>1, <1>6, <1>7, Induction
<1>9. h[n] = f[n]
  BY <1>1, <1>8 DEF S
<1>10. n + 1 \in 1 .. n + 1 /\ (n + 1) - 1 = n /\ n + 1 = N + Len(more) /\ n + 1 > N /\ (n + 1) - N = Len(added) + 1
  BY <1>1 DEF n
<1>11. h[n + 1] = EntryAt(req, more, h[n], n + 1)
  BY <1>4, <1>10
<1>12. EntryAt(req, more, h[n], n + 1) = CallEntry(h[n], more[(n + 1) - N])
  BY <1>10 DEF EntryAt, N
<1>13. more[(n + 1) - N] = c
  BY <1>1, <1>10
<1> QED
  BY <1>2, <1>3, <1>9, <1>10, <1>11, <1>12, <1>13 DEF more

\* The request begins with the text of no call.
LEMMA InitializeHolds ==
  ASSUME NEW req, TextOf(req), NEW h \in Initialize(Blank, req)
  PROVE  Holds(h, Composed(req, <<>>)) /\ (h.status = "HTTPSuccess" <=> Composed(req, <<>>).ok)
<1> DEFINE N == Len(Initial(req))
           At(p, i) == IF p.status = "HTTPSuccess"
                       THEN AddHeader(p, Initial(req)[i].field, Initial(req)[i].value) ELSE p
           IsPut(f) == f = [i \in 0 .. N |-> IF i = 0 THEN {Started(Blank, req)}
                                             ELSE {At(p, i) : p \in f[i - 1]}]
           put == CHOOSE f : IsPut(f)
           Good == {p \in Headers : \E t \in Entries : Holds(p, t)}
           T == SUBSET Good
           first == {Started(Blank, req)}
           g == [P \in T |-> [i \in Nat |-> IF i \in 1 .. N THEN {At(p, i) : p \in P} ELSE P]]
<1>1. N \in Nat
  BY InitialType
<1>2. h \in put[N]
  BY DEF Initialize
<1>3. \A i \in 1 .. N : /\ Initial(req)[i].field \in Seq(Piece) /\ Initial(req)[i].field # <<>>
                        /\ Initial(req)[i].value \in Seq(Piece)
  BY InitialType
<1>4. ASSUME NEW i \in 1 .. N, NEW p, NEW t, Holds(p, t),
             p.status = "HTTPSuccess" <=> t.ok
      PROVE  /\ Holds(At(p, i), EntryAt(req, <<>>, t, i))
             /\ At(p, i).status = "HTTPSuccess" <=> EntryAt(req, <<>>, t, i).ok
  <2> DEFINE field == Initial(req)[i].field
             value == Initial(req)[i].value
  <2>1. ~(i > N)
    BY <1>1
  <2>2. EntryAt(req, <<>>, t, i) = IF t.ok THEN Entry(t, field, value) ELSE t
    BY <2>1 DEF EntryAt
  <2>3. /\ Holds(AddHeader(p, field, value), Entry(t, field, value))
        /\ AddHeader(p, field, value).status = "HTTPSuccess" <=> Entry(t, field, value).ok
    BY <1>3, <1>4, AddHeaderHolds
  <2> HIDE DEF field, value
  <2>4. At(p, i) = IF p.status = "HTTPSuccess" THEN AddHeader(p, field, value) ELSE p
    BY DEF field, value
  <2> HIDE DEF At
  <2> QED
    BY <1>4, <2>2, <2>3, <2>4
<1>5. ASSUME NEW i \in 1 .. N, NEW p \in Good PROVE At(p, i) \in Good
  <2>1. PICK t \in Entries : Holds(p, t)
    OBVIOUS
  <2>2. Holds(AddHeader(p, Initial(req)[i].field, Initial(req)[i].value),
              Entry(t, Initial(req)[i].field, Initial(req)[i].value))
    BY <1>3, <2>1, AddHeaderHolds
  <2>3. AddHeader(p, Initial(req)[i].field, Initial(req)[i].value) \in Good
    BY <2>2 DEF Holds
  <2> QED
    BY <2>3
<1>6. first \in T
  <2>1. Started(Blank, req) \in Good
    BY StartedHolds DEF Holds
  <2> QED
    BY <2>1
<1> HIDE DEF N, At, Good
<1>7. g \in [T -> [Nat -> T]] /\ \A P \in T : \A i \in 1 .. N : g[P][i] = {At(p, i) : p \in P}
  <2>1. ASSUME NEW P \in T, NEW i \in Nat
        PROVE  (IF i \in 1 .. N THEN {At(p, i) : p \in P} ELSE P) \in T
    BY <1>5
  <2>2. g \in [T -> [Nat -> T]]
    BY <2>1
  <2> QED
    BY <1>1, <2>2
<1> HIDE DEF g, T, first
<1>8. PICK f : Recurses(f, T, first, g, N)
  BY <1>1, <1>6, <1>7, Recursion
<1>9. ASSUME NEW i \in 1 .. N PROVE f[i] = {At(p, i) : p \in f[i - 1]}
  <2>1. f[i - 1] \in T /\ f[i] = g[f[i - 1]][i]
    BY <1>1, <1>8 DEF Recurses
  <2> QED
    BY <1>7, <2>1
<1>10. f \in [0 .. N -> T] /\ f[0] = {Started(Blank, req)}
  BY <1>8 DEF Recurses, first
<1>11. IsPut(f)
  BY <1>1, <1>9, <1>10
<1>12. IsPut(put)
  BY <1>11
<1> HIDE DEF put
<1>13. /\ put[0] = {Started(Blank, req)}
       /\ \A i \in 1 .. N : put[i] = {At(p, i) : p \in put[i - 1]}
  <2>1. ASSUME NEW i \in 0 .. N
        PROVE  put[i] = IF i = 0 THEN {Started(Blank, req)} ELSE {At(p, i) : p \in put[i - 1]}
    BY <1>12
  <2>2. 0 \in 0 .. N /\ \A i \in 1 .. N : i \in 0 .. N /\ i # 0
    BY <1>1
  <2> QED
    BY <2>1, <2>2, Zenon
<1>14. PICK e : /\ Composes(e, req, <<>>)
                /\ Composed(req, <<>>) = e[N + Len(<<>>)]
  <2>1. <<>> \in Seq(Additions)
    OBVIOUS
  <2>2. \E e : /\ Composes(e, req, <<>>)
               /\ Composed(req, <<>>) = e[Len(Initial(req)) + Len(<<>>)]
    BY <2>1, ComposedIs
  <2> QED
    BY <2>2 DEF N
<1>15. /\ Composed(req, <<>>) = e[N] /\ e[0] = FirstEntry(req)
       /\ \A i \in 1 .. N : e[i] = EntryAt(req, <<>>, e[i - 1], i)
  BY <1>1, <1>14 DEF Composes, N
<1> DEFINE Agreed(i) == \A p \in put[i] : Holds(p, e[i]) /\ (p.status = "HTTPSuccess" <=> e[i].ok)
           S == {i \in Nat : i <= N => Agreed(i)}
<1>16. 0 \in S
  BY <1>13, <1>15, StartedHolds
<1>17. ASSUME NEW i \in Nat, i \in S PROVE i + 1 \in S
  <2>1. CASE i + 1 <= N
    <3>1. Agreed(i) /\ i + 1 \in 1 .. N /\ (i + 1) - 1 = i
      BY <1>1, <1>17, <2>1
    <3>2. put[i + 1] = {At(p, i + 1) : p \in put[i]} /\ e[i + 1] = EntryAt(req, <<>>, e[i], i + 1)
      BY <1>13, <1>15, <3>1
    <3>3. ASSUME NEW p \in put[i]
          PROVE  /\ Holds(At(p, i + 1), e[i + 1])
                 /\ At(p, i + 1).status = "HTTPSuccess" <=> e[i + 1].ok
      BY <1>4, <3>1, <3>2
    <3> QED
      BY <3>2, <3>3
  <2>2. CASE ~(i + 1 <= N)
    BY <2>2
  <2> QED
    BY <2>1, <2>2
<1> HIDE DEF S
<1>18. N \in S
  BY <1>1, <1>16, <1>17, Induction
<1>19. Agreed(N)
  BY <1>1, <1>18 DEF S
<1> QED
  BY <1>2, <1>15, <1>19

-----------------------------------------------------------------------------
(* The request on the wire.                                                *)

\* Three texts are joined from either side.
LEMMA Regroup ==
  ASSUME NEW a \in Seq(Piece), NEW b \in Seq(Piece), NEW c \in Seq(Piece)
  PROVE  /\ a \o b \in Seq(Piece) /\ b \o c \in Seq(Piece)
         /\ (a \o b) \o c = a \o (b \o c)
<1>1. a \o b \in Seq(Piece) /\ b \o c \in Seq(Piece)
  BY JoinIs
<1>2. (a \o b) \o c = a \o (b \o c)
  <2>1. JoinsEitherWay(Piece)
    BY JoinTwice
  <2> QED
    BY <2>1, Zenon DEF JoinsEitherWay
<1> QED
  BY <1>1, <1>2

\* What is behind a text does not change how it begins.
LEMMA BeginsWith ==
  ASSUME NEW a \in Seq(Piece), NEW b \in Seq(Piece)
  PROVE  IsPrefix(a, a \o b)
<1> DEFINE ab == a \o b
           x  == SubSeq(a, 1, Len(a))
           y  == SubSeq(ab, 1, Len(a))
<1>1. /\ ab \in Seq(Piece) /\ Len(ab) = Len(a) + Len(b) /\ Len(a) \in Nat /\ Len(b) \in Nat
      /\ \A i \in 1 .. Len(a) : ab[i] = a[i]
  BY JoinIs
<1> HIDE DEF ab
<1>2. /\ x \in Seq(Piece) /\ Len(x) = Len(a) /\ \A i \in 1 .. Len(a) : x[i] = a[i]
  <2>1. 1 \in 1 .. Len(a) + 1 /\ Len(a) \in 0 .. Len(a) /\ 1 <= Len(a) + 1 /\ Len(a) - 1 + 1 = Len(a)
        /\ \A i \in 1 .. Len(a) : 1 + i - 1 = i
    BY <1>1
  <2> QED
    BY <2>1, SubSeqIs
<1>3. /\ y \in Seq(Piece) /\ Len(y) = Len(a) /\ \A i \in 1 .. Len(a) : y[i] = ab[i]
  <2>1. 1 \in 1 .. Len(ab) + 1 /\ Len(a) \in 0 .. Len(ab) /\ 1 <= Len(a) + 1 /\ Len(a) - 1 + 1 = Len(a)
        /\ \A i \in 1 .. Len(a) : 1 + i - 1 = i
    BY <1>1
  <2> QED
    BY <1>1, <2>1, SubSeqIs
<1> HIDE DEF x, y
<1>4. x = y
  BY <1>1, <1>2, <1>3, SameItems
<1> QED
  BY <1>1, <1>4 DEF IsPrefix, x, y, ab

LEMMA BeginsBoth ==
  ASSUME NEW a \in Seq(Piece), NEW b \in Seq(Piece), NEW c \in Seq(Piece)
  PROVE  IsPrefix(a, (a \o b) \o c)
<1>1. b \o c \in Seq(Piece) /\ (a \o b) \o c = a \o (b \o c)
  BY Regroup
<1>2. IsPrefix(a, a \o (b \o c))
  BY <1>1, BeginsWith, Zenon
<1> QED
  BY <1>1, <1>2, Zenon

\* A text with the empty line, if it has one, and a body.
TextIn(t)   == t.lines \o (IF t.whole THEN <<CRLF>> ELSE <<>>)
BodyOf(req) == [i \in 1 .. req.body |-> "data"]

\* A body is pieces, none if it is empty.
LEMMA BodyType ==
  ASSUME NEW req, TextOf(req)
  PROVE  BodyOf(req) \in Seq(Piece) /\ (req.body = 0 => BodyOf(req) = <<>>)
<1>1. "data" \in Literal /\ req.body \in Nat
  BY DEF Literal, TextOf
<1>2. "data" \in Piece
  BY <1>1, LiteralsArePieces
<1> QED
  BY <1>1, <1>2 DEF BodyOf

\* The request is in these parts.
LEMMA RequestParts ==
  ASSUME NEW req, NEW added
  PROVE  RequestText(req, added) = TextIn(WithLength(Composed(req, added), req)) \o BodyOf(req)
BY Zenon DEF RequestText, TextIn, WithLength, BodyOf

\* What is sent of the buffer is the text that it holds.
LEMMA SentIsText ==
  ASSUME NEW h, NEW t, Holds(h, t)
  PROVE  SubSeq(h.buf, 1, h.len) = TextIn(t) /\ TextIn(t) \in Seq(Piece)
<1> DEFINE x == SubSeq(h.buf, 1, h.len)
           y == TextIn(t)
           L == Len(t.lines)
           b == h.buf
           n == h.len
           old == t.lines
<1>1. /\ old \in Seq(Piece) /\ L \in Nat /\ L = Len(old) /\ t.whole \in BOOLEAN
      /\ b \in [1 .. ReqSize -> Piece] /\ ReqSize \in Nat /\ n \in 0 .. ReqSize
      /\ n = L + (IF t.whole THEN 1 ELSE 0)
      /\ \A i \in 1 .. L : b[i] = old[i]
      /\ t.whole => b[L + 1] = CRLF
  BY RequestAssumption DEF Holds, Headers, Entries
<1>2. CRLF \in Piece
  BY LiteralsArePieces
<1> HIDE DEF L, b, n, old
<1>3. /\ x \in Seq(Piece) /\ Len(x) = n
      /\ \A i \in 1 .. n : x[i] = b[i]
  <2>1. x = SubSeq(b, 1, n)
    BY DEF b, n
  <2>2. b \in Seq(Piece) /\ Len(b) = ReqSize
    BY <1>1
  <2>3. 1 \in 1 .. Len(b) + 1 /\ n \in 0 .. Len(b) /\ 1 <= n + 1 /\ n - 1 + 1 = n
        /\ \A i \in 1 .. n : 1 + i - 1 = i
    BY <1>1, <2>2
  <2>4. /\ SubSeq(b, 1, n) \in Seq(Piece) /\ Len(SubSeq(b, 1, n)) = n - 1 + 1
        /\ \A i \in 1 .. n - 1 + 1 : SubSeq(b, 1, n)[i] = b[1 + i - 1]
    BY <2>2, <2>3, SubSeqIs
  <2> HIDE DEF x
  <2> QED
    BY <2>1, <2>3, <2>4
<1>4. /\ y \in Seq(Piece) /\ Len(y) = n
      /\ \A i \in 1 .. n : y[i] = IF i <= L THEN old[i] ELSE CRLF
  <2>1. y = old \o (IF t.whole THEN <<CRLF>> ELSE <<>>)
    BY DEF TextIn, old
  <2> HIDE DEF y
  <2>2. CASE t.whole
    BY <1>1, <1>2, <2>1, <2>2
  <2>3. CASE ~t.whole
    <3>1. y = old \o <<>> /\ n = L
      BY <1>1, <2>1, <2>3
    <3> QED
      BY <1>1, <3>1
  <2> QED
    BY <1>1, <2>2, <2>3
<1> HIDE DEF x, y
<1>5. ASSUME NEW i \in 1 .. n PROVE x[i] = y[i]
  <2>1. CASE i <= L
    <3>1. i \in 1 .. L
      BY <1>1, <2>1
    <3> QED
      BY <1>1, <1>3, <1>4, <2>1, <3>1
  <2>2. CASE ~(i <= L)
    <3>1. t.whole /\ i = L + 1
      BY <1>1, <2>2
    <3> QED
      BY <1>1, <1>3, <1>4, <2>2, <3>1
  <2> QED
    BY <2>1, <2>2
<1>6. x = y
  BY <1>3, <1>4, <1>5, SameItems
<1> QED
  BY <1>4, <1>6 DEF x, y

\* Where the request is: in the buffer, before that nowhere, then in parts on
\* the wire and about to go there.
WireInv ==
  /\ pc \in {"idle", "socket", "resolve", "connect", "initialize", "headers", "send", "send headers",
             "send body", "receive", "close", "done"}
  /\ wire \in Seq(Piece) /\ out \in Seq(Piece) /\ calls \in Seq(Additions)
  /\ pc # "idle" => TextOf(q)
  /\ pc \in {"idle", "socket", "resolve", "connect", "initialize"} => calls = <<>> /\ wire = <<>>
  /\ pc \in {"headers", "send"} => Holds(r, Composed(q, calls)) /\ wire = <<>>
  /\ pc = "send headers" => (wire \o out) \o BodyOf(q) = RequestText(q, calls)
  /\ pc = "send body" => wire \o out = RequestText(q, calls)
  /\ pc = "receive" => wire = RequestText(q, calls)
  /\ pc \in {"close", "done"} => wire = <<>> \/ IsPrefix(wire, RequestText(q, calls))

\* Nothing is on the wire at first.
LEMMA WireInit == Init => WireInv
BY DEF Init, WireInv

\* A call that does not move leaves the request where it is.
LEMMA StaysOnWire ==
  ASSUME WireInv, UNCHANGED <<pc, q, calls, out, wire, r>>
  PROVE  WireInv'
BY DEF WireInv

\* A call that ends leaves the beginning of the request on the wire.
LEMMA EndsOnWire ==
  ASSUME WireInv, pc \notin {"idle", "done"}, pc' \in {"close", "done"},
         UNCHANGED <<q, calls, out, wire>>
  PROVE  WireInv'
<1> DEFINE text == RequestText(q, calls)
           body == BodyOf(q)
<1>1. /\ wire \in Seq(Piece) /\ out \in Seq(Piece) /\ calls \in Seq(Additions) /\ TextOf(q)
      /\ pc = "send headers" => (wire \o out) \o body = text
      /\ pc = "send body" => wire \o out = text
      /\ pc = "receive" => wire = text
      /\ pc = "close" => wire = <<>> \/ IsPrefix(wire, text)
      /\ pc \in {"socket", "resolve", "connect", "initialize", "headers", "send"} => wire = <<>>
      /\ pc \in {"socket", "resolve", "connect", "initialize", "headers", "send", "send headers",
                 "send body", "receive", "close"}
  BY DEF WireInv
<1>2. body \in Seq(Piece)
  BY <1>1, BodyType
<1> HIDE DEF text, body
<1>3. wire = <<>> \/ IsPrefix(wire, text)
  <2>1. CASE pc = "send headers"
    <3>1. wire \in Seq(Piece) /\ out \in Seq(Piece) /\ (wire \o out) \o body = text
      BY <1>1, <2>1, Zenon
    <3>2. wire \in Seq(Piece) /\ out \in Seq(Piece) /\ body \in Seq(Piece)
      BY <1>2, <3>1
    <3>3. IsPrefix(wire, (wire \o out) \o body)
      BY <3>2, BeginsBoth
    <3> QED
      BY <3>1, <3>3, Zenon
  <2>2. CASE pc = "send body"
    BY <1>1, <2>2, BeginsWith
  <2>3. CASE pc = "receive"
    BY <1>1, <2>3 DEF IsPrefix
  <2> QED
    BY <1>1, <2>1, <2>2, <2>3
<1> QED
  BY <1>1, <1>3 DEF WireInv, text

\* HTTPClient_Send hands the text of the buffer to the transport.
LEMMA SendKeeps ==
  ASSUME WireInv, Send
  PROVE  WireInv'
<1>1. /\ pc = "send" /\ wire = <<>> /\ TextOf(q) /\ Holds(r, Composed(q, calls))
      /\ UNCHANGED <<q, calls, wire>>
  BY DEF Send, WireInv
<1>2. CASE r.len < MinimumLength
  <2>1. pc' \in {"close", "done"} /\ UNCHANGED out
    BY <1>2 DEF Send, Returned
  <2> QED
    BY <1>1, <2>1, EndsOnWire
<1>3. CASE ~(r.len < MinimumLength) /\ r'.status # "HTTPSuccess"
  <2>1. pc' \in {"close", "done"} /\ UNCHANGED out
    BY <1>3 DEF Send, Returned
  <2> QED
    BY <1>1, <2>1, EndsOnWire
<1>4. CASE ~(r.len < MinimumLength) /\ r'.status = "HTTPSuccess"
  <2> DEFINE text == WithLength(Composed(q, calls), q)
  <2>1. r' = AddContentLength(r, q) /\ out' = SubSeq(r'.buf, 1, r'.len) /\ pc' = "send headers"
    BY <1>4 DEF Send
  <2>2. Holds(AddContentLength(r, q), text)
    BY <1>1, LengthHolds
  <2>3. out' = TextIn(text) /\ TextIn(text) \in Seq(Piece)
    BY <2>1, <2>2, SentIsText
  <2>4. RequestText(q, calls) = TextIn(text) \o BodyOf(q)
    BY RequestParts
  <2> HIDE DEF text
  <2>5. wire' \o out' = out'
    BY <1>1, <2>3
  <2>6. (wire' \o out') \o BodyOf(q) = RequestText(q, calls)
    BY <2>3, <2>4, <2>5
  <2>7. BodyOf(q)' = BodyOf(q) /\ RequestText(q, calls)' = RequestText(q, calls) /\ TextOf(q)'
    BY <1>1
  <2> QED
    BY <1>1, <2>1, <2>3, <2>6, <2>7 DEF WireInv
<1> QED
  BY <1>2, <1>3, <1>4

\* What the transport takes goes on the wire; behind the headers comes the body.
LEMMA TransmitKeeps ==
  ASSUME WireInv, NEW n \in 1 .. ReqSize, Transmit(n)
  PROVE  WireInv'
<1> DEFINE text  == RequestText(q, calls)
           body  == BodyOf(q)
           taken == SubSeq(out, 1, n)
           left  == SubSeq(out, n + 1, Len(out))
<1>1. /\ pc \in {"send headers", "send body"} /\ n \in 1 .. Len(out) /\ wire' = wire \o taken
      /\ UNCHANGED <<q, calls, r>>
      /\ wire \in Seq(Piece) /\ out \in Seq(Piece) /\ calls \in Seq(Additions) /\ TextOf(q)
      /\ pc = "send headers" => (wire \o out) \o body = text
      /\ pc = "send body" => wire \o out = text
  BY DEF Transmit, request, WireInv
<1>2. taken \in Seq(Piece) /\ left \in Seq(Piece) /\ taken \o left = out
  BY <1>1, CutInTwo
<1>3. body \in Seq(Piece) /\ (q.body = 0 => body = <<>>) /\ q.body \in Nat
  BY <1>1, BodyType DEF TextOf
<1>4. \/ left # <<>> /\ out' = left /\ pc' = pc
      \/ /\ left = <<>> /\ pc = "send headers"
         /\ out' = body /\ pc' = "send body"
      \/ left = <<>> /\ (pc = "send body" \/ q.body = 0) /\ out' = <<>> /\ pc' = "receive"
  <2> DEFINE more == left # <<>>
             data == left = <<>> /\ pc = "send headers" /\ q.body > 0
  <2>1. ~more /\ ~data => left = <<>> /\ (pc = "send body" \/ q.body = 0)
    <3> HIDE DEF left
    <3>1. q.body > 0 \/ q.body = 0
      BY <1>3
    <3> QED
      BY <1>1, <3>1
  <2>2. CASE more
    <3>1. out' = left /\ pc' = pc
      BY <2>2 DEF Transmit
    <3> QED
      BY <2>2, <3>1
  <2>3. CASE data
    <3>1. out' = body /\ pc' = "send body"
      BY <2>3 DEF Transmit, BodyOf
    <3> QED
      BY <2>3, <3>1
  <2>4. CASE ~more /\ ~data
    <3>1. out' = <<>> /\ pc' = "receive"
      BY <2>4 DEF Transmit
    <3> QED
      BY <2>1, <2>4, <3>1
  <2> QED
    BY <2>2, <2>3, <2>4
<1>5. text' = text /\ body' = body /\ TextOf(q)'
  BY <1>1
<1> HIDE DEF text, body, taken, left
<1>6. wire' \in Seq(Piece) /\ out' \in Seq(Piece) /\ wire' \o left = wire \o out
  <2>1. wire \in Seq(Piece) /\ taken \in Seq(Piece) /\ left \in Seq(Piece)
    BY <1>1, <1>2
  <2>2. wire \o taken \in Seq(Piece) /\ (wire \o taken) \o left = wire \o (taken \o left)
    BY <2>1, Regroup, Zenon
  <2>3. out' \in Seq(Piece)
    <3>1. <<>> \in Seq(Piece)
      OBVIOUS
    <3> QED
      BY <1>2, <1>3, <1>4, <3>1
  <2> QED
    BY <1>1, <1>2, <2>1, <2>2, <2>3
<1>7. left = <<>> => wire' = wire \o out
  BY <1>6
<1>8. CASE pc = "send headers"
  <2>1. (wire \o out) \o body = text
    BY <1>1, <1>8
  <2>2. CASE left # <<>> /\ out' = left /\ pc' = pc
    <3>1. pc' = "send headers" /\ (wire' \o out') \o body = text
      BY <1>6, <1>8, <2>1, <2>2
    <3> QED
      BY <1>1, <1>5, <1>6, <3>1 DEF WireInv, text, body
  <2>3. CASE left = <<>> /\ out' = body /\ pc' = "send body"
    <3>1. wire' \o out' = text
      BY <1>7, <2>1, <2>3
    <3> QED
      BY <1>1, <1>5, <1>6, <2>3, <3>1 DEF WireInv, text, body
  <2>4. CASE left = <<>> /\ q.body = 0 /\ out' = <<>> /\ pc' = "receive"
    <3>1. wire' \o <<>> = text
      BY <1>3, <1>7, <2>1, <2>4
    <3>2. wire' = text
      BY <1>6, <3>1
    <3> QED
      BY <1>1, <1>5, <1>6, <2>4, <3>2 DEF WireInv, text, body
  <2> QED
    BY <1>4, <1>8, <2>2, <2>3, <2>4
<1>9. CASE pc = "send body"
  <2>1. wire \o out = text
    BY <1>1, <1>9
  <2>2. CASE left # <<>> /\ out' = left /\ pc' = pc
    <3>1. pc' = "send body" /\ wire' \o out' = text
      BY <1>6, <1>9, <2>1, <2>2
    <3> QED
      BY <1>1, <1>5, <1>6, <3>1 DEF WireInv, text, body
  <2>3. CASE left = <<>> /\ out' = <<>> /\ pc' = "receive"
    <3>1. wire' = text
      BY <1>7, <2>1, <2>3
    <3> QED
      BY <1>1, <1>5, <1>6, <2>3, <3>1 DEF WireInv, text, body
  <2> QED
    BY <1>4, <1>9, <2>2, <2>3
<1> QED
  BY <1>1, <1>8, <1>9

\* Every step keeps the request where WireInv has it.
LEMMA WireStep == WireInv /\ [Next]_vars => WireInv'
<1> SUFFICES ASSUME WireInv, [Next]_vars PROVE WireInv'
  OBVIOUS
<1> USE DEF request, sending, response
<1>1. ASSUME NEW c \in {"spm", "app"}, NEW req \in Requests, Begin(c, req) PROVE WireInv'
  <2>1. TextOf(req)
    BY TextAssumption DEF TextOf
  <2>2. TextOf(q)'
    BY <1>1, <2>1 DEF Begin
  <2>3. pc = "idle" /\ pc' \in {"socket", "initialize"} /\ UNCHANGED <<calls, wire, out>>
    BY <1>1 DEF Begin
  <2> QED
    BY <2>2, <2>3 DEF WireInv
<1>2. CASE Socket \/ Resolve \/ Connect
  <2>1. /\ pc \in {"socket", "resolve", "connect"} /\ UNCHANGED <<q, calls, wire, out>>
        /\ pc' \in {"resolve", "connect", "initialize", "done"}
    BY <1>2 DEF Socket, Resolve, Connect, CloseAndFail
  <2>2. TextOf(q)'
    BY <2>1 DEF WireInv
  <2> QED
    BY <2>1, <2>2 DEF WireInv
<1>3. CASE InitializeHeaders
  <2>1. /\ pc = "initialize" /\ r' \in Initialize(Blank, q) /\ UNCHANGED <<q, calls, wire, out>>
        /\ TextOf(q) /\ calls = <<>> /\ wire = <<>>
    BY <1>3 DEF InitializeHeaders, WireInv
  <2>2. pc' \in {"send", "headers", "done"}
    <3>1. pc' = CASE caller = "spm" -> "send"
                  [] caller = "app" /\ r'.status = "HTTPSuccess" -> "headers"
                  [] OTHER -> "done"
      BY <1>3, Zenon DEF InitializeHeaders
    <3> QED
      BY <3>1
  <2>3. Holds(r', Composed(q, <<>>))
    BY <2>1, InitializeHolds
  <2>4. Holds(r, Composed(q, calls))' /\ TextOf(q)'
    BY <2>1, <2>3
  <2> QED
    BY <2>1, <2>2, <2>4 DEF WireInv
<1>4. ASSUME NEW c \in Additions, Add(c) PROVE WireInv'
  <2>1. /\ pc = "headers" /\ calls' = Append(calls, c) /\ r' = AddCall(r, c) /\ pc' \in {"headers", "send"}
        /\ UNCHANGED <<q, wire, out>>
        /\ Holds(r, Composed(q, calls)) /\ TextOf(q) /\ wire = <<>> /\ calls \in Seq(Additions)
    BY <1>4 DEF Add, WireInv
  <2>2. Holds(AddCall(r, c), CallEntry(Composed(q, calls), c))
    BY <2>1, CallHolds
  <2>3. Composed(q, Append(calls, c)) = CallEntry(Composed(q, calls), c)
    BY <2>1, ComposedStep
  <2>4. Holds(r, Composed(q, calls))' /\ TextOf(q)'
    BY <2>1, <2>2, <2>3
  <2>5. calls' \in Seq(Additions)
    BY <2>1
  <2> QED
    BY <2>1, <2>4, <2>5 DEF WireInv
<1>5. CASE Skip
  <2>1. pc = "headers" /\ pc' = "send" /\ UNCHANGED <<q, r, calls, wire, out>>
    BY <1>5 DEF Skip
  <2>2. Holds(r, Composed(q, calls))' /\ TextOf(q)'
    BY <2>1 DEF WireInv
  <2> QED
    BY <2>1, <2>2 DEF WireInv
<1>6. CASE Send
  BY <1>6, SendKeeps
<1>7. ASSUME NEW n \in 1 .. ReqSize, Transmit(n) PROVE WireInv'
  BY <1>7, TransmitKeeps
<1>8. ASSUME pc \in {"send headers", "send body", "receive", "close"},
             UNCHANGED <<q, calls, out, wire, r>>,
             pc' \in {pc, "close", "done"}
      PROVE  WireInv'
  <2>1. CASE pc' = pc
    BY <1>8, <2>1, StaysOnWire
  <2>2. CASE pc' \in {"close", "done"}
    BY <1>8, <2>2, EndsOnWire
  <2> QED
    BY <1>8, <2>1, <2>2
<1>9. CASE TransmitNothing
  BY <1>8, <1>9 DEF TransmitNothing, Returned
<1>10. ASSUME NEW p, NEW total, NEW over, Continue(p, total, over)
       PROVE  pc' \in {pc, "close", "done"}
  BY <1>10 DEF Continue, Returned
<1>11. ASSUME NEW n \in 1 .. Available, Receive(n) PROVE WireInv'
  <2>1. pc = "receive" /\ UNCHANGED <<q, calls, out, wire, r>> /\ Continue(s', received', FALSE)
    BY <1>11 DEF Receive
  <2> QED
    BY <1>8, <1>10, <2>1
<1>12. CASE ReceiveNothing
  <2>1. /\ pc = "receive" /\ UNCHANGED <<q, calls, out, wire, r>>
        /\ UNCHANGED pc \/ Continue(s', received, TRUE)
    BY <1>12 DEF ReceiveNothing
  <2> QED
    BY <1>8, <1>10, <2>1
<1>13. CASE ReceiveError
  BY <1>8, <1>13 DEF ReceiveError, Returned
<1>14. CASE Close
  BY <1>8, <1>14 DEF Close
<1>15. CASE Return
  <2>1. pc' = "idle" /\ calls' = <<>> /\ wire' = <<>> /\ out' = <<>>
    BY <1>15 DEF Return
  <2>2. <<>> \in Seq(Piece) /\ <<>> \in Seq(Additions)
    OBVIOUS
  <2> QED
    BY <2>1, <2>2 DEF WireInv
<1>16. ASSUME NEW a \in Answers, Answer(a) PROVE WireInv'
  BY <1>16, StaysOnWire DEF Answer
<1>17. CASE ServerClose
  BY <1>17, StaysOnWire DEF ServerClose
<1>18. CASE UNCHANGED vars
  BY <1>18, StaysOnWire DEF vars
<1> QED
  BY <1>1, <1>2, <1>3, <1>4, <1>5, <1>6, <1>7, <1>9, <1>11, <1>12, <1>13, <1>14, <1>15, <1>16,
     <1>17, <1>18 DEF Next, Call

\* The server gets what the calls put together, whatever the size of the buffer,
\* what the application adds and how the transport cuts it.
THEOREM RequestDelivered == Spec => []RequestOnWire
<1>1. WireInv => RequestOnWire
  <2> SUFFICES ASSUME WireInv, wire # <<>>
               PROVE  /\ IsPrefix(wire, RequestText(q, calls))
                      /\ pc = "receive" => wire = RequestText(q, calls)
    BY DEF RequestOnWire
  <2>1. wire \in Seq(Piece) /\ out \in Seq(Piece) /\ BodyOf(q) \in Seq(Piece)
    BY BodyType DEF WireInv
  <2>2. CASE pc = "send headers"
    <3>1. (wire \o out) \o BodyOf(q) = RequestText(q, calls)
      BY <2>2 DEF WireInv
    <3>2. IsPrefix(wire, (wire \o out) \o BodyOf(q))
      BY <2>1, BeginsBoth
    <3>3. IsPrefix(wire, RequestText(q, calls))
      BY <3>1, <3>2, Zenon
    <3> QED
      BY <2>2, <3>3
  <2>3. CASE pc = "send body"
    <3>1. wire \o out = RequestText(q, calls)
      BY <2>3 DEF WireInv
    <3>2. IsPrefix(wire, RequestText(q, calls))
      BY <2>1, <3>1, BeginsWith
    <3> QED
      BY <2>3, <3>2
  <2>4. CASE pc = "receive"
    <3>1. wire = RequestText(q, calls)
      BY <2>4 DEF WireInv
    <3>2. IsPrefix(wire, wire)
      BY <2>1 DEF IsPrefix
    <3> QED
      BY <3>1, <3>2
  <2>5. CASE pc \in {"close", "done"}
    BY <2>5 DEF WireInv
  <2> QED
    BY <2>2, <2>3, <2>4, <2>5 DEF WireInv
<1> QED
  BY <1>1, WireInit, WireStep, PTL DEF Spec

-----------------------------------------------------------------------------
(* What the server sends.                                                  *)

\* A piece of a name says which of the five headers it is of.
Token ==
  {t \in [k : STRING \cup {"nl", "field", "junk", "colon", "lws", "value", "data", "size", "param", "http",
                            "code", "reason"},
           v : Nat] : t.k = "field" => t.v \in General .. Upgrade}

Junk == {t \in [k : STRING, v : Nat] : t.k = "field" => t.v \in General .. Upgrade}

Lines == [name : Nat, value : Seq(Nat)]

Messages ==
  [version : Nat, code : Nat, reason : Seq(Nat), headers : Seq(Lines), chunked : BOOLEAN,
   params : Seq(Nat), body : Seq(Nat), trailer : Seq(Lines), junk : Seq(Junk)]

\* Sequences one behind the other are a sequence.
LEMMA FlatType ==
  ASSUME NEW T, NEW n \in Nat, NEW f \in [1 .. n -> Seq(T)]
  PROVE  FlattenSeq(f) \in Seq(T)
<1>1. f \in Seq(Seq(T)) /\ Len(f) = n
  OBVIOUS
<1>2. CASE n = 0
  <2>1. f = <<>>
    BY <1>1, <1>2
  <2>2. FlattenSeq(f) = f
    <3>1. Len(f) = 0
      BY <1>1, <1>2
    <3> QED
      BY <3>1, Zenon DEF FlattenSeq
  <2>3. <<>> \in Seq(T)
    OBVIOUS
  <2> QED
    BY <2>1, <2>2, <2>3, Zenon
<1>3. CASE n # 0
  <2> DEFINE Is(g) == g = [i \in 1 .. Len(f) |-> IF i = 1 THEN f[i] ELSE g[i - 1] \o f[i]]
             flat == CHOOSE g : Is(g)
  <2>1. FlattenSeq(f) = flat[n]
    BY <1>1, <1>3 DEF FlattenSeq
  <2>2. \E g : Is(g)
    <3> DEFINE add == [x \in Seq(T) |-> [i \in Nat |-> IF i \in 1 .. n THEN x \o f[i] ELSE x]]
    <3>1. <<>> \in Seq(T) /\ add \in [Seq(T) -> [Nat -> Seq(T)]]
      OBVIOUS
    <3>2. PICK h : Recurses(h, Seq(T), <<>>, add, n)
      <4> HIDE DEF add
      <4> QED
        BY <3>1, Recursion, Zenon
    <3>3. /\ h \in [0 .. n -> Seq(T)] /\ h[0] = <<>>
          /\ \A i \in 1 .. n : h[i] = add[h[i - 1]][i]
      BY <3>2 DEF Recurses
    <3>4. ASSUME NEW i \in 1 .. n PROVE h[i] = h[i - 1] \o f[i]
      <4>1. i - 1 \in 0 .. n /\ i \in Nat
        OBVIOUS
      <4>2. h[i - 1] \in Seq(T) /\ h[i] = add[h[i - 1]][i]
        <5> HIDE DEF add
        <5> QED
          BY <3>3, <4>1
      <4> QED
        BY <4>1, <4>2
    <3> HIDE DEF add
    <3> DEFINE g == [i \in 1 .. n |-> h[i]]
    <3>5. ASSUME NEW i \in 1 .. n PROVE g[i] = IF i = 1 THEN f[i] ELSE g[i - 1] \o f[i]
      <4>1. CASE i = 1
        <5>1. i - 1 = 0 /\ f[i] \in Seq(T)
          BY <4>1
        <5>2. h[i] = <<>> \o f[i]
          BY <3>3, <3>4, <5>1, Zenon
        <5> QED
          BY <4>1, <5>1, <5>2
      <4>2. CASE i # 1
        <5>1. i - 1 \in 1 .. n
          BY <4>2
        <5>2. g[i - 1] = h[i - 1] /\ g[i] = h[i] /\ h[i] = h[i - 1] \o f[i]
          BY <3>4, <5>1
        <5> HIDE DEF g
        <5> QED
          BY <4>2, <5>2
      <4> QED
        BY <4>1, <4>2
    <3>6. Is(g)
      <4>1. g = [i \in 1 .. n |-> g[i]]
        OBVIOUS
      <4> HIDE DEF g
      <4>2. g = [i \in 1 .. n |-> IF i = 1 THEN f[i] ELSE g[i - 1] \o f[i]]
        BY <3>5, <4>1
      <4> QED
        BY <1>1, <4>2
    <3> QED
      BY <3>6
  <2>3. Is(flat)
    <3> HIDE DEF Is
    <3> QED
      BY <2>2
  <2> HIDE DEF flat
  <2>4. \A i \in 1 .. n : flat[i] = IF i = 1 THEN f[i] ELSE flat[i - 1] \o f[i]
    BY <1>1, <2>3
  <2> DEFINE S == {i \in Nat : i + 1 <= n => flat[i + 1] \in Seq(T)}
  <2>5. 0 \in S
    BY <1>3, <2>4
  <2>6. ASSUME NEW i \in Nat, i \in S PROVE i + 1 \in S
    <3> SUFFICES ASSUME i + 1 + 1 <= n PROVE flat[i + 1 + 1] \in Seq(T)
      OBVIOUS
    <3> DEFINE k == i + 1 + 1
    <3>1. k \in 1 .. n /\ k # 1 /\ k - 1 = i + 1 /\ flat[i + 1] \in Seq(T) /\ f[k] \in Seq(T)
      BY <2>6
    <3> HIDE DEF k
    <3>2. flat[k] = flat[k - 1] \o f[k]
      BY <2>4, <3>1
    <3>3. flat[k] \in Seq(T)
      BY <3>1, <3>2
    <3> QED
      BY <3>3 DEF k
  <2> HIDE DEF S
  <2>7. n - 1 \in S
    <3>1. Nat \subseteq S
      BY <2>5, <2>6, Induction, Zenon
    <3> QED
      BY <1>3, <3>1
  <2> QED
    BY <1>3, <2>1, <2>7 DEF S
<1> QED
  BY <1>2, <1>3

\* The same, of parts that are functions of a place.
LEMMA TokensType ==
  ASSUME NEW kind, NEW values \in Seq(Nat),
         kind \in {"nl", "field", "junk", "colon", "lws", "value", "data", "size", "param", "http",
                   "code", "reason"},
         kind = "field" => \A i \in 1 .. Len(values) : values[i] \in General .. Upgrade
  PROVE  Tokens(kind, values) \in Seq(Token)
<1> DEFINE token(i) == [k |-> kind, v |-> values[i]]
<1>1. \A i \in 1 .. Len(values) : token(i) \in Token
  BY DEF Token
<1>2. Tokens(kind, values) = [i \in 1 .. Len(values) |-> token(i)] /\ Len(values) \in Nat
  BY DEF Tokens
<1> HIDE DEF token, Token
<1> QED
  BY <1>1, <1>2

LEMMA LineTokens ==
  ASSUME NEW h \in Lines
  PROVE  HeaderLine(h) \in Seq(Token)
<1>1. <<0>> \in Seq(Nat) /\ h.value \in Seq(Nat)
  BY DEF Lines
<1>2. Tokens("colon", <<0>>) \in Seq(Token) /\ NewLine \in Seq(Token) /\ Tokens("junk", <<0>>) \in Seq(Token)
  BY <1>1, TokensType DEF NewLine
<1>3. Name(h.name) \in Seq(Token)
  <2>1. ASSUME NEW name \in General .. Upgrade
        PROVE  /\ <<name>> \in Seq(Nat) /\ \A i \in 1 .. Len(<<name>>) : <<name>>[i] \in General .. Upgrade
               /\ <<name, name>> \in Seq(Nat)
               /\ \A i \in 1 .. Len(<<name, name>>) : <<name, name>>[i] \in General .. Upgrade
    BY DEF General, Upgrade
  <2>2. ASSUME NEW name \in General .. Upgrade
        PROVE  Tokens("field", <<name>>) \in Seq(Token) /\ Tokens("field", <<name, name>>) \in Seq(Token)
    BY <2>1, TokensType
  <2>3. General \in General .. Upgrade /\ {Connection, Length, Encoding, Upgrade} \subseteq General .. Upgrade
    BY DEF General, Connection, Length, Encoding, Upgrade
  <2>4. \/ Name(h.name) = Tokens("field", <<General, General>>)
        \/ h.name \in {Connection, Length, Encoding, Upgrade} /\ Name(h.name) = Tokens("field", <<h.name>>)
        \/ Name(h.name) = Tokens("junk", <<0>>)
    <3> HIDE DEF Connection, Length, Encoding, Upgrade, General
    <3>1. h.name = General => Name(h.name) = Tokens("field", <<General, General>>)
      BY DEF Name, General, Connection, Length, Encoding, Upgrade
    <3>2. h.name # General /\ h.name \in {Connection, Length, Encoding, Upgrade}
            => Name(h.name) = Tokens("field", <<h.name>>)
      BY DEF Name
    <3>3. h.name # General /\ h.name \notin {Connection, Length, Encoding, Upgrade}
            => Name(h.name) = Tokens("junk", <<0>>)
      BY DEF Name
    <3> QED
      BY <3>1, <3>2, <3>3
  <2> HIDE DEF Token, General, Upgrade, Connection, Length, Encoding
  <2> QED
    BY <1>2, <2>2, <2>3, <2>4
<1>4. Value(h.value) \in Seq(Token)
  BY <1>1 DEF Value, Token
<1> QED
  BY <1>2, <1>3, <1>4 DEF HeaderLine

LEMMA LinesTokens ==
  ASSUME NEW hs \in Seq(Lines)
  PROVE  FlattenSeq([i \in 1 .. Len(hs) |-> HeaderLine(hs[i])]) \in Seq(Token)
<1> DEFINE f == [i \in 1 .. Len(hs) |-> HeaderLine(hs[i])]
<1>1. \A i \in 1 .. Len(hs) : HeaderLine(hs[i]) \in Seq(Token)
  BY LineTokens
<1>2. f \in [1 .. Len(hs) -> Seq(Token)] /\ Len(hs) \in Nat
  BY <1>1
<1> HIDE DEF f
<1>3. FlattenSeq(f) \in Seq(Token)
  BY <1>2, FlatType
<1> QED
  BY <1>3 DEF f

\* The body of a message, with its chunks.
LEMMA BodyTokens ==
  ASSUME NEW m \in Messages
  PROVE  BodyText(m) \in Seq(Token)
<1> DEFINE n == Len(m.body)
           data == [i \in 1 .. n |-> Data(m.body[i], i)]
           chunk == [i \in 1 .. n |-> ChunkLine(m, m.body[i]) \o Data(m.body[i], i) \o NewLine]
<1>1. /\ m.body \in Seq(Nat) /\ m.params \in Seq(Nat) /\ m.trailer \in Seq(Lines) /\ n \in Nat
      /\ <<0>> \in Seq(Nat) /\ 0 \in Nat /\ \A i \in 1 .. n : m.body[i] \in Nat
  BY DEF Messages
<1>2. NewLine \in Seq(Token)
  BY <1>1, TokensType DEF NewLine
<1>3. ASSUME NEW size \in Nat, NEW i \in Nat PROVE Data(size, i) \in Seq(Token)
  <2>1. [j \in 1 .. size |-> 100 * i + j] \in Seq(Nat)
    OBVIOUS
  <2> QED
    BY <2>1, TokensType DEF Data
<1>4. ASSUME NEW size \in Nat PROVE ChunkLine(m, size) \in Seq(Token)
  <2>1. <<size>> \in Seq(Nat)
    OBVIOUS
  <2>2. Tokens("size", <<size>>) \in Seq(Token) /\ Tokens("param", m.params) \in Seq(Token)
    BY <1>1, <2>1, TokensType
  <2> QED
    BY <1>2, <2>2 DEF ChunkLine
<1>5. \A i \in 1 .. n : /\ Data(m.body[i], i) \in Seq(Token)
                        /\ ChunkLine(m, m.body[i]) \o Data(m.body[i], i) \o NewLine \in Seq(Token)
  <2>1. ASSUME NEW i \in 1 .. n
        PROVE  Data(m.body[i], i) \in Seq(Token) /\ ChunkLine(m, m.body[i]) \in Seq(Token)
    <3>1. m.body[i] \in Nat /\ i \in Nat
      BY <1>1
    <3> QED
      BY <1>3, <1>4, <3>1
  <2>2. ASSUME NEW a \in Seq(Token), NEW b \in Seq(Token), NEW c \in Seq(Token)
        PROVE  a \o b \o c \in Seq(Token)
    OBVIOUS
  <2> QED
    BY <1>2, <2>1, <2>2
<1>6. data \in [1 .. n -> Seq(Token)] /\ chunk \in [1 .. n -> Seq(Token)]
  BY <1>5
<1>7. /\ BodyText(m) = IF ~m.chunked THEN FlattenSeq(data)
                       ELSE FlattenSeq(chunk) \o ChunkLine(m, 0)
                              \o FlattenSeq([i \in 1 .. Len(m.trailer) |-> HeaderLine(m.trailer[i])])
                              \o NewLine
  BY DEF BodyText, Body
<1> HIDE DEF data, chunk
<1>8. FlattenSeq(data) \in Seq(Token) /\ FlattenSeq(chunk) \in Seq(Token)
  BY <1>1, <1>6, FlatType
<1>9. ChunkLine(m, 0) \in Seq(Token)
  BY <1>1, <1>4
<1>10. FlattenSeq([i \in 1 .. Len(m.trailer) |-> HeaderLine(m.trailer[i])]) \in Seq(Token)
  BY <1>1, LinesTokens
<1>11. ASSUME NEW a \in Seq(Token), NEW b \in Seq(Token), NEW c \in Seq(Token), NEW d \in Seq(Token)
       PROVE  a \o b \o c \o d \in Seq(Token)
  OBVIOUS
<1> QED
  BY <1>2, <1>7, <1>8, <1>9, <1>10, <1>11

LEMMA MessageTokens ==
  ASSUME NEW m \in Messages, NEW head \in BOOLEAN
  PROVE  MessageText(m, head) \in Seq(Token)
<1>1. /\ <<m.version>> \in Seq(Nat) /\ <<m.code>> \in Seq(Nat) /\ m.reason \in Seq(Nat) /\ <<0>> \in Seq(Nat)
      /\ m.headers \in Seq(Lines) /\ m.junk \in Seq(Junk)
  BY DEF Messages
<1> DEFINE a == Tokens("http", <<m.version>>)
           b == Tokens("code", <<m.code>>)
           c == Tokens("reason", m.reason)
           d == NewLine
           e == FlattenSeq([i \in 1 .. Len(m.headers) |-> HeaderLine(m.headers[i])])
           f == IF head THEN <<>> ELSE BodyText(m)
<1>2. a \in Seq(Token) /\ b \in Seq(Token) /\ c \in Seq(Token) /\ d \in Seq(Token)
  BY <1>1, TokensType DEF NewLine
<1>3. e \in Seq(Token)
  BY <1>1, LinesTokens
<1>4. f \in Seq(Token)
  BY BodyTokens
<1>5. m.junk \in Seq(Token)
  <2>1. Junk \subseteq Token
    BY DEF Token, Junk
  <2> HIDE DEF Token, Junk
  <2> QED
    BY <1>1, <2>1
<1>6. MessageText(m, head) = a \o b \o c \o d \o e \o d \o f \o m.junk
  BY DEF MessageText
<1> HIDE DEF a, b, c, d, e, f
<1>7. ASSUME NEW x \in Seq(Token), NEW y \in Seq(Token) PROVE x \o y \in Seq(Token)
  OBVIOUS
<1>8. a \o b \o c \o d \in Seq(Token)
  BY <1>2, <1>7
<1>9. (a \o b \o c \o d) \o e \o d \in Seq(Token)
  BY <1>2, <1>3, <1>7, <1>8
<1> QED
  BY <1>4, <1>5, <1>6, <1>7, <1>9

\* Beginnings of answers are messages, none among them, and their texts tokens.
LEMMA TextsType ==
  /\ <<>> \in Beginnings /\ Answers \subseteq Beginnings
  /\ \A messages \in Beginnings, head \in BOOLEAN : Texts[head][messages] \in Seq(Token)
  /\ \A head \in BOOLEAN : Texts[head][<<>>] = <<>>
<1>1. Answers # {} /\ Answers \subseteq Seq(Messages)
  BY AnswerAssumption DEF Messages, Lines, Junk
<1>2. ASSUME NEW a \in Answers
      PROVE  SubSeq(a, 1, 0) = <<>> /\ SubSeq(a, 1, Len(a)) = a /\ Len(a) \in Nat
  BY <1>1
<1>3. ASSUME NEW a \in Answers, NEW n \in 0 .. Len(a) PROVE SubSeq(a, 1, n) \in Seq(Messages)
  BY <1>1
<1>4. <<>> \in Beginnings
  <2>1. PICK a \in Answers : TRUE
    BY <1>1
  <2>2. 0 \in 0 .. Len(a) /\ SubSeq(a, 1, 0) = <<>>
    BY <1>2
  <2> QED
    BY <2>1, <2>2 DEF Beginnings
<1>5. Answers \subseteq Beginnings
  <2>1. ASSUME NEW a \in Answers PROVE a \in Beginnings
    <3>1. Len(a) \in 0 .. Len(a) /\ SubSeq(a, 1, Len(a)) = a
      BY <1>2
    <3>2. a \in {SubSeq(a, 1, n) : n \in 0 .. Len(a)}
      BY <3>1, Zenon
    <3> QED
      BY <3>2, Zenon DEF Beginnings
  <2> QED
    BY <2>1
<1>6. Beginnings \subseteq Seq(Messages)
  BY <1>3 DEF Beginnings
<1>7. ASSUME NEW messages \in Beginnings, NEW head \in BOOLEAN
      PROVE  /\ Texts[head][messages] \in Seq(Token)
             /\ messages = <<>> => Texts[head][messages] = <<>>
  <2> DEFINE n == Len(messages)
             f == [i \in 1 .. n |-> MessageText(messages[i], head)]
  <2>1. messages \in Seq(Messages) /\ n \in Nat /\ \A i \in 1 .. n : messages[i] \in Messages
    BY <1>6
  <2>2. f \in [1 .. n -> Seq(Token)]
    <3>1. \A i \in 1 .. n : MessageText(messages[i], head) \in Seq(Token)
      BY <2>1, MessageTokens, Zenon
    <3> QED
      BY <3>1
  <2>3. Texts[head][messages] = FlattenSeq(f)
    BY Zenon DEF Texts
  <2> HIDE DEF f
  <2>4. FlattenSeq(f) \in Seq(Token)
    BY <2>1, <2>2, FlatType
  <2>5. ASSUME messages = <<>> PROVE FlattenSeq(f) = <<>>
    <3>1. n = 0
      BY <2>5
    <3>2. f = <<>> /\ Len(f) = 0
      BY <2>2, <3>1
    <3> QED
      BY <3>2 DEF FlattenSeq
  <2> QED
    BY <2>3, <2>4, <2>5
<1> QED
  BY <1>4, <1>5, <1>7, Zenon

-----------------------------------------------------------------------------
(* The parser between the receives.                                        *)

ParserInv ==
  /\ received \in 0 .. RespSize
  /\ stream \in Seq(Token)
  /\ IsParser(s) /\ ~s.failed /\ s.state \in {"none", "incomplete", "complete"}
  /\ pc = "receive" => received < RespSize /\ s.cur = received + 1 /\ Sound(s, received + 1)
  /\ pc \notin {"receive", "close", "done"} => received = 0
  /\ s.err = "HPE_OK" => Before([at |-> s.body, len |-> s.bodyLen], received + 1)

\* A call of parseHttpResponse, in the words of the lemmas about the parser.
LEMMA ParseIs ==
  ASSUME NEW p, NEW n
  PROVE  Parse(p, n) = Rest(Fed(p, p.cur, n), p.cur + n)
BY Zenon DEF Parse, Rest, Fed, IsRun

\* It leaves the parser ready for the next receive, and no assert has failed.
LEMMA ParseSound ==
  ASSUME NEW c \in Nat \ {0}, NEW p, Sound(p, c), p.cur = c, NEW n \in Nat, c + n <= RespSize + 1
  PROVE  LET t == Parse(p, n) IN
         /\ IsParser(t) /\ ~t.failed /\ t.cur = c + n /\ t.state \in {"none", "incomplete", "complete"}
         /\ c + n <= RespSize => Sound(t, c + n)
         /\ t.err = "HPE_OK" => Before([at |-> t.body, len |-> t.bodyLen], c + n)
<1> DEFINE f == Fed(p, c, n)
<1>1. Sound(f, c + n) /\ c + n \in Nat \ {0}
  BY FedSound
<1>2. Parse(p, n) = Rest(f, c + n)
  BY ParseIs
<1> HIDE DEF f
<1>3. f.state \in {"none", "incomplete", "complete"}
  BY <1>1 DEF Sound
<1> QED
  BY <1>1, <1>2, <1>3, RestSound

\* What is stored behind what was received changes nothing in front of it.
LEMMA StoredSound ==
  ASSUME NEW q1, NEW p, Sound(p, q1), NEW n
  PROVE  LET t == [p EXCEPT !.buf = Stored(@, n)] IN Sound(t, q1) /\ t.cur = p.cur
<1> DEFINE b == Stored(p.buf, n)
           t == [p EXCEPT !.buf = b]
<1>1. IsParser(p) /\ ~p.failed
  BY DEF Sound
<1>2. b = [i \in 1 .. RespSize |-> b[i]]
  BY <1>1 DEF Stored, IsParser
<1> HIDE DEF b
<1>3. /\ IsParser(t) /\ ~t.failed /\ t.find = p.find
      /\ t.state = p.state /\ t.err = p.err /\ t.st = p.st /\ t.span = p.span /\ t.from = p.from
      /\ t.cur = p.cur /\ t.hdr = p.hdr /\ t.field = p.field /\ t.value = p.value /\ t.body = p.body
      /\ t.bodyLen = p.bodyLen
  BY <1>1, <1>2 DEF IsParser, Fields
<1> HIDE DEF t
<1>4. Sound(t, q1)
  BY <1>3, KeepSound
<1> QED
  BY <1>3, <1>4 DEF t, b

\* A parser that starts.
LEMMA StartsSound ==
  ASSUME NEW head
  PROVE  /\ Sound(InitialState(head), 1) /\ InitialState(head).cur = 1
         /\ Before([at |-> InitialState(head).body, len |-> InitialState(head).bodyLen], 1)
<1> DEFINE b == [i \in 1 .. RespSize |-> [k |-> "empty", v |-> 0]]
<1>1. InitialState(head).buf = b /\ b = [i \in 1 .. RespSize |-> b[i]]
  BY DEF InitialState
<1> HIDE DEF b
<1>2. [InitialState(head) EXCEPT !.buf = b] = InitialState(head)
  BY <1>1 DEF InitialState
<1>3. Sound([InitialState(head) EXCEPT !.buf = b], 1)
  BY <1>1, InitialSound
<1>4. InitialState(head).body = 0 /\ InitialState(head).bodyLen = 0 /\ InitialState(head).cur = 1
  BY DEF InitialState
<1> QED
  BY <1>2, <1>3, <1>4 DEF Before

LEMMA ParserInit == Init => ParserInv
<1> SUFFICES ASSUME Init PROVE ParserInv
  OBVIOUS
<1>1. pc = "idle" /\ received = 0 /\ stream = <<>> /\ s = InitialState(FALSE)
  BY DEF Init
<1>2. /\ Sound(InitialState(FALSE), 1)
      /\ Before([at |-> InitialState(FALSE).body, len |-> InitialState(FALSE).bodyLen], 1)
  BY StartsSound, Zenon
<1>3. Sound(s, 1) /\ Before([at |-> s.body, len |-> s.bodyLen], 1)
  BY <1>1, <1>2, Zenon
<1>4. stream \in Seq(Token) /\ received \in 0 .. RespSize /\ received + 1 = 1 /\ pc # "receive"
  BY <1>1, ResponseAssumption
<1>5. Before([at |-> s.body, len |-> s.bodyLen], received + 1)
  BY <1>3, <1>4
<1>6. IsParser(s) /\ ~s.failed /\ s.state \in {"none", "incomplete", "complete"}
  BY <1>3 DEF Sound
<1> QED
  BY <1>1, <1>4, <1>5, <1>6 DEF ParserInv

\* When nothing is received.
LEMMA ParserKeeps ==
  ASSUME ParserInv, UNCHANGED <<received, stream, s>>, pc' = "receive" => pc = "receive",
         pc' \in {"receive", "close", "done"} \/ pc \notin {"receive", "close", "done"}
  PROVE  ParserInv'
BY DEF ParserInv

\* Where a call goes on after a parse.
LEMMA Continued ==
  ASSUME NEW p, NEW total, NEW over, Continue(p, total, over)
  PROVE  \/ pc' \in {"close", "done"} /\ status' = FinalStatus(p, total)
         \/ pc' = pc /\ p.err = "HPE_OK" /\ ~over /\ total < RespSize
<1>1. ProcessLlhttpError(p.err) = "HTTPSuccess" => p.err = "HPE_OK"
  BY DEF ProcessLlhttpError
<1> QED
  BY <1>1 DEF Continue, Returned

\* A receive, and one that gave nothing.
LEMMA ReceiveKeeps ==
  ASSUME ParserInv, NEW n \in 1 .. Available, Receive(n)
  PROVE  ParserInv'
<1> DEFINE p == [s EXCEPT !.buf = Stored(@, n)]
           t == Parse(p, n)
<1>1. /\ pc = "receive" /\ received \in Nat /\ received < RespSize /\ s.cur = received + 1
      /\ Sound(s, received + 1) /\ stream \in Seq(Token) /\ RespSize \in Nat
  BY ResponseAssumption DEF Receive, ParserInv
<1>2. n \in Nat /\ received + n <= RespSize
  <2>1. Available \in Int
    BY <1>1 DEF Available
  <2> QED
    BY <2>1 DEF Receive
<1>3. received' = received + n /\ s' = t /\ stream' = stream /\ Continue(s', received', FALSE)
  BY DEF Receive
<1>4. Sound(p, received + 1) /\ p.cur = received + 1
  BY <1>1, StoredSound
<1> HIDE DEF p
<1>5. /\ IsParser(t) /\ ~t.failed /\ t.cur = received + 1 + n
      /\ t.state \in {"none", "incomplete", "complete"}
      /\ received + 1 + n <= RespSize => Sound(t, received + 1 + n)
      /\ t.err = "HPE_OK" => Before([at |-> t.body, len |-> t.bodyLen], received + 1 + n)
  BY <1>1, <1>2, <1>4, ParseSound
<1> HIDE DEF t
<1>6. received + 1 + n = received' + 1 /\ received' \in 0 .. RespSize
  BY <1>1, <1>2, <1>3
<1>7. pc' \in {"close", "done"} \/ (pc' = "receive" /\ received' < RespSize)
  BY <1>1, <1>3, Continued
<1> QED
  BY <1>1, <1>3, <1>5, <1>6, <1>7 DEF ParserInv

LEMMA ReceiveNothingKeeps ==
  ASSUME ParserInv, ReceiveNothing
  PROVE  ParserInv'
<1>1. pc = "receive" /\ UNCHANGED <<stream, received>>
  BY DEF ReceiveNothing, sending, request
<1>2. CASE UNCHANGED <<pc, s>>
  BY <1>1, <1>2, ParserKeeps
<1>3. CASE s' = Parse(s, 0) /\ Continue(s', received, TRUE)
  <2>1. /\ received \in Nat /\ received < RespSize /\ s.cur = received + 1
        /\ Sound(s, received + 1) /\ RespSize \in Nat
    BY <1>1, ResponseAssumption DEF ParserInv
  <2>2. /\ IsParser(s') /\ ~s'.failed /\ s'.state \in {"none", "incomplete", "complete"}
        /\ s'.err = "HPE_OK" => Before([at |-> s'.body, len |-> s'.bodyLen], received + 1)
    <3>1. received + 1 + 0 = received + 1 /\ received + 1 \in Nat \ {0} /\ 0 \in Nat
          /\ received + 1 + 0 <= RespSize + 1
      BY <2>1
    <3> QED
      BY <1>3, <2>1, <3>1, ParseSound
  <2>3. pc' \in {"close", "done"}
    BY <1>3, Continued
  <2> QED
    BY <1>1, <2>1, <2>2, <2>3 DEF ParserInv
<1> QED
  BY <1>2, <1>3 DEF ReceiveNothing

LEMMA ParserStep == ParserInv /\ [Next]_vars => ParserInv'
<1> SUFFICES ASSUME ParserInv, [Next]_vars PROVE ParserInv'
  OBVIOUS
<1> USE DEF request, sending, response
<1>1. ASSUME NEW c \in {"spm", "app"}, NEW req \in Requests, Begin(c, req) PROVE ParserInv'
  BY <1>1, ParserKeeps DEF Begin
<1>2. CASE Socket \/ Resolve \/ Connect
  BY <1>2, ParserKeeps DEF Socket, Resolve, Connect, CloseAndFail
<1>3. CASE InitializeHeaders
  <2>1. pc = "initialize" /\ UNCHANGED <<received, stream, s>>
    BY <1>3 DEF InitializeHeaders
  <2>2. pc' = CASE caller = "spm" -> "send"
                [] caller = "app" /\ r'.status = "HTTPSuccess" -> "headers"
                [] OTHER -> "done"
    BY <1>3, Zenon DEF InitializeHeaders
  <2>3. pc' \in {"send", "headers", "done"}
    BY <2>2
  <2> QED
    BY <2>1, <2>3, ParserKeeps
<1>4. ASSUME NEW c \in Additions, Add(c) PROVE ParserInv'
  BY <1>4, ParserKeeps DEF Add
<1>5. CASE Skip
  BY <1>5, ParserKeeps DEF Skip
<1>6. CASE Send
  BY <1>6, ParserKeeps DEF Send, Returned
<1>7. ASSUME NEW n \in 1 .. ReqSize, Transmit(n) PROVE ParserInv'
  <2>1. pc \in {"send headers", "send body"} /\ UNCHANGED <<received, stream>>
    BY <1>7 DEF Transmit
  <2>2. \/ pc' \in {"send headers", "send body"} /\ UNCHANGED s
        \/ \E head : pc' = "receive" /\ s' = InitialState(head)
    <3> DEFINE left == SubSeq(out, n + 1, Len(out))
               more == left # <<>>
               data == left = <<>> /\ pc = "send headers" /\ q.body > 0
    <3>1. CASE more
      BY <1>7, <2>1, <3>1 DEF Transmit
    <3>2. CASE data
      BY <1>7, <2>1, <3>2 DEF Transmit
    <3>3. CASE ~more /\ ~data
      <4>1. pc' = "receive" /\ s' = InitialState(r.buf[1] = "HEAD")
        BY <1>7, <3>3 DEF Transmit
      <4> QED
        BY <4>1
    <3> QED
      BY <3>1, <3>2, <3>3
  <2>3. CASE pc' \in {"send headers", "send body"} /\ UNCHANGED s
    BY <2>1, <2>3, ParserKeeps
  <2>4. ASSUME NEW head, pc' = "receive", s' = InitialState(head) PROVE ParserInv'
    <3>1. received' = 0 /\ stream' \in Seq(Token)
      BY <2>1 DEF ParserInv
    <3>2. Sound(s', 1) /\ s'.cur = 1 /\ Before([at |-> s'.body, len |-> s'.bodyLen], 1)
      BY <2>4, StartsSound
    <3> QED
      BY <2>4, <3>1, <3>2, ResponseAssumption DEF ParserInv, Sound
  <2> QED
    BY <2>2, <2>3, <2>4
<1>8. CASE TransmitNothing
  BY <1>8, ParserKeeps DEF TransmitNothing, Returned
<1>9. ASSUME NEW n \in 1 .. Available, Receive(n) PROVE ParserInv'
  BY <1>9, ReceiveKeeps
<1>10. CASE ReceiveNothing
  BY <1>10, ReceiveNothingKeeps
<1>11. CASE ReceiveError
  BY <1>11, ParserKeeps DEF ReceiveError, Returned
<1>12. CASE Close
  BY <1>12, ParserKeeps DEF Close
<1>13. CASE Return
  <2>1. pc' = "idle" /\ received' = 0 /\ stream' = <<>> /\ s' = InitialState(FALSE)
    BY <1>13 DEF Return
  <2>2. /\ Sound(InitialState(FALSE), 1)
        /\ Before([at |-> InitialState(FALSE).body, len |-> InitialState(FALSE).bodyLen], 1)
    BY StartsSound, Zenon
  <2>3. Sound(s', 1) /\ Before([at |-> s'.body, len |-> s'.bodyLen], 1)
    BY <2>1, <2>2, Zenon
  <2>4. stream' \in Seq(Token) /\ received' \in 0 .. RespSize /\ received' + 1 = 1 /\ pc' # "receive"
    BY <2>1, ResponseAssumption
  <2>5. Before([at |-> s'.body, len |-> s'.bodyLen], received' + 1)
    BY <2>3, <2>4
  <2>6. IsParser(s') /\ ~s'.failed /\ s'.state \in {"none", "incomplete", "complete"}
    BY <2>3 DEF Sound
  <2> QED
    BY <2>1, <2>4, <2>5, <2>6 DEF ParserInv
<1>14. ASSUME NEW a \in Answers, Answer(a) PROVE ParserInv'
  <2>1. stream' \in Seq(Token)
    <3>1. (q.method = "HEAD") \in BOOLEAN /\ a \in Beginnings
      BY TextsType
    <3>2. Stream(a) \in Seq(Token)
      BY <3>1, TextsType, Zenon DEF Stream
    <3> QED
      BY <1>14, <3>2 DEF Answer
  <2> QED
    BY <1>14, <2>1 DEF Answer, ParserInv
<1>15. CASE ServerClose
  BY <1>15, ParserKeeps DEF ServerClose
<1>16. CASE UNCHANGED vars
  BY <1>16, ParserKeeps DEF vars
<1> QED
  BY <1>1, <1>2, <1>3, <1>4, <1>5, <1>6, <1>7, <1>8, <1>9, <1>10, <1>11, <1>12, <1>13, <1>14, <1>15,
     <1>16 DEF Next, Call

-----------------------------------------------------------------------------
(* The types of the variables.                                             *)

\* The request in its buffer and on its way, and the answer.
TypeInv ==
  /\ caller \in {"spm", "app"} /\ q \in Requests \cup {NoRequest}
  /\ DOMAIN r.buf = 1 .. ReqSize /\ r.len \in 0 .. ReqSize
  /\ Len(calls) <= MaxAdded
  /\ Len(wire) + Len(out) <= ReqSize + q.body
  /\ pc = "send headers" => Len(wire) + Len(out) <= ReqSize
  /\ pc \in {"idle", "socket", "resolve", "connect", "initialize", "headers", "send"} =>
       wire = <<>> /\ out = <<>>
  /\ sock \in {"none", "failed", "open"} /\ idle \in 0 .. MaxIdle
  /\ answer \in Answers \cup {<<>>} /\ stream = Stream(answer) /\ closed \in BOOLEAN
  /\ pc \notin {"receive", "close", "done"} => answer = <<>>

\* The bodies of requests have a length.
LEMMA BodyLength == \A req \in Requests \cup {NoRequest} : req.body \in Nat
BY TextAssumption DEF NoRequest

\* Without messages nothing is sent.
LEMMA NoStream == Stream(<<>>) = <<>>
<1>1. (q.method = "HEAD") \in BOOLEAN
  OBVIOUS
<1> QED
  BY <1>1, TextsType, Zenon DEF Stream

LEMMA TypeInit == Init => TypeInv
<1> SUFFICES ASSUME Init PROVE TypeInv
  OBVIOUS
<1>1. stream = Stream(answer)
  BY NoStream DEF Init
<1>2. DOMAIN r.buf = 1 .. ReqSize /\ r.len \in 0 .. ReqSize
  BY RequestAssumption DEF Init, Blank
<1>3. Len(wire) + Len(out) <= ReqSize + q.body /\ Len(calls) <= MaxAdded
  <2>1. q.body = 0
    BY DEF Init, NoRequest
  <2> QED
    BY <2>1, RequestAssumption, CallAssumption DEF Init
<1>4. /\ pc = "idle" /\ caller = "spm" /\ q = NoRequest /\ wire = <<>> /\ out = <<>> /\ sock = "none"
      /\ idle = 0 /\ answer = <<>> /\ closed \in BOOLEAN
  <2>1. closed = FALSE
    BY DEF Init
  <2>2. closed \in BOOLEAN
    BY <2>1, Zenon
  <2> QED
    BY <2>2 DEF Init
<1> QED
  BY <1>1, <1>2, <1>3, <1>4, CallAssumption DEF TypeInv

\* A buffer that holds a text has its size.
LEMMA HoldsType ==
  ASSUME NEW h, NEW t, Holds(h, t)
  PROVE  DOMAIN h.buf = 1 .. ReqSize /\ h.len \in 0 .. ReqSize /\ Len(SubSeq(h.buf, 1, h.len)) = h.len
<1>1. h.buf \in [1 .. ReqSize -> Piece] /\ h.len \in 0 .. ReqSize /\ ReqSize \in Nat
  BY RequestAssumption DEF Holds, Headers
<1>2. h.buf \in Seq(Piece) /\ Len(h.buf) = ReqSize
  BY <1>1
<1> QED
  BY <1>1, <1>2

\* What a step leaves alone.
LEMMA TypeKeeps ==
  ASSUME TypeInv, UNCHANGED <<caller, q, r, calls, wire, out, answer, stream>>,
         sock' \in {"none", "failed", "open"}, idle' \in 0 .. MaxIdle, closed' \in BOOLEAN,
         pc' = "send headers" => pc = "send headers",
         pc' \in {"idle", "socket", "resolve", "connect", "initialize", "headers", "send"} =>
           pc \in {"idle", "socket", "resolve", "connect", "initialize", "headers", "send"},
         pc' \notin {"receive", "close", "done"} => pc \notin {"receive", "close", "done"}
  PROVE  TypeInv'
<1>1. Stream(answer)' = Stream(answer)
  BY DEF Stream, Texts, Beginnings
<1> QED
  BY <1>1 DEF TypeInv

\* w pieces are on the wire, o are to follow, of which k are sent; what is then to
\* follow is what is left of them, the body or nothing.
LEMMA Fitting ==
  ASSUME NEW w \in Nat, NEW o \in Nat, NEW b \in Nat, NEW k \in Nat, NEW left, left = o - k,
         NEW w2, w2 = w + k, NEW o2, w + o <= ReqSize + b
  PROVE  /\ o2 = left => w2 + o2 <= ReqSize + b /\ (w + o <= ReqSize => w2 + o2 <= ReqSize)
         /\ left = 0 /\ o2 = b /\ w + o <= ReqSize => w2 + o2 <= ReqSize + b
         /\ left = 0 /\ o2 = 0 => w2 + o2 <= ReqSize + b
BY RequestAssumption

LEMMA TransmitType ==
  ASSUME TypeInv, WireInv, NEW n \in 1 .. ReqSize, Transmit(n)
  PROVE  TypeInv'
<1> DEFINE body  == BodyOf(q)
           taken == SubSeq(out, 1, n)
           left  == SubSeq(out, n + 1, Len(out))
<1>1. /\ pc \in {"send headers", "send body"} /\ n \in 1 .. Len(out) /\ wire' = wire \o taken
      /\ UNCHANGED <<caller, q, calls, r, sock, answer, stream, closed>> /\ idle' = 0
      /\ TextOf(q)
  BY DEF Transmit, request, WireInv
<1>a. wire \in Seq(Piece) /\ out \in Seq(Piece) /\ n \in 1 .. Len(out)
  BY DEF Transmit, WireInv
<1>2. /\ taken \in Seq(Piece) /\ left \in Seq(Piece) /\ Len(taken) = n /\ Len(left) = Len(out) - n
      /\ q.body \in Nat
  <2>1. n \in Nat /\ n <= Len(out) /\ Len(out) \in Nat
    BY <1>a
  <2>2. /\ 1 \in 1 .. Len(out) + 1 /\ n \in 0 .. Len(out) /\ 1 <= n + 1 /\ n - 1 + 1 = n
        /\ n + 1 \in 1 .. Len(out) + 1 /\ Len(out) \in 0 .. Len(out) /\ n + 1 <= Len(out) + 1
        /\ Len(out) - (n + 1) + 1 = Len(out) - n
    BY <2>1
  <2>3. taken \in Seq(Piece) /\ Len(taken) = n - 1 + 1
    BY <1>a, <2>2, SubSeqIs
  <2>4. left \in Seq(Piece) /\ Len(left) = Len(out) - (n + 1) + 1
    BY <1>a, <2>2, SubSeqIs
  <2> HIDE DEF taken, left
  <2> QED
    BY <1>1, <2>2, <2>3, <2>4 DEF TextOf
<1> HIDE DEF taken, left
<1>3. Len(wire') = Len(wire) + n
  <2>1. wire' = wire \o taken /\ Len(taken) = n /\ taken \in Seq(Piece)
    BY <1>1, <1>2
  <2>2. ASSUME NEW a \in Seq(Piece), NEW b \in Seq(Piece) PROVE Len(a \o b) = Len(a) + Len(b)
    OBVIOUS
  <2>3. Len(wire \o taken) = Len(wire) + Len(taken)
    BY <1>a, <2>1, <2>2
  <2> QED
    BY <2>1, <2>3, Zenon
<1>4. \/ out' = left /\ pc' = pc
      \/ Len(left) = 0 /\ pc = "send headers" /\ Len(out') = q.body /\ pc' = "send body"
      \/ Len(left) = 0 /\ Len(out') = 0 /\ pc' = "receive"
  <2> DEFINE more == left # <<>>
             data == left = <<>> /\ pc = "send headers" /\ q.body > 0
  <2> USE DEF left
  <2>1. CASE more
    BY <2>1 DEF Transmit
  <2>2. CASE data
    <3>1. out' = [i \in 1 .. q.body |-> "data"] /\ pc' = "send body"
      BY <2>2 DEF Transmit
    <3>2. Len([i \in 1 .. q.body |-> "data"]) = q.body
      BY <1>2
    <3>3. Len(left) = 0
      <4> HIDE DEF left
      <4> QED
        BY <2>2
    <3> QED
      BY <2>2, <3>1, <3>2, <3>3
  <2>3. CASE ~more /\ ~data
    <3>1. out' = <<>> /\ pc' = "receive"
      BY <2>3 DEF Transmit
    <3> QED
      BY <2>3, <3>1
  <2> QED
    BY <2>1, <2>2, <2>3
<1>5. /\ Len(wire) \in Nat /\ Len(out) \in Nat /\ ReqSize \in Nat
      /\ Len(wire) + Len(out) <= ReqSize + q.body
      /\ pc = "send headers" => Len(wire) + Len(out) <= ReqSize
  <2>1. Len(wire) \in Nat /\ Len(out) \in Nat
    BY <1>a
  <2> QED
    BY <2>1, RequestAssumption DEF TypeInv
<1>6. /\ Len(wire') + Len(out') <= ReqSize + q.body
      /\ pc' = "send headers" => Len(wire') + Len(out') <= ReqSize
  <2> DEFINE w == Len(wire)    o == Len(out)    l == Len(left)  b == q.body
             w2 == Len(wire')  o2 == Len(out')
  <2>1. /\ n \in Nat /\ l = o - n /\ w2 = w + n /\ w \in Nat /\ o \in Nat /\ b \in Nat
        /\ w + o <= ReqSize + b
    <3>1. n \in Nat
      BY <1>a
    <3> QED
      BY <3>1, <1>2, <1>3, <1>5, Zenon
  <2>2. pc = "send headers" => w + o <= ReqSize
    BY <1>5
  <2>3. \/ o2 = l /\ pc' = pc
        \/ l = 0 /\ pc = "send headers" /\ o2 = b /\ pc' = "send body"
        \/ l = 0 /\ o2 = 0 /\ pc' = "receive"
    BY <1>4, Zenon
  <2> HIDE DEF w, o, l, b, w2, o2
  <2>4. /\ o2 = l => w2 + o2 <= ReqSize + b /\ (w + o <= ReqSize => w2 + o2 <= ReqSize)
        /\ l = 0 /\ o2 = b /\ w + o <= ReqSize => w2 + o2 <= ReqSize + b
        /\ l = 0 /\ o2 = 0 => w2 + o2 <= ReqSize + b
    <3> DEFINE goal(W, O, B, L, W2, O2) ==
                 /\ O2 = L => W2 + O2 <= ReqSize + B /\ (W + O <= ReqSize => W2 + O2 <= ReqSize)
                 /\ L = 0 /\ O2 = B /\ W + O <= ReqSize => W2 + O2 <= ReqSize + B
                 /\ L = 0 /\ O2 = 0 => W2 + O2 <= ReqSize + B
    <3>1. ASSUME NEW W \in Nat, NEW O \in Nat, NEW B \in Nat, NEW K \in Nat, NEW L, L = O - K,
                 NEW W2, W2 = W + K, NEW O2, W + O <= ReqSize + B
          PROVE  goal(W, O, B, L, W2, O2)
      BY <3>1, Fitting
    <3> HIDE DEF goal
    <3>2. goal(w, o, b, l, w2, o2)
      BY <2>1, <3>1, Zenon
    <3> QED
      BY <3>2 DEF goal
  <2>5. w2 + o2 <= ReqSize + b /\ (pc' = "send headers" => w2 + o2 <= ReqSize)
    BY <2>2, <2>3, <2>4, Zenon
  <2> QED
    BY <2>5 DEF w, o, l, b, w2, o2
<1>7. Stream(answer)' = Stream(answer)
  BY <1>1 DEF Stream, Texts, Beginnings
<1>8. pc' \in {"send headers", "send body", "receive"} /\ answer = <<>>
  BY <1>1, <1>4 DEF TypeInv
<1>9. idle' \in 0 .. MaxIdle
  <2>1. idle' = 0
    BY <1>1
  <2> QED
    BY <2>1, CallAssumption
<1> QED
  BY <1>1, <1>6, <1>7, <1>8, <1>9 DEF TypeInv

LEMMA TypeStep == TypeInv /\ WireInv /\ [Next]_vars => TypeInv'
<1> SUFFICES ASSUME TypeInv, WireInv, [Next]_vars PROVE TypeInv'
  OBVIOUS
<1> USE DEF request, sending, response
<1>0. /\ MaxIdle \in Nat \ {0} /\ MaxAdded \in Nat /\ ReqSize \in Nat
      /\ idle \in 0 .. MaxIdle /\ closed \in BOOLEAN /\ sock \in {"none", "failed", "open"}
  BY CallAssumption, RequestAssumption DEF TypeInv
<1>1. ASSUME NEW c \in {"spm", "app"}, NEW req \in Requests, Begin(c, req) PROVE TypeInv'
  <2>1. /\ pc = "idle" /\ pc' \in {"socket", "initialize"} /\ caller' = c /\ q' = req
        /\ UNCHANGED <<r, calls, wire, out, sock, idle, answer, stream, closed>>
        /\ answer = <<>> /\ wire = <<>> /\ out = <<>> /\ stream = Stream(<<>>)
    BY <1>1 DEF Begin, TypeInv
  <2>2. stream' = Stream(answer)'
    <3>1. stream = <<>>
      BY <2>1, NoStream
    <3>2. Stream(<<>>)' = <<>>
      <4>1. (q'.method = "HEAD") \in BOOLEAN
        OBVIOUS
      <4>2. Texts' = Texts
        BY DEF Texts, Beginnings
      <4> QED
        BY <4>1, <4>2, TextsType, Zenon DEF Stream
    <3>3. Stream(answer)' = Stream(<<>>)'
      BY <2>1
    <3> QED
      BY <2>1, <3>1, <3>2, <3>3
  <2>3. q' \in Requests \cup {NoRequest} /\ q'.body \in Nat
    BY <2>1, BodyLength
  <2>4. Len(wire') + Len(out') <= ReqSize + q'.body
    BY <1>0, <2>1, <2>3
  <2> QED
    BY <1>0, <2>1, <2>2, <2>3, <2>4 DEF TypeInv
<1>2. CASE Socket \/ Resolve \/ Connect
  BY <1>0, <1>2, TypeKeeps DEF Socket, Resolve, Connect, CloseAndFail
<1>3. ASSUME NEW t, Holds(r', t), UNCHANGED <<caller, q, wire, out, sock, idle, answer, stream, closed>>,
             pc \in {"initialize", "headers", "send"}, pc' \in {"headers", "send", "close", "done"},
             Len(calls') <= MaxAdded
      PROVE  TypeInv'
  <2>1. DOMAIN r'.buf = 1 .. ReqSize /\ r'.len \in 0 .. ReqSize
    BY <1>3, HoldsType
  <2>2. Stream(answer)' = Stream(answer)
    BY <1>3 DEF Stream, Texts, Beginnings
  <2> QED
    BY <1>3, <2>1, <2>2 DEF TypeInv
<1>4. CASE InitializeHeaders
  <2>1. /\ pc = "initialize" /\ r' \in Initialize(Blank, q) /\ TextOf(q)
        /\ UNCHANGED <<caller, q, calls, wire, out, sock, idle, answer, stream, closed>>
    BY <1>4 DEF InitializeHeaders, WireInv
  <2>2. pc' \in {"send", "headers", "done"}
    <3>1. pc' = CASE caller = "spm" -> "send"
                  [] caller = "app" /\ r'.status = "HTTPSuccess" -> "headers"
                  [] OTHER -> "done"
      BY <1>4, Zenon DEF InitializeHeaders
    <3> QED
      BY <3>1
  <2>3. Holds(r', Composed(q, <<>>))
    BY <2>1, InitializeHolds
  <2>4. Len(calls') <= MaxAdded
    BY <2>1 DEF TypeInv
  <2> QED
    BY <1>3, <2>1, <2>2, <2>3, <2>4
<1>5. ASSUME NEW c \in Additions, Add(c) PROVE TypeInv'
  <2>1. /\ pc = "headers" /\ calls' = Append(calls, c) /\ r' = AddCall(r, c) /\ pc' \in {"headers", "send"}
        /\ UNCHANGED <<caller, q, wire, out, sock, idle, answer, stream, closed>>
        /\ Holds(r, Composed(q, calls)) /\ calls \in Seq(Additions) /\ Len(calls) < MaxAdded
    BY <1>5 DEF Add, WireInv
  <2>2. Holds(r', CallEntry(Composed(q, calls), c))
    BY <2>1, CallHolds
  <2>3. Len(calls') <= MaxAdded
    BY <1>0, <2>1
  <2> QED
    BY <1>3, <2>1, <2>2, <2>3
<1>6. CASE Skip
  BY <1>0, <1>6, TypeKeeps DEF Skip
<1>7. CASE Send
  <2>1. /\ pc = "send" /\ wire = <<>> /\ out = <<>> /\ TextOf(q) /\ Holds(r, Composed(q, calls))
        /\ UNCHANGED <<caller, q, calls, wire, sock, idle, answer, stream, closed>>
        /\ Len(calls') <= MaxAdded
    BY <1>7 DEF Send, WireInv, TypeInv
  <2>2. CASE r.len < MinimumLength
    <3>1. pc' \in {"close", "done"} /\ UNCHANGED <<r, out>>
      BY <1>7, <2>2 DEF Send, Returned
    <3> QED
      BY <1>0, <2>1, <3>1, TypeKeeps
  <2>3. CASE ~(r.len < MinimumLength)
    <3>1. r' = AddContentLength(r, q)
      BY <1>7, <2>3 DEF Send
    <3>2. Holds(r', WithLength(Composed(q, calls), q))
      BY <2>1, <3>1, LengthHolds
    <3>3. CASE r'.status # "HTTPSuccess"
      <4>1. pc' \in {"close", "done"} /\ UNCHANGED out
        BY <1>7, <2>3, <3>3 DEF Send, Returned
      <4> QED
        BY <1>3, <2>1, <3>2, <4>1
    <3>4. CASE r'.status = "HTTPSuccess"
      <4>1. out' = SubSeq(r'.buf, 1, r'.len) /\ pc' = "send headers"
        BY <1>7, <2>3, <3>4 DEF Send
      <4>2. DOMAIN r'.buf = 1 .. ReqSize /\ r'.len \in 0 .. ReqSize /\ Len(out') = r'.len
        BY <3>2, <4>1, HoldsType
      <4>3. Len(wire') + Len(out') <= ReqSize /\ q.body \in Nat
        BY <1>0, <2>1, <4>2 DEF TextOf
      <4>4. Len(wire') + Len(out') <= ReqSize + q.body
        BY <1>0, <2>1, <4>2 DEF TextOf
      <4>5. Stream(answer)' = Stream(answer)
        BY <2>1 DEF Stream, Texts, Beginnings
      <4> QED
        BY <2>1, <4>1, <4>2, <4>3, <4>4, <4>5 DEF TypeInv
    <3> QED
      BY <3>3, <3>4
  <2> QED
    BY <2>2, <2>3
<1>8. ASSUME NEW n \in 1 .. ReqSize, Transmit(n) PROVE TypeInv'
  BY <1>8, TransmitType
<1>9. CASE TransmitNothing
  <2>1. /\ pc \in {"send headers", "send body"}
        /\ UNCHANGED <<caller, q, r, calls, wire, out, answer, stream, sock, closed>>
        /\ (Waits /\ UNCHANGED pc) \/ (pc' \in {"close", "done"} /\ UNCHANGED idle)
    BY <1>9 DEF TransmitNothing, Returned
  <2>2. idle' \in 0 .. MaxIdle
    <3>1. CASE Waits
      BY <1>0, <3>1 DEF Waits
    <3>2. CASE UNCHANGED idle
      BY <1>0, <3>2
    <3> QED
      BY <2>1, <3>1, <3>2
  <2> QED
    BY <1>0, <2>1, <2>2, TypeKeeps
<1>10. ASSUME NEW p, NEW total, NEW over, Continue(p, total, over)
       PROVE  pc' \in {pc, "close", "done"}
  BY <1>10 DEF Continue, Returned
<1>11. ASSUME NEW n \in 1 .. Available, Receive(n) PROVE TypeInv'
  <2>1. /\ pc = "receive" /\ idle' = 0 /\ Continue(s', received', FALSE)
        /\ UNCHANGED <<caller, q, r, calls, wire, out, answer, stream, sock, closed>>
    BY <1>11 DEF Receive
  <2>2. pc' \in {pc, "close", "done"}
    BY <1>10, <2>1, Zenon
  <2>3. idle' \in 0 .. MaxIdle
    BY <1>0, <2>1
  <2> QED
    BY <1>0, <2>1, <2>2, <2>3, TypeKeeps
<1>12. CASE ReceiveNothing
  <2>1. /\ pc = "receive"
        /\ UNCHANGED <<caller, q, r, calls, wire, out, answer, stream, sock, closed>>
        /\ (Waits /\ UNCHANGED pc) \/ (Continue(s', received, TRUE) /\ UNCHANGED idle)
    <3>1. pc = "receive" /\ UNCHANGED <<caller, q, r, calls, wire, out, answer, stream, sock, closed>>
      BY <1>12 DEF ReceiveNothing
    <3>2. (Waits /\ UNCHANGED pc) \/ (Continue(s', received, TRUE) /\ UNCHANGED idle)
      BY <1>12, Zenon DEF ReceiveNothing
    <3> QED
      BY <3>1, <3>2
  <2>2. idle' \in 0 .. MaxIdle
    <3>1. CASE Waits
      BY <1>0, <3>1 DEF Waits
    <3>2. CASE UNCHANGED idle
      BY <1>0, <3>2
    <3> QED
      BY <2>1, <3>1, <3>2
  <2>3. pc' \in {"receive", "close", "done"}
    <3>1. CASE UNCHANGED pc
      BY <2>1, <3>1
    <3>2. CASE Continue(s', received, TRUE)
      <4>1. pc' \in {pc, "close", "done"}
        BY <1>10, <3>2, Zenon
      <4> QED
        BY <2>1, <4>1
    <3> QED
      BY <2>1, <3>1, <3>2
  <2> QED
    BY <1>0, <2>1, <2>2, <2>3, TypeKeeps
<1>13. CASE ReceiveError
  BY <1>0, <1>13, TypeKeeps DEF ReceiveError, Returned
<1>14. CASE Close
  BY <1>0, <1>14, TypeKeeps DEF Close
<1>15. CASE Return
  <2>1. /\ pc' = "idle" /\ caller' = "spm" /\ q' = NoRequest /\ r' = Blank /\ calls' = <<>>
        /\ out' = <<>> /\ wire' = <<>> /\ idle' = 0 /\ answer' = <<>> /\ stream' = <<>> /\ closed' = FALSE
        /\ UNCHANGED sock
    BY <1>15 DEF Return
  <2>2. stream' = Stream(answer)'
    <3>1. (q'.method = "HEAD") \in BOOLEAN
      OBVIOUS
    <3>2. Texts' = Texts
      BY DEF Texts, Beginnings
    <3>3. Texts[q'.method = "HEAD"][<<>>] = <<>>
      BY <3>1, TextsType, Zenon
    <3>4. Stream(answer)' = Texts[q'.method = "HEAD"][<<>>]
      BY <2>1, <3>2 DEF Stream
    <3> QED
      BY <2>1, <3>3, <3>4
  <2>3. DOMAIN r'.buf = 1 .. ReqSize /\ r'.len \in 0 .. ReqSize
    BY <1>0, <2>1 DEF Blank
  <2>4. Len(wire') + Len(out') <= ReqSize + q'.body /\ Len(calls') <= MaxAdded
    <3>1. q'.body = 0
      BY <2>1 DEF NoRequest
    <3> QED
      BY <1>0, <2>1, <3>1
  <2>5. /\ pc' = "idle" /\ caller' = "spm" /\ q' = NoRequest /\ wire' = <<>> /\ out' = <<>>
        /\ sock' = sock /\ idle' = 0 /\ answer' = <<>>
    BY <2>1
  <2>6. closed' \in BOOLEAN
    BY <2>1, Zenon
  <2>7. /\ idle' \in 0 .. MaxIdle /\ answer' \in Answers \cup {<<>>} /\ sock' \in {"none", "failed", "open"}
        /\ caller' \in {"spm", "app"} /\ q' \in Requests \cup {NoRequest} /\ pc' # "send headers"
    BY <1>0, <2>5
  <2> QED
    BY <2>2, <2>3, <2>4, <2>5, <2>6, <2>7, Zenon DEF TypeInv
<1>16. ASSUME NEW a \in Answers, Answer(a) PROVE TypeInv'
  <2>1. /\ pc = "receive" /\ answer' = a /\ stream' = Stream(a)
        /\ UNCHANGED <<pc, caller, q, r, calls, wire, out, sock, idle, closed>>
    BY <1>16 DEF Answer
  <2>2. stream' = Stream(answer)'
    BY <2>1 DEF Stream, Texts, Beginnings
  <2> QED
    BY <1>0, <2>1, <2>2 DEF TypeInv
<1>17. CASE ServerClose
  BY <1>0, <1>17, TypeKeeps DEF ServerClose
<1>18. CASE UNCHANGED vars
  BY <1>0, <1>18, TypeKeeps DEF vars
<1> QED
  BY <1>1, <1>2, <1>4, <1>5, <1>6, <1>7, <1>8, <1>9, <1>11, <1>12, <1>13, <1>14, <1>15, <1>16, <1>17,
     <1>18 DEF Next, Call

\* Every variable has its type, and what is sent and received fits its buffers.
THEOREM TypeCorrect == Spec => []TypeOK
<1>1. TypeInv /\ WireInv /\ ParserInv => TypeOK
  <2> SUFFICES ASSUME TypeInv, WireInv, ParserInv PROVE TypeOK
    OBVIOUS
  <2>1. calls \in BoundedSeq(Additions, MaxAdded)
    <3>1. calls \in Seq(Additions) /\ Len(calls) \in 0 .. MaxAdded
      <4>1. calls \in Seq(Additions) /\ Len(calls) <= MaxAdded
        BY DEF WireInv, TypeInv
      <4>2. Len(calls) \in Nat
        BY <4>1
      <4> QED
        BY <4>1, <4>2, CallAssumption
    <3>2. calls \in [1 .. Len(calls) -> Additions]
      BY <3>1
    <3> QED
      BY <3>1, <3>2, Zenon DEF BoundedSeq, SeqOf
  <2>2. Len(out) <= ReqSize + q.body /\ Len(wire) <= ReqSize + q.body
    <3>1. wire \in Seq(Piece) /\ out \in Seq(Piece) /\ Len(wire) + Len(out) <= ReqSize + q.body
      BY DEF WireInv, TypeInv
    <3>2. q.body \in Nat
      BY BodyLength DEF TypeInv
    <3>3. Len(out) \in Nat /\ Len(wire) \in Nat
      BY <3>1
    <3> QED
      BY <3>1, <3>2, <3>3, RequestAssumption
  <2>3. DOMAIN s.buf = 1 .. RespSize
    BY DEF ParserInv, IsParser
  <2> QED
    BY <2>1, <2>2, <2>3 DEF TypeOK, TypeInv, WireInv, ParserInv
<1> QED
  BY <1>1, TypeInit, TypeStep, WireInit, WireStep, ParserInit, ParserStep, PTL DEF Spec

-----------------------------------------------------------------------------
(* The pieces of a response.                                               *)

\* The text begins with the method: the request line is there.
Leads(t, method) == t.lines # <<>> /\ t.lines[1] = method

\* A header more leaves the first line alone.
LEMMA EntryLeads ==
  ASSUME NEW t \in Entries, NEW method, Leads(t, method),
         NEW field \in Seq(Piece), field # <<>>, NEW value \in Seq(Piece)
  PROVE  Leads(Entry(t, field, value), method)
<1> DEFINE old  == t.lines
           line == Line(field, value)
           more == old \o line
           part == Append(old, Head(field))
<1>1. old \in Seq(Piece) /\ line \in Seq(Piece) /\ old # <<>> /\ old[1] = method /\ Head(field) \in Piece
  BY LineType DEF Entries, Leads
<1> HIDE DEF line
<1>2. more # <<>> /\ more[1] = method
  BY <1>1
<1>3. part # <<>> /\ part[1] = method
  BY <1>1
<1>4. [t EXCEPT !.ok = FALSE].lines = old
  BY DEF Entries
<1>5. \/ Entry(t, field, value) = [t EXCEPT !.ok = FALSE]
      \/ Entry(t, field, value) = [lines |-> more, whole |-> TRUE, ok |-> TRUE]
      \/ Entry(t, field, value) = [lines |-> part, whole |-> FALSE, ok |-> FALSE]
  BY EntryCases DEF line
<1> HIDE DEF more, part, old
<1>6. \/ Entry(t, field, value).lines = old
      \/ Entry(t, field, value).lines = more
      \/ Entry(t, field, value).lines = part
  <2>1. CASE Entry(t, field, value) = [t EXCEPT !.ok = FALSE]
    BY <1>4, <2>1
  <2>2. CASE Entry(t, field, value) = [lines |-> more, whole |-> TRUE, ok |-> TRUE]
    BY <2>2
  <2>3. CASE Entry(t, field, value) = [lines |-> part, whole |-> FALSE, ok |-> FALSE]
    BY <2>3
  <2> QED
    BY <1>5, <2>1, <2>2, <2>3
<1> QED
  BY <1>1, <1>2, <1>3, <1>6 DEF Leads

\* The same for what an application adds.
LEMMA CallLeads ==
  ASSUME NEW t \in Entries, NEW method, Leads(t, method), NEW c \in Additions
  PROVE  Leads(CallEntry(t, c), method)
<1>1. IF "field" \in DOMAIN c
      THEN c.field \in Seq(STRING) /\ c.value \in Seq(STRING)
      ELSE c.start \in Int /\ c.start >= Int32Min /\ c.end \in Int
  BY TextAssumption
<1>2. CASE "field" \in DOMAIN c
  <2>1. c.field \in Seq(Piece) /\ c.value \in Seq(Piece)
    BY <1>1, <1>2, StringsType
  <2>2. c.field # <<>> => Leads(Entry(t, c.field, c.value), method)
    BY <2>1, EntryLeads
  <2>3. Leads([t EXCEPT !.ok = FALSE], method)
    BY DEF Leads, Entries
  <2> QED
    BY <1>2, <2>2, <2>3 DEF CallEntry
<1>3. CASE "field" \notin DOMAIN c
  <2> DEFINE start == c.start
             end   == c.end
             name  == <<"Ra", "nge">>
             v1    == <<"bytes=", ToString(start), "-">>
             v2    == <<"bytes=", ToString(start), "-", ToString(end)>>
             v3    == <<"bytes=", "-", ToString(-start)>>
  <2>1. start \in Int /\ end \in Int /\ -start \in Int
    BY <1>1, <1>3
  <2>2. CallEntry(t, c) = RangeEntry(t, start, end)
    BY <1>3, Zenon DEF CallEntry
  <2>3. /\ name \in Seq(Piece) /\ name # <<>>
        /\ v1 \in Seq(Piece) /\ v2 \in Seq(Piece) /\ v3 \in Seq(Piece)
    <3>1. "Ra" \in Literal /\ "nge" \in Literal /\ "bytes=" \in Literal /\ "-" \in Literal
      BY DEF Literal
    <3>2. /\ "Ra" \in Piece /\ "nge" \in Piece /\ "bytes=" \in Piece /\ "-" \in Piece
          /\ ToString(start) \in Piece /\ ToString(end) \in Piece /\ ToString(-start) \in Piece
      BY <2>1, <3>1, LiteralsArePieces, Zenon
    <3> QED
      BY <3>2
  <2> HIDE DEF start, end
  <2>4. /\ Leads(Entry(t, name, v1), method) /\ Leads(Entry(t, name, v2), method)
        /\ Leads(Entry(t, name, v3), method)
    BY <2>3, EntryLeads
  <2>5. Leads([t EXCEPT !.ok = FALSE], method)
    BY DEF Leads, Entries
  <2> DEFINE e1 == Entry(t, name, v1)
             e2 == Entry(t, name, v2)
             e3 == Entry(t, name, v3)
             e4 == [t EXCEPT !.ok = FALSE]
             p1 == 0 <= start /\ end = EndOfFile
             p2 == 0 <= start /\ start <= end
             p3 == Int32Min < start /\ start < 0 /\ end = EndOfFile
  <2>6. RangeEntry(t, start, end) = CASE p1 -> e1 [] p2 -> e2 [] p3 -> e3 [] OTHER -> e4
    BY Zenon DEF RangeEntry
  <2> HIDE DEF e1, e2, e3, e4, p1, p2, p3
  <2>7. RangeEntry(t, start, end) \in {e1, e2, e3, e4}
    BY <2>6
  <2> QED
    BY <2>2, <2>4, <2>5, <2>7, Zenon DEF e1, e2, e3, e4
<1> QED
  BY <1>2, <1>3

\* And for the Content-Length.
LEMMA LengthLeads ==
  ASSUME NEW t \in Entries, NEW req, TextOf(req), NEW method, Leads(t, method)
  PROVE  Leads(WithLength(t, req), method)
<1> DEFINE name == <<"Co", "ntent-Length">>
<1>1. name \in Seq(Piece) /\ name # <<>> /\ <<ToString(req.body)>> \in Seq(Piece)
  <2>1. "Co" \in Literal /\ "ntent-Length" \in Literal /\ req.body \in Int
    BY DEF Literal, TextOf
  <2>2. "Co" \in Piece /\ "ntent-Length" \in Piece /\ ToString(req.body) \in Piece
    BY <2>1, LiteralsArePieces, Zenon
  <2> QED
    BY <2>2
<1>2. Leads(Entry(t, name, <<ToString(req.body)>>), method)
  BY <1>1, EntryLeads
<1> QED
  BY <1>2, Zenon DEF WithLength

\* The headers of a request begin with the request line, or it did not fit and
\* nothing came after it.
LEMMA InitialLeads ==
  ASSUME NEW req, TextOf(req)
  PROVE  LET t == Composed(req, <<>>) IN
         Leads(t, req.method) \/ (~t.ok /\ ~t.whole /\ t.lines = <<>>)
<1> DEFINE N == Len(Initial(req))
           Fine(t) == Leads(t, req.method) \/ (~t.ok /\ ~t.whole /\ t.lines = <<>>)
<1>1. N \in Nat
  BY InitialType
<1>2. PICK e : Composes(e, req, <<>>) /\ Composed(req, <<>>) = e[N + Len(<<>>)]
  <2>1. <<>> \in Seq(Additions)
    OBVIOUS
  <2> QED
    BY <2>1, ComposedIs
<1>3. /\ Composed(req, <<>>) = e[N] /\ e[0] = FirstEntry(req) /\ e \in [0 .. N -> Held]
      /\ \A i \in 1 .. N : e[i] = EntryAt(req, <<>>, e[i - 1], i)
  BY <1>1, <1>2 DEF Composes
<1>4. Fine(FirstEntry(req))
  <2> DEFINE line == LineOf(req)
  <2>1. line # <<>> /\ line[1] = req.method
    <3>1. Path(req) \in Seq(Piece) /\ req.method \in Piece /\ CRLF \in Piece
      BY LiteralsArePieces, PathType DEF TextOf
    <3> QED
      BY <3>1 DEF LineOf
  <2> HIDE DEF line
  <2>2. CASE Fits(req)
    <3>1. FirstEntry(req).lines = line
      BY <2>2 DEF FirstEntry, line
    <3> QED
      BY <2>1, <3>1 DEF Leads
  <2>3. CASE ~Fits(req)
    BY <2>3 DEF FirstEntry, line
  <2> QED
    BY <2>2, <2>3
<1>5. ASSUME NEW i \in 1 .. N, NEW t \in Held, Fine(t) PROVE Fine(EntryAt(req, <<>>, t, i))
  <2> DEFINE field == Initial(req)[i].field
             value == Initial(req)[i].value
  <2>1. ~(i > N) /\ t \in Entries
    BY <1>1 DEF Held
  <2>2. EntryAt(req, <<>>, t, i) = IF t.ok THEN Entry(t, field, value) ELSE t
    BY <2>1 DEF EntryAt
  <2>3. field \in Seq(Piece) /\ field # <<>> /\ value \in Seq(Piece)
    BY InitialType
  <2> HIDE DEF field, value
  <2>4. Leads(t, req.method) => Leads(Entry(t, field, value), req.method)
    BY <2>1, <2>3, EntryLeads
  <2> QED
    BY <1>5, <2>2, <2>4
<1> HIDE DEF N, Fine
<1> DEFINE S == {i \in Nat : i <= N => Fine(e[i])}
<1>6. 0 \in S
  BY <1>3, <1>4
<1>7. ASSUME NEW i \in Nat, i \in S PROVE i + 1 \in S
  <2>1. CASE i + 1 <= N
    <3>1. Fine(e[i]) /\ i + 1 \in 1 .. N /\ (i + 1) - 1 = i /\ e[i] \in Held
      BY <1>1, <1>3, <1>7, <2>1
    <3>2. e[i + 1] = EntryAt(req, <<>>, e[i], i + 1)
      BY <1>3, <3>1
    <3> QED
      BY <1>5, <3>1, <3>2
  <2>2. CASE ~(i + 1 <= N)
    BY <2>2
  <2> QED
    BY <2>1, <2>2
<1> HIDE DEF S
<1>8. N \in S
  BY <1>1, <1>6, <1>7, Induction
<1>9. Fine(e[N])
  BY <1>1, <1>8 DEF S
<1> QED
  BY <1>3, <1>9 DEF Fine

\* The first piece of the buffer, which HTTPClient_Send looks at to know whether
\* this is a HEAD request, is the method of the request.
MethodInv ==
  /\ pc = "headers" => Leads(Composed(q, calls), q.method)
  /\ pc = "send" => Leads(Composed(q, calls), q.method) \/ r.len = 0
  /\ pc \in {"send headers", "send body"} => r.buf[1] = q.method

LEMMA MethodInit == Init => MethodInv
BY DEF Init, MethodInv

\* A call that does not move to one of these places, or stays at one.
LEMMA MethodKeeps ==
  ASSUME MethodInv, UNCHANGED <<q, calls, r>>,
         \/ pc' \notin {"headers", "send", "send headers", "send body"}
         \/ pc' = pc
         \/ pc = "headers" /\ pc' = "send"
         \/ pc \in {"send headers", "send body"} /\ pc' \in {"send headers", "send body"}
  PROVE  MethodInv'
BY DEF MethodInv

\* HTTPClient_Send sends nothing that does not begin with a request line.
LEMMA SendLeads ==
  ASSUME MethodInv, WireInv, Send
  PROVE  MethodInv'
<1> DEFINE text == WithLength(Composed(q, calls), q)
<1>1. /\ pc = "send" /\ UNCHANGED <<q, calls>> /\ TextOf(q) /\ Holds(r, Composed(q, calls))
      /\ Composed(q, calls) \in Entries
  BY DEF Send, WireInv, Holds
<1>2. CASE r.len < MinimumLength
  <2>1. pc' \in {"close", "done"}
    BY <1>2 DEF Send, Returned
  <2> QED
    BY <2>1 DEF MethodInv
<1>3. CASE ~(r.len < MinimumLength)
  <2>1. r' = AddContentLength(r, q)
    BY <1>3 DEF Send
  <2>2. Leads(Composed(q, calls), q.method)
    BY <1>1, <1>3 DEF MethodInv, MinimumLength
  <2>3. Leads(text, q.method)
    BY <1>1, <2>2, LengthLeads
  <2>4. Holds(r', text)
    BY <1>1, <2>1, LengthHolds
  <2> HIDE DEF text
  <2>5. r'.buf[1] = q.method
    <3>1. text.lines \in Seq(Piece) /\ \A i \in 1 .. Len(text.lines) : r'.buf[i] = text.lines[i]
      BY <2>4 DEF Holds, Entries
    <3>2. 1 \in 1 .. Len(text.lines)
      BY <2>3, <3>1 DEF Leads
    <3> QED
      BY <2>3, <3>1, <3>2 DEF Leads
  <2>6. pc' \in {"close", "done", "send headers"}
    <3>1. CASE r'.status = "HTTPSuccess"
      BY <1>3, <3>1 DEF Send
    <3>2. CASE r'.status # "HTTPSuccess"
      BY <1>3, <3>2 DEF Send, Returned
    <3> QED
      BY <3>1, <3>2
  <2> QED
    BY <1>1, <2>5, <2>6 DEF MethodInv
<1> QED
  BY <1>2, <1>3

LEMMA MethodStep == MethodInv /\ WireInv /\ [Next]_vars => MethodInv'
<1> SUFFICES ASSUME MethodInv, WireInv, [Next]_vars PROVE MethodInv'
  OBVIOUS
<1> USE DEF request, sending, response
<1>1. ASSUME NEW c \in {"spm", "app"}, NEW req \in Requests, Begin(c, req) PROVE MethodInv'
  BY <1>1 DEF Begin, MethodInv
<1>2. CASE Socket \/ Resolve \/ Connect
  BY <1>2 DEF Socket, Resolve, Connect, CloseAndFail, MethodInv
<1>3. CASE InitializeHeaders
  <2> DEFINE t == Composed(q, <<>>)
  <2>1. pc = "initialize" /\ r' \in Initialize(Blank, q) /\ UNCHANGED <<q, calls>> /\ calls = <<>> /\ TextOf(q)
    BY <1>3 DEF InitializeHeaders, WireInv
  <2>2. pc' = CASE caller = "spm" -> "send"
                [] caller = "app" /\ r'.status = "HTTPSuccess" -> "headers"
                [] OTHER -> "done"
    BY <1>3, Zenon DEF InitializeHeaders
  <2>3. pc' \in {"send", "done"} \/ (pc' = "headers" /\ r'.status = "HTTPSuccess")
    BY <2>2
  <2>4. Holds(r', t) /\ (r'.status = "HTTPSuccess" <=> t.ok)
    BY <2>1, InitializeHolds
  <2>5. Leads(t, q.method) \/ (~t.ok /\ ~t.whole /\ t.lines = <<>>)
    BY <2>1, InitialLeads
  <2>6. Composed(q, calls)' = t
    BY <2>1
  <2> HIDE DEF t
  <2>7. ~t.whole /\ t.lines = <<>> => r'.len = 0
    BY <2>4 DEF Holds
  <2> QED
    BY <2>1, <2>3, <2>4, <2>5, <2>6, <2>7 DEF MethodInv
<1>4. ASSUME NEW c \in Additions, Add(c) PROVE MethodInv'
  <2>1. /\ pc = "headers" /\ calls' = Append(calls, c) /\ pc' \in {"headers", "send"} /\ UNCHANGED q
        /\ TextOf(q) /\ calls \in Seq(Additions) /\ Holds(r, Composed(q, calls))
    BY <1>4 DEF Add, WireInv
  <2>2. Composed(q, calls)' = CallEntry(Composed(q, calls), c)
    BY <2>1, ComposedStep
  <2>3. Leads(CallEntry(Composed(q, calls), c), q.method)
    BY <2>1, CallLeads DEF MethodInv, Holds
  <2> QED
    BY <2>1, <2>2, <2>3 DEF MethodInv
<1>5. CASE Skip
  BY <1>5, MethodKeeps DEF Skip
<1>6. CASE Send
  BY <1>6, SendLeads
<1>7. ASSUME NEW n \in 1 .. ReqSize, Transmit(n) PROVE MethodInv'
  <2>1. pc \in {"send headers", "send body"} /\ pc' \in {pc, "send body", "receive"} /\ UNCHANGED <<q, calls, r>>
    BY <1>7 DEF Transmit
  <2> QED
    BY <2>1, MethodKeeps
<1>8. CASE TransmitNothing
  BY <1>8, MethodKeeps DEF TransmitNothing, Returned
<1>9. ASSUME NEW p, NEW total, NEW over, Continue(p, total, over)
      PROVE  pc' \in {pc, "close", "done"}
  BY <1>9 DEF Continue, Returned
<1>10. ASSUME NEW n \in 1 .. Available, Receive(n) PROVE MethodInv'
  <2>1. pc = "receive" /\ Continue(s', received', FALSE)
    BY <1>10 DEF Receive
  <2>2. pc' \in {pc, "close", "done"}
    BY <1>9, <2>1, Zenon
  <2> QED
    BY <2>1, <2>2 DEF MethodInv
<1>11. CASE ReceiveNothing
  <2>1. pc = "receive" /\ (UNCHANGED pc \/ Continue(s', received, TRUE))
    BY <1>11 DEF ReceiveNothing
  <2>2. pc' \in {pc, "close", "done"}
    BY <1>9, <2>1, Zenon
  <2> QED
    BY <2>1, <2>2 DEF MethodInv
<1>12. CASE ReceiveError \/ Close \/ Return
  BY <1>12 DEF ReceiveError, Returned, Close, Return, MethodInv
<1>13. ASSUME NEW a \in Answers, Answer(a) PROVE MethodInv'
  BY <1>13, MethodKeeps DEF Answer
<1>14. CASE ServerClose
  BY <1>14, MethodKeeps DEF ServerClose
<1>15. CASE UNCHANGED vars
  BY <1>15, MethodKeeps DEF vars
<1> QED
  BY <1>1, <1>2, <1>3, <1>4, <1>5, <1>6, <1>7, <1>8, <1>10, <1>11, <1>12, <1>13, <1>14, <1>15
     DEF Next, Call

\* A buffer before anything is received, and with the first n tokens of the answer.
NoTokens == [i \in 1 .. RespSize |-> [k |-> "empty", v |-> 0]]
UpTo(n)  == [i \in 1 .. RespSize |-> IF i <= n THEN stream[i] ELSE [k |-> "empty", v |-> 0]]
ForHead  == q.method = "HEAD"

\* No more is received than was sent, a call that goes on has seen no error, the
\* parser is where it were if all had come at once, and the outcome of a call
\* that the network did not fail is that of the last parse.
PiecesInv ==
  /\ received <= Len(stream)
  /\ pc = "receive" => s.err = "HPE_OK"
  /\ received > 0 => s.cur = received + 1
  /\ pc = "receive" \/ received > 0 =>
       Alike(AtOnce(ForHead, UpTo(received), received), s, received + 1, NoTokens, NoTokens)
  /\ Ended /\ received > 0 /\ status # "HTTPNetworkError" => status = FinalStatus(s, received)

\* All in one go, in the words of the lemmas about the parser.
LEMMA OneGoIs == InOneGo = AtOnce(ForHead, UpTo(received), received)
<1> DEFINE p == [InitialState(ForHead) EXCEPT !.buf = UpTo(received)]
<1>1. p.cur = 1
  BY DEF InitialState
<1>2. InOneGo = Parse(p, received)
  BY Zenon DEF InOneGo, UpTo, ForHead
<1>3. Parse(p, received) = Rest(Fed(p, 1, received), 1 + received)
  <2> HIDE DEF p
  <2> QED
    BY <1>1, ParseIs
<1> QED
  BY <1>2, <1>3 DEF AtOnce

\* A receive of n tokens, or of none at the end, into a buffer with x behind what
\* was there.
LEMMA PieceReceived ==
  ASSUME PiecesInv, ParserInv, pc = "receive", NEW n \in Nat, received + n <= RespSize,
         NEW x, IsBuffer(x), \A i \in 1 .. received : x[i] = s.buf[i],
         \A i \in received + 1 .. RespSize : x[i] = UpTo(received + n)[i]
  PROVE  LET t == Parse([s EXCEPT !.buf = x], n) IN
         /\ t.cur = received + n + 1
         /\ Alike(AtOnce(ForHead, UpTo(received + n), received + n), t, received + n + 1, NoTokens, NoTokens)
<1> DEFINE r0 == received
           b == UpTo(r0)
           d == UpTo(r0 + n)
           p == [s EXCEPT !.buf = x]
<1>1. /\ r0 \in Nat /\ r0 < RespSize /\ s.cur = r0 + 1 /\ Sound(s, r0 + 1) /\ s.err = "HPE_OK"
      /\ Alike(AtOnce(ForHead, b, r0), s, r0 + 1, NoTokens, NoTokens)
  BY DEF ParserInv, PiecesInv
<1>2. IsBuffer(b) /\ IsBuffer(d)
  BY DEF UpTo, IsBuffer
<1>3. /\ \A i \in 1 .. r0 : d[i] = b[i]
      /\ \A i \in r0 + 1 .. RespSize : b[i] = NoTokens[i]
      /\ \A i \in r0 + n + 1 .. RespSize : d[i] = NoTokens[i]
  <2>0. r0 \in Nat /\ RespSize \in Nat /\ r0 < RespSize
    BY <1>1, ResponseAssumption
  <2>1. ASSUME NEW i \in 1 .. r0 PROVE d[i] = b[i]
    <3>1. i \in 1 .. RespSize /\ i <= r0 /\ i <= r0 + n
      BY <2>0
    <3> HIDE DEF r0
    <3> QED
      BY <3>1 DEF UpTo
  <2>2. ASSUME NEW i \in r0 + 1 .. RespSize PROVE b[i] = NoTokens[i]
    <3>1. i \in 1 .. RespSize /\ ~(i <= r0)
      BY <2>0
    <3> HIDE DEF r0
    <3> QED
      BY <3>1 DEF UpTo, NoTokens
  <2>3. ASSUME NEW i \in r0 + n + 1 .. RespSize PROVE d[i] = NoTokens[i]
    <3>1. i \in 1 .. RespSize /\ ~(i <= r0 + n)
      BY <2>0
    <3> HIDE DEF r0
    <3> QED
      BY <3>1 DEF UpTo, NoTokens
  <2> QED
    BY <2>1, <2>2, <2>3
<1>4. /\ \A i \in 1 .. r0 : x[i] = s.buf[i]
      /\ \A i \in r0 + 1 .. RespSize : x[i] = d[i]
      /\ r0 + n <= RespSize
  OBVIOUS
<1> HIDE DEF r0, b, d
<1>5. Alike(AtOnce(ForHead, d, r0 + n), Rest(Fed(p, r0 + 1, n), r0 + 1 + n), r0 + n + 1, NoTokens, NoTokens)
  BY <1>1, <1>2, <1>3, <1>4, OnePieceMore
<1>6. p.cur = r0 + 1
  BY <1>1 DEF Sound, IsParser, Fields
<1> HIDE DEF p
<1>7. Parse(p, n) = Rest(Fed(p, r0 + 1, n), r0 + 1 + n)
  BY <1>6, ParseIs
<1>8. Parse(p, n).cur = r0 + n + 1
  <2> DEFINE f == Fed(p, r0 + 1, n)
  <2>1. r0 + 1 + n = r0 + n + 1
    BY <1>1
  <2>2. Sound(p, r0 + 1)
    <3>1. IsParser(s) /\ ~s.failed
      BY <1>1 DEF Sound
    <3>2. /\ IsParser(p) /\ ~p.failed /\ p.find = s.find
          /\ p.state = s.state /\ p.err = s.err /\ p.st = s.st /\ p.span = s.span /\ p.from = s.from
          /\ p.cur = s.cur /\ p.hdr = s.hdr /\ p.field = s.field /\ p.value = s.value /\ p.body = s.body
          /\ p.bodyLen = s.bodyLen
      BY <3>1 DEF IsParser, Fields, IsBuffer, p
    <3> QED
      BY <1>1, <3>2, KeepSound
  <2>3. r0 + 1 \in Nat \ {0} /\ r0 + 1 + n <= RespSize + 1
    BY <1>1, <1>4, ResponseAssumption
  <2>4. Parse(p, n).cur = r0 + 1 + n
    BY <1>6, <2>2, <2>3, ParseSound
  <2> QED
    BY <2>1, <2>4
<1> QED
  BY <1>5, <1>7, <1>8 DEF d, r0, p

\* A parser that starts is where it is after nothing.
LEMMA StartsAlike ==
  ASSUME NEW head
  PROVE  Alike(AtOnce(head, NoTokens, 0), InitialState(head), 1, NoTokens, NoTokens)
<1> DEFINE p == InitialState(head)
           w == [p EXCEPT !.buf = NoTokens]
<1>1. IsBuffer(NoTokens)
  BY DEF NoTokens, IsBuffer
<1>2. w = p
  <2>1. p.buf = NoTokens
    BY DEF InitialState, NoTokens
  <2> HIDE DEF NoTokens
  <2> QED
    BY <2>1 DEF InitialState
<1>3. Sound(p, 1) /\ p.span = "none" /\ p.buf = NoTokens
  <2>1. p.span = "none" /\ p.buf = NoTokens
    BY DEF InitialState, NoTokens
  <2> QED
    BY <2>1, StartsSound
<1> HIDE DEF p, w, NoTokens
<1>4. Agree(p, Rest(p, 1))
  BY <1>3, RestRun
<1>5. AtOnce(head, NoTokens, 0) = Rest(p, 1)
  <2>1. Fed(w, 1, 0) = w
    BY FedIs
  <2>2. AtOnce(head, NoTokens, 0) = Rest(Fed(w, 1, 0), 1 + 0)
    BY DEF AtOnce, w, p
  <2> QED
    BY <1>2, <2>1, <2>2
<1>6. Same(Rest(p, 1), p, 1, NoTokens, NoTokens)
  <2>1. Agree(Rest(p, 1), p)
    BY <1>4 DEF Agree, SameRun, SameTexts
  <2>2. IsParser(p) /\ IsParser(Rest(p, 1))
    BY <1>4 DEF Agree
  <2> DEFINE o == Rest(p, 1)
  <2> HIDE DEF o
  <2>3. Same(o, p, RespSize + 1, <<>>, <<>>)
    BY <2>1, AgreeIs DEF o
  <2>4. \A i \in 1 .. RespSize : o.buf[i] = p.buf[i]
    BY <2>1, ResponseAssumption DEF Agree, SameTexts, o
  <2>5. \A i \in 1 .. RespSize : o.buf[i] = NoTokens[i] /\ p.buf[i] = NoTokens[i]
    BY <1>3, <2>4
  <2>6. \A i \in 1 .. 1 - 1 : p.buf[i] = o.buf[i]
    OBVIOUS
  <2> QED
    BY <2>3, <2>5, <2>6 DEF Same, o
<1> QED
  BY <1>5, <1>6 DEF Alike, Same, p

\* When nothing is received.
LEMMA PiecesKeep ==
  ASSUME PiecesInv, UNCHANGED <<q, stream, received, s>>, pc' = "receive" => pc = "receive",
         \/ received = 0 \/ ~Ended' \/ status' = "HTTPNetworkError"
         \/ Ended /\ UNCHANGED status
  PROVE  PiecesInv'
<1>1. AtOnce(ForHead, UpTo(received), received)' = AtOnce(ForHead, UpTo(received), received)
  BY DEF ForHead, UpTo
<1>2. (Ended /\ received > 0 /\ status # "HTTPNetworkError" => status = FinalStatus(s, received))'
  BY DEF PiecesInv
<1> QED
  BY <1>1, <1>2 DEF PiecesInv

\* Before anything is received.
LEMMA NothingYet ==
  ASSUME received' = 0, stream' \in Seq(Token), pc' # "receive"
  PROVE  PiecesInv'
BY DEF PiecesInv

\* A receive.
LEMMA ReceivePieces ==
  ASSUME PiecesInv, ParserInv, NEW n \in 1 .. Available, Receive(n)
  PROVE  PiecesInv'
<1> DEFINE x == Stored(s.buf, n)
           t == Parse([s EXCEPT !.buf = x], n)
<1>1. /\ pc = "receive" /\ received \in Nat /\ received < RespSize /\ stream \in Seq(Token) /\ RespSize \in Nat
      /\ IsParser(s) /\ s.err = "HPE_OK" /\ received <= Len(stream) /\ Len(stream) \in Nat
      /\ Alike(AtOnce(ForHead, UpTo(received), received), s, received + 1, NoTokens, NoTokens)
  BY ResponseAssumption DEF Receive, ParserInv, PiecesInv
<1>2. /\ received' = received + n /\ received + n <= RespSize /\ s' = t /\ UNCHANGED <<stream, q>>
      /\ Continue(s', received', FALSE)
  BY DEF Receive, request
<1>3. n \in Nat \ {0} /\ received + n <= Len(stream)
  <2>1. Available \in Int /\ Available <= Len(stream) - received
    BY <1>1 DEF Available
  <2> QED
    BY <1>1, <2>1
<1>4. s.buf = [i \in 1 .. RespSize |-> s.buf[i]] /\ \A i \in received + 1 .. RespSize : s.buf[i] = NoTokens[i]
  <2> DEFINE o == AtOnce(ForHead, UpTo(received), received)
  <2> HIDE DEF o
  <2>1. Same(o, s, received + 1, NoTokens, NoTokens)
    BY <1>1 DEF Alike, SameRun, o
  <2> QED
    BY <2>1 DEF Same, IsParser
<1>5. IsBuffer(x)
  BY <1>4 DEF Stored, IsBuffer
<1>6. ASSUME NEW i \in 1 .. received PROVE x[i] = s.buf[i]
  <2>1. i \in DOMAIN s.buf /\ i \notin received + 1 .. received + n
    BY <1>1, <1>4
  <2> QED
    BY <2>1 DEF Stored
<1>7. ASSUME NEW i \in received + 1 .. RespSize PROVE x[i] = UpTo(received + n)[i]
  <2>1. i \in DOMAIN s.buf /\ i \in 1 .. RespSize
    BY <1>1, <1>4
  <2>2. CASE i <= received + n
    <3>1. x[i] = stream[i]
      BY <1>1, <1>3, <2>1, <2>2 DEF Stored
    <3> QED
      BY <2>1, <2>2, <3>1 DEF UpTo
  <2>3. CASE ~(i <= received + n)
    <3>1. x[i] = s.buf[i]
      BY <1>1, <1>3, <2>1, <2>3 DEF Stored
    <3> QED
      BY <1>4, <2>1, <2>3, <3>1 DEF UpTo, NoTokens
  <2> QED
    BY <2>2, <2>3
<1> HIDE DEF x
<1>8. /\ t.cur = received + n + 1
      /\ Alike(AtOnce(ForHead, UpTo(received + n), received + n), t, received + n + 1, NoTokens, NoTokens)
  BY <1>1, <1>2, <1>3, <1>5, <1>6, <1>7, PieceReceived
<1> HIDE DEF t
<1>9. AtOnce(ForHead, UpTo(received), received)' = AtOnce(ForHead, UpTo(received + n), received + n)
  BY <1>2 DEF ForHead, UpTo
<1>10. /\ pc' = "receive" => s'.err = "HPE_OK"
       /\ Ended' => status' = FinalStatus(s', received')
  BY <1>1, <1>2, Continued DEF Ended
<1> QED
  BY <1>2, <1>3, <1>8, <1>9, <1>10 DEF PiecesInv

\* One that gave nothing.
LEMMA ReceiveNoPiece ==
  ASSUME PiecesInv, ParserInv, ReceiveNothing
  PROVE  PiecesInv'
<1>1. pc = "receive" /\ UNCHANGED <<q, stream, received>>
  BY DEF ReceiveNothing, sending, request
<1>2. CASE UNCHANGED <<pc, s>>
  BY <1>1, <1>2, PiecesKeep DEF Ended
<1>3. CASE s' = Parse(s, 0) /\ Continue(s', received, TRUE)
  <2> DEFINE c == received + 1
             w == [s EXCEPT !.buf = s.buf]
             t == Parse(w, 0)
             o == AtOnce(ForHead, UpTo(received), received)
  <2>1. /\ received \in Nat /\ received < RespSize /\ RespSize \in Nat /\ s.err = "HPE_OK" /\ IsParser(s)
        /\ s.cur = c /\ Sound(s, c) /\ c \in 1 .. RespSize /\ c \in 1 .. RespSize + 1
        /\ Alike(o, s, c, NoTokens, NoTokens)
    BY <1>1, ResponseAssumption DEF ParserInv, PiecesInv
  <2>2. IsBuffer(s.buf) /\ \A i \in c .. RespSize : s.buf[i] = NoTokens[i]
    <3> HIDE DEF o
    <3>1. Same(o, s, c, NoTokens, NoTokens)
      BY <2>1 DEF Alike, SameRun
    <3> QED
      BY <3>1 DEF Same, IsParser, IsBuffer
  <2>3. ASSUME NEW i \in received + 1 .. RespSize PROVE s.buf[i] = UpTo(received + 0)[i]
    <3>1. i \in 1 .. RespSize /\ ~(i <= received + 0)
      BY <2>1
    <3> QED
      BY <2>2, <3>1 DEF UpTo, NoTokens
  <2>4. received + 0 = received /\ received + 0 <= RespSize /\ 0 \in Nat
    BY <2>1
  <2>5. Alike(o, t, c, NoTokens, NoTokens)
    <3>1. Alike(AtOnce(ForHead, UpTo(received + 0), received + 0), t, received + 0 + 1, NoTokens, NoTokens)
      BY <1>1, <2>2, <2>3, <2>4, PieceReceived
    <3> QED
      BY <2>4, <3>1
  <2>6. Agree(s, w) /\ w.cur = c
    BY <2>1 DEF Agree, SameRun, SameTexts, IsParser, Fields
  <2> HIDE DEF o, w
  <2>7. t = Rest(w, c) /\ s' = Rest(s, c)
    <3>1. ASSUME NEW p, p.cur = c PROVE Parse(p, 0) = Rest(p, c)
      <4>1. Fed(p, c, 0) = p /\ c + 0 = c
        BY <2>1, FedIs
      <4>2. Parse(p, 0) = Rest(Fed(p, c, 0), c + 0)
        BY <3>1, ParseIs
      <4> QED
        BY <4>1, <4>2
    <3> QED
      BY <1>3, <2>1, <2>6, <3>1
  <2>8. Agree(t, s')
    <3>1. Agree(Rest(s, c), Rest(w, c))
      BY <2>1, <2>6, AgreeRest
    <3>2. Agree(s', t)
      BY <2>7, <3>1
    <3> HIDE DEF t
    <3> QED
      BY <3>2 DEF Agree, SameRun, SameTexts
  <2> HIDE DEF t
  <2>9. Alike(o, s', c, NoTokens, NoTokens)
    <3>1. IsParser(o) /\ IsParser(s') /\ SameRun(o, s')
      BY <2>5, <2>8 DEF Alike, Agree, SameRun
    <3>2. ASSUME o.err = "HPE_OK" PROVE Same(o, s', c, NoTokens, NoTokens)
      <4>1. Same(o, t, c, NoTokens, NoTokens)
        BY <2>5, <3>2 DEF Alike
      <4>2. Agree(o, o)
        BY <3>1 DEF Agree, SameRun, SameTexts
      <4> QED
        BY <2>1, <2>8, <4>1, <4>2, SameAgree
    <3> QED
      BY <3>1, <3>2 DEF Alike
  <2>10. AtOnce(ForHead, UpTo(received), received)' = o
    BY <1>1 DEF ForHead, UpTo, o
  <2>11. s'.cur = c
    <3>1. 0 \in Nat /\ c + 0 = c /\ c \in Nat \ {0} /\ c + 0 <= RespSize + 1
      BY <2>1
    <3>2. Parse(s, 0).cur = c + 0
      BY <2>1, <3>1, ParseSound
    <3> QED
      BY <1>3, <3>1, <3>2
  <2>12. pc' # "receive" /\ status' = FinalStatus(s', received')
    BY <1>1, <1>3, Continued
  <2> QED
    BY <1>1, <2>9, <2>10, <2>11, <2>12 DEF PiecesInv
<1> QED
  BY <1>2, <1>3 DEF ReceiveNothing

LEMMA PiecesInit == Init => PiecesInv
<1> SUFFICES ASSUME Init PROVE PiecesInv
  OBVIOUS
<1>1. pc = "idle" /\ received = 0 /\ stream = <<>>
  BY DEF Init
<1> QED
  BY <1>1 DEF PiecesInv, Ended

LEMMA PiecesStep ==
  PiecesInv /\ MethodInv /\ TypeInv /\ ParserInv /\ ParserInv' /\ [Next]_vars => PiecesInv'
<1> SUFFICES ASSUME PiecesInv, MethodInv, TypeInv, ParserInv, ParserInv', [Next]_vars PROVE PiecesInv'
  OBVIOUS
<1> USE DEF request, sending, response
<1>1. ASSUME NEW c \in {"spm", "app"}, NEW req \in Requests, Begin(c, req) PROVE PiecesInv'
  <2>1. received' = 0 /\ stream' \in Seq(Token) /\ pc' # "receive"
    BY <1>1 DEF Begin, ParserInv
  <2> QED
    BY <2>1, NothingYet
<1>2. CASE Socket \/ Resolve \/ Connect
  <2>1. received = 0 /\ UNCHANGED <<q, stream, received, s>> /\ pc' # "receive"
    BY <1>2 DEF Socket, Resolve, Connect, CloseAndFail, ParserInv
  <2> QED
    BY <2>1, PiecesKeep
<1>3. CASE InitializeHeaders
  <2>1. received = 0 /\ UNCHANGED <<q, received, stream, s>>
    BY <1>3 DEF InitializeHeaders, ParserInv
  <2>2. pc' = CASE caller = "spm" -> "send"
                [] caller = "app" /\ r'.status = "HTTPSuccess" -> "headers"
                [] OTHER -> "done"
    BY <1>3, Zenon DEF InitializeHeaders
  <2>3. pc' # "receive"
    BY <2>2
  <2> QED
    BY <2>1, <2>3, PiecesKeep
<1>4. ASSUME NEW c \in Additions, Add(c) PROVE PiecesInv'
  BY <1>4, PiecesKeep DEF Add, ParserInv
<1>5. CASE Skip
  BY <1>5, PiecesKeep DEF Skip, ParserInv
<1>6. CASE Send
  BY <1>6, PiecesKeep DEF Send, Returned, ParserInv
<1>7. ASSUME NEW n \in 1 .. ReqSize, Transmit(n) PROVE PiecesInv'
  <2>1. /\ pc \in {"send headers", "send body"} /\ UNCHANGED <<q, received, stream>>
        /\ received = 0 /\ r.buf[1] = q.method /\ stream \in Seq(Token)
    BY <1>7 DEF Transmit, ParserInv, MethodInv
  <2>2. \/ pc' \in {"send headers", "send body"} /\ UNCHANGED s
        \/ pc' = "receive" /\ s' = InitialState(r.buf[1] = "HEAD")
    <3> DEFINE left == SubSeq(out, n + 1, Len(out))
               more == left # <<>>
               data == left = <<>> /\ pc = "send headers" /\ q.body > 0
    <3>1. CASE more
      BY <1>7, <2>1, <3>1 DEF Transmit
    <3>2. CASE data
      BY <1>7, <2>1, <3>2 DEF Transmit
    <3>3. CASE ~more /\ ~data
      BY <1>7, <3>3 DEF Transmit
    <3> QED
      BY <3>1, <3>2, <3>3
  <2>3. CASE pc' \in {"send headers", "send body"} /\ UNCHANGED s
    BY <2>1, <2>3, NothingYet
  <2>4. CASE pc' = "receive" /\ s' = InitialState(r.buf[1] = "HEAD")
    <3>1. s' = InitialState(ForHead)
      BY <2>1, <2>4 DEF ForHead
    <3>2. UpTo(0) = NoTokens
      BY DEF UpTo, NoTokens
    <3>3. AtOnce(ForHead, UpTo(received), received)' = AtOnce(ForHead, NoTokens, 0)
      <4>1. AtOnce(ForHead, UpTo(received), received)' = AtOnce(ForHead, UpTo(0), 0)
        BY <2>1 DEF ForHead, UpTo
      <4> QED
        BY <3>2, <4>1
    <3>4. Alike(AtOnce(ForHead, NoTokens, 0), InitialState(ForHead), 1, NoTokens, NoTokens)
      BY StartsAlike
    <3>5. InitialState(ForHead).err = "HPE_OK" /\ InitialState(ForHead).cur = 1
      BY DEF InitialState
    <3>6. received' = 0 /\ received' + 1 = 1 /\ received' <= Len(stream')
      <4>1. ASSUME NEW z \in Seq(Token) PROVE 0 <= Len(z)
        OBVIOUS
      <4>2. received' = 0 /\ stream' \in Seq(Token)
        BY <2>1
      <4> QED
        BY <4>1, <4>2
    <3> QED
      BY <2>4, <3>1, <3>3, <3>4, <3>5, <3>6 DEF PiecesInv, Ended
  <2> QED
    BY <2>2, <2>3, <2>4
<1>8. CASE TransmitNothing
  BY <1>8, PiecesKeep DEF TransmitNothing, Returned, ParserInv
<1>9. ASSUME NEW n \in 1 .. Available, Receive(n) PROVE PiecesInv'
  BY <1>9, ReceivePieces
<1>10. CASE ReceiveNothing
  BY <1>10, ReceiveNoPiece
<1>11. CASE ReceiveError
  BY <1>11, PiecesKeep DEF ReceiveError, Returned
<1>12. CASE Close
  BY <1>12, PiecesKeep DEF Close, Ended
<1>13. CASE Return
  <2>1. received' = 0 /\ stream' = <<>> /\ pc' # "receive"
    BY <1>13 DEF Return
  <2> QED
    BY <2>1, NothingYet
<1>14. ASSUME NEW a \in Answers, Answer(a) PROVE PiecesInv'
  <2>1. /\ pc = "receive" /\ answer = <<>> /\ stream = Stream(<<>>) /\ UNCHANGED <<pc, q, received, s>>
    BY <1>14 DEF Answer, TypeInv
  <2>2. received = 0
    <3>1. stream = <<>>
      BY <2>1, NoStream
    <3> QED
      BY <3>1, ResponseAssumption DEF ParserInv, PiecesInv
  <2>3. received' <= Len(stream')
    BY <2>1, <2>2 DEF ParserInv
  <2>4. AtOnce(ForHead, UpTo(received), received)' = AtOnce(ForHead, UpTo(received), received)
    <3>1. UpTo(0) = NoTokens /\ UpTo(0)' = NoTokens
      BY DEF UpTo, NoTokens
    <3>2. UpTo(received)' = UpTo(0)'
      BY <2>1, <2>2
    <3>3. UpTo(received)' = UpTo(received)
      BY <2>2, <3>1, <3>2
    <3> QED
      BY <2>1, <3>3 DEF ForHead
  <2> QED
    BY <2>1, <2>2, <2>3, <2>4 DEF PiecesInv, Ended
<1>15. CASE ServerClose
  BY <1>15, PiecesKeep DEF ServerClose, Ended
<1>16. CASE UNCHANGED vars
  BY <1>16, PiecesKeep DEF vars, Ended
<1> QED
  BY <1>1, <1>2, <1>3, <1>4, <1>5, <1>6, <1>7, <1>8, <1>9, <1>10, <1>11, <1>12, <1>13, <1>14, <1>15,
     <1>16 DEF Next, Call

\* Where two parsers are alike, every field is the same but those that no run
\* depends on.
LEMMA AlikeFields ==
  ASSUME NEW r0 \in Nat, NEW one, NEW t, Alike(one, t, r0 + 1, NoTokens, NoTokens), one.err = "HPE_OK",
         t.cur = one.cur, NEW f \in Fields \ {"hdrLen", "failed"}
  PROVE  t[f] = one[f]
<1>1. Same(one, t, r0 + 1, NoTokens, NoTokens)
  BY DEF Alike
<1>2. t.buf = one.buf
  <2> DEFINE a == one.buf
             b == t.buf
  <2>1. /\ a = [i \in 1 .. RespSize |-> a[i]] /\ b = [i \in 1 .. RespSize |-> b[i]]
        /\ \A i \in 1 .. (r0 + 1) - 1 : b[i] = a[i]
        /\ \A i \in r0 + 1 .. RespSize : a[i] = NoTokens[i] /\ b[i] = NoTokens[i]
    BY <1>1 DEF Same, IsParser
  <2> HIDE DEF a, b
  <2>2. \A i \in 1 .. RespSize : i \in 1 .. (r0 + 1) - 1 \/ i \in r0 + 1 .. RespSize
    BY ResponseAssumption
  <2>3. \A i \in 1 .. RespSize : b[i] = a[i]
    BY <2>1, <2>2
  <2>4. b = a
    BY <2>1, <2>3
  <2> QED
    BY <2>4 DEF a, b
<1> QED
  BY <1>1, <1>2 DEF Same, SameRun, Fields

\* The asserts of the callbacks hold for any response that is made of tokens, each
\* receive is parsed where it was stored, the body that is handed out lies in what
\* was received, and the pieces in which the response arrives make no difference
\* to what is read of it nor to the outcome.
THEOREM PiecesMakeNoDifference == Spec => []ParserInStep
<1>1. ParserInv /\ PiecesInv => ParserInStep
  <2> SUFFICES ASSUME ParserInv, PiecesInv PROVE ParserInStep
    OBVIOUS
  <2> DEFINE one == InOneGo
  <2>1. ~s.failed /\ (pc = "receive" => s.cur = received + 1) /\ IsParser(s) /\ received \in 0 .. RespSize
    BY DEF ParserInv
  <2>5. s.err = "HPE_OK" => s.body + s.bodyLen <= received + 1
    BY DEF ParserInv, Before
  <2>2. ASSUME received > 0
        PROVE  /\ s.err = one.err /\ s.state = one.state
               /\ s.err = "HPE_OK" => \A f \in DOMAIN s \ {"hdrLen", "failed"} : s[f] = one[f]
               /\ Ended /\ status # "HTTPNetworkError" => status = FinalStatus(one, received)
    <3>1. Alike(one, s, received + 1, NoTokens, NoTokens) /\ s.cur = received + 1
      BY <2>2, OneGoIs DEF PiecesInv
    <3>2. one.cur = received + 1
      <4> DEFINE w == [InitialState(ForHead) EXCEPT !.buf = UpTo(received)]
      <4>1. Sound(w, 1)
        <5>1. UpTo(received) = [i \in 1 .. RespSize |-> UpTo(received)[i]]
          BY DEF UpTo
        <5> QED
          BY <5>1, InitialSound
      <4>2. w.cur = 1
        BY DEF InitialState
      <4>3. one = Parse(w, received)
        BY Zenon DEF InOneGo, UpTo, ForHead
      <4> HIDE DEF w, one
      <4>4. 1 \in Nat \ {0} /\ received \in Nat /\ 1 + received <= RespSize + 1 /\ 1 + received = received + 1
        BY <2>1, ResponseAssumption
      <4>5. Parse(w, received).cur = 1 + received
        BY <4>1, <4>2, <4>4, ParseSound
      <4> QED
        BY <4>3, <4>4, <4>5
    <3> HIDE DEF one
    <3>3. s.err = one.err /\ s.state = one.state
      BY <3>1 DEF Alike, SameRun
    <3>4. ASSUME s.err = "HPE_OK", NEW f \in DOMAIN s \ {"hdrLen", "failed"} PROVE s[f] = one[f]
      <4>1. f \in Fields \ {"hdrLen", "failed"} /\ received \in Nat
        BY <2>1 DEF IsParser
      <4>2. one.err = "HPE_OK" /\ s.cur = one.cur
        BY <3>1, <3>2, <3>3, <3>4
      <4> QED
        BY <3>1, <4>1, <4>2, AlikeFields
    <3>5. FinalStatus(s, received) = FinalStatus(one, received)
      BY <3>3 DEF FinalStatus
    <3>6. ASSUME Ended, status # "HTTPNetworkError" PROVE status = FinalStatus(one, received)
      BY <2>2, <3>5, <3>6 DEF PiecesInv
    <3> QED
      BY <3>3, <3>4, <3>6
  <2> QED
    BY <2>1, <2>2, <2>5, Zenon DEF ParserInStep
<1> QED
  BY <1>1, TypeInit, TypeStep, WireInit, WireStep, MethodInit, MethodStep, ParserInit, ParserStep,
     PiecesInit, PiecesStep, PTL DEF Spec

-----------------------------------------------------------------------------
(* What the parser knows of the messages so far.                           *)

\* Where the head of a message, or its trailer, is read.
Heading ==
  {"code", "status_start", "status", "field_start", "field", "discard_ws", "discard_lws", "lws"} \cup InValue

\* In the body of a message that announces no length of it.
Chunking == {"eof", "size", "size_end", "parameters", "chunk", "chunk_end"}

\* In the head of a message nothing is known of its body, and what llhttp knows
\* of its length comes from a Content-Length.
Plain(z) ==
  /\ z.body = 0 /\ z.bodyLen = 0 /\ z.contentLength = 0 /\ z.length \in Nat
  /\ "skipbody" \notin z.flags
  /\ z.length # 0 => z.st = "length" \/ "length" \in z.flags
  /\ "chunked" \in z.flags \/ z.header = Chunked \/ z.st = "encoding" => "transfer" \in z.flags

\* A message has begun and not ended; the first one is in its head or its trailer.
InHead(z) ==
  /\ z.begun \in Nat \ {0} /\ z.state = "incomplete"
  /\ z.begun = 1 => /\ z.body = 0 => z.bodyLen = 0
                    /\ IF "trailing" \in z.flags THEN z.contentLength = 0 ELSE Plain(z)

\* The bytes of the body in front of j.
Sofar(z, j) == z.bodyLen + (IF z.span = "body" THEN j - z.from ELSE 0)

Nothing(z) ==
  /\ z.st = "start" /\ z.state = "none" /\ z.flags = {} /\ z.length = 0 /\ z.header = General
  /\ z.body = 0 /\ z.bodyLen = 0 /\ z.contentLength = 0

\* The state of the application's parse is that of the last message, and the bytes
\* that the body of the first one still has are those that were announced and
\* are not reported.
Counted(z, j) ==
  /\ z.begun \in Nat
  /\ z.begun = 0 => Nothing(z)
  /\ z.begun # 0 => z.state = IF z.st \in {"start", "closed"} THEN "complete" ELSE "incomplete"
  /\ z.begun = 1 =>
       /\ z.body = 0 => z.bodyLen = 0
       /\ z.st \in Heading => IF "trailing" \in z.flags THEN z.contentLength = 0 ELSE Plain(z)
       /\ z.st = "identity" =>
            /\ z.length \in Nat \ {0}
            /\ z.contentLength # 0 => (Sofar(z, j) + z.length) % Sizes = z.contentLength
       /\ z.st \in Chunking => z.contentLength = 0
       /\ z.st \in {"start", "closed"} =>
            z.head \/ z.contentLength = 0 \/ z.bodyLen % Sizes = z.contentLength

Told(z, j) == z.st # "error" => Counted(z, j)

\* z and w are of the same message.
Kin(z, w) ==
  /\ w.begun = z.begun /\ w.state = z.state /\ w.body = z.body /\ w.bodyLen = z.bodyLen
  /\ w.contentLength = z.contentLength

LEMMA HeadTold ==
  ASSUME NEW j, NEW z, z.st \in Heading
  PROVE  /\ InHead(z) => Told(z, j)
         /\ Told(z, j) => InHead(z)
<1>1. z.st \notin {"start", "closed", "identity", "error"} \cup Chunking
  BY DEF Heading, Chunking, InValue
<1> QED
  BY <1>1 DEF InHead, Told, Counted, Nothing

\* Of a parser that has failed there is nothing to be said.
LEMMA FailTold ==
  ASSUME NEW j, NEW z, IsParser(z), NEW err
  PROVE  Told(Fail(z, err), j)
<1>1. Fail(z, err).st = "error"
  BY DEF Fail, IsParser, Fields
<1> QED
  BY <1>1 DEF Told

\* In the head of the same message.
LEMMA HeadKin ==
  ASSUME NEW z, InHead(z), NEW w, Kin(z, w), w.flags = z.flags, w.length = z.length, w.header = z.header,
         z.st = "length" => w.st = "length", w.st = "encoding" => z.st = "encoding"
  PROVE  InHead(w)
BY DEF InHead, Kin, Plain

\* What a callback for a span does to the body.
LEMMA ReportBody ==
  ASSUME NEW j \in Nat \ {0}, NEW z, Sound(z, j), z.st # "error", z.span # "none"
  PROVE  LET w == Report(z, j) IN
         /\ z.span # "body" => w.body = z.body /\ w.bodyLen = z.bodyLen
         /\ z.span = "body" => /\ w.body # 0
                               /\ w.bodyLen = (IF z.body = 0 THEN 0 ELSE z.bodyLen) + (j - z.from)
<1> DEFINE loc == z.from
           n   == j - z.from
           w   == Report(z, j)
<1>1. /\ IsParser(z) /\ ~z.failed /\ ~Searching(z)
      /\ z.span \in {"status", "field", "value", "body"} /\ z.from \in 1 .. j /\ z.from <= RespSize
      /\ j \in Nat
  BY NotSearching DEF Sound, Live
<1>2. loc \in Nat \ {0} /\ n \in Nat /\ loc \in 1 .. RespSize /\ z.bodyLen \in Nat
  BY <1>1, ResponseAssumption DEF Sound, Live, Before
<1>3. CASE z.span = "status"
  <2>1. w = OnStatus(z, loc, n)
    BY <1>1, <1>3 DEF Report
  <2> HIDE DEF w, loc, n
  <2> QED
    BY <1>1, <1>3, <2>1, StatusReported DEF w
<1>4. CASE z.span = "field"
  <2>1. w = OnHeaderField(z, loc, n)
    BY <1>1, <1>4 DEF Report
  <2> HIDE DEF w, loc, n
  <2> QED
    BY <1>1, <1>4, <2>1, FieldReported DEF w
<1>5. CASE z.span = "value"
  <2>1. w = OnHeaderValue(z, loc, n)
    BY <1>1, <1>5 DEF Report
  <2>2. z.field.at # 0
    BY <1>1, <1>5 DEF Sound, Live, Named
  <2> HIDE DEF w, loc, n
  <2> QED
    BY <1>1, <1>5, <2>1, <2>2, ValueReported DEF w
<1>6. CASE z.span = "body"
  <2>1. w = OnBody(z, loc, n)
    BY <1>1, <1>6 DEF Report
  <2> HIDE DEF w, loc, n
  <2>2. w.body = (IF z.body = 0 THEN loc ELSE z.body) /\ w.bodyLen = (IF z.body = 0 THEN n ELSE z.bodyLen + n)
    BY <1>1, <1>2, <2>1, BodyReported
  <2>3. w.body # 0 /\ w.bodyLen = (IF z.body = 0 THEN 0 ELSE z.bodyLen) + n
    BY <1>2, <2>2
  <2> QED
    BY <1>6, <2>3 DEF w, n
<1> QED
  BY <1>1, <1>3, <1>4, <1>5, <1>6

\* The end of a span.
LEMMA EndBody ==
  ASSUME NEW j \in Nat \ {0}, NEW z, Sound(z, j), z.st # "error", z.span # "none", NEW st
  PROVE  LET e == EndSpan(z, j, st) IN
         /\ Idle(e, j) /\ e.st = st /\ e.flags = z.flags /\ e.length = z.length /\ e.header = z.header
         /\ e.head = z.head
         /\ z.span # "body" => Kin(z, e)
         /\ z.span = "body" => /\ e.begun = z.begun /\ e.state = z.state
                               /\ e.contentLength = z.contentLength /\ e.body # 0
                               /\ e.bodyLen = (IF z.body = 0 THEN 0 ELSE z.bodyLen) + (j - z.from)
<1> DEFINE w == Report(z, j)
           e == EndSpan(z, j, st)
<1>1. /\ Idle(e, j) /\ e.st = st /\ e.flags = z.flags /\ e.length = z.length /\ e.header = z.header
      /\ e.head = z.head /\ e.begun = z.begun /\ e.state = z.state /\ e.contentLength = z.contentLength
  BY EndIdle
<1>2. IsParser(w)
  BY SpanReported
<1>3. /\ z.span # "body" => w.body = z.body /\ w.bodyLen = z.bodyLen
      /\ z.span = "body" => /\ w.body # 0
                            /\ w.bodyLen = (IF z.body = 0 THEN 0 ELSE z.bodyLen) + (j - z.from)
  BY ReportBody
<1>4. e.body = w.body /\ e.bodyLen = w.bodyLen
  <2>1. e = [w EXCEPT !.span = "none", !.from = 0, !.st = IF w.err = "HPE_OK" THEN st ELSE "error"]
    BY DEF EndSpan
  <2> HIDE DEF e, w
  <2> QED
    BY <1>2, <2>1 DEF IsParser, Fields
<1> HIDE DEF e, w
<1> QED
  BY <1>1, <1>3, <1>4 DEF Kin, e

\* An empty value.
LEMMA EmptyKin ==
  ASSUME NEW j \in 1 .. RespSize, NEW z, Idle(z, j), z.field.at # 0, NEW st
  PROVE  LET e == EndSpan(Open(z, "value", j), j, st) IN
         /\ Kin(z, e) /\ e.st = st /\ e.flags = z.flags /\ e.length = z.length /\ e.header = z.header
         /\ e.buf = z.buf
<1> DEFINE o == Open(z, "value", j)
           w == OnHeaderValue(o, j, j - j)
           e == [w EXCEPT !.span = "none", !.from = 0, !.st = st]
<1>1. /\ IsParser(o) /\ ~o.failed /\ o.find = NoSearch /\ o.err = "HPE_OK" /\ o.span = "value"
      /\ o.field = z.field /\ o.from = j /\ Kin(z, o) /\ o.flags = z.flags /\ o.length = z.length
      /\ o.header = z.header /\ o.buf = z.buf
  BY DEF Open, IsParser, Fields, Idle, Kin
<1> HIDE DEF o
<1>2. Report(o, j) = w
  BY <1>1, NotSearching DEF Report
<1>3. IsParser(w) /\ SameRun(o, w) /\ w.body = o.body /\ w.bodyLen = o.bodyLen /\ w.buf = o.buf
  BY <1>1, ValueReported
<1> HIDE DEF w
<1>4. EndSpan(o, j, st) = e
  BY <1>1, <1>2, <1>3 DEF EndSpan, SameRun
<1>5. /\ Kin(w, e) /\ e.st = st /\ e.flags = w.flags /\ e.length = w.length /\ e.header = w.header
      /\ e.buf = w.buf
  BY <1>3 DEF IsParser, Fields, Kin
<1> HIDE DEF e
<1>6. /\ Kin(z, e) /\ e.st = st /\ e.flags = z.flags /\ e.length = z.length /\ e.header = z.header
      /\ e.buf = z.buf
  BY <1>1, <1>3, <1>5 DEF Kin, SameRun
<1> QED
  BY <1>4, <1>6 DEF o

\* A word of Connection or Transfer-Encoding becomes a flag.
LEMMA FlaggedHead ==
  ASSUME NEW z, IsParser(z), InHead(z)
  PROVE  LET g == Flagged(z) IN
         IsParser(g) /\ InHead(g) /\ g.st = z.st /\ g.header = z.header /\ g.buf = z.buf
<1> DEFINE f == z.flags \cup {Flag[z.header]}
           d == [z EXCEPT !.flags = f]
<1>1. CASE z.header \notin DOMAIN Flag
  BY <1>1 DEF Flagged
<1>2. CASE z.header \in DOMAIN Flag
  <2>1. Flagged(z) = d
    BY <1>2 DEF Flagged
  <2>2. z.header \in KeepAlive .. Chunked
    BY <1>2 DEF Flag
  <2>3. z.header \in {KeepAlive, Closing, Switching, Chunked}
    BY <2>2 DEF KeepAlive, Closing, Switching, Chunked
  <2>4. /\ Flag[z.header] \in {"keep-alive", "close", "switch", "chunked"}
        /\ Flag[z.header] = "chunked" => z.header = Chunked
    <3>1. Flag[KeepAlive] = "keep-alive" /\ Flag[Closing] = "close"
          /\ Flag[Switching] = "switch" /\ Flag[Chunked] = "chunked"
      BY DEF Flag, KeepAlive, Closing, Switching, Chunked
    <3> QED
      BY <2>3, <3>1
  <2> DEFINE x == Flag[z.header]
  <2> HIDE DEF x, f
  <2>5. /\ IsParser(d) /\ d.flags = f /\ d.st = z.st /\ d.header = z.header /\ d.length = z.length
        /\ Kin(z, d) /\ d.buf = z.buf
    BY DEF IsParser, Fields, Kin
  <2> HIDE DEF d
  <2>6. f = z.flags \cup {x} /\ x \in {"keep-alive", "close", "switch", "chunked"}
        /\ (x = "chunked" => z.header = Chunked)
    BY <2>4 DEF f, x
  <2>7. ("trailing" \in f <=> "trailing" \in z.flags) /\ (Plain(z) => Plain(d))
    BY <2>5, <2>6 DEF Plain, Kin
  <2>8. InHead(d)
    BY <2>5, <2>7 DEF InHead, Kin
  <2> QED
    BY <2>1, <2>5, <2>8
<1> QED
  BY <1>1, <1>2

\* A header of a name or a word that is not "chunked" is one.
LEMMA HeaderHead ==
  ASSUME NEW z, IsParser(z), InHead(z), NEW h, h = Chunked => "transfer" \in z.flags \/ z.st = "encoding"
  PROVE  LET d == [z EXCEPT !.header = h] IN
         IsParser(d) /\ InHead(d) /\ d.st = z.st
<1> DEFINE d == [z EXCEPT !.header = h]
<1>1. IsParser(d) /\ Kin(z, d) /\ d.flags = z.flags /\ d.st = z.st /\ d.length = z.length /\ d.header = h
  BY DEF IsParser, Fields, Kin
<1> HIDE DEF d
<1>2. InHead(d)
  BY <1>1 DEF InHead, Kin, Plain
<1> QED
  BY <1>1, <1>2 DEF d

\* A word of a value.
LEMMA WordTold ==
  ASSUME NEW j \in Nat, NEW z, Sound(z, j + 1), InHead(z), z.st \in InValue, z.buf[j].v \in Nat
  PROVE  Told(Word(z, j), j + 1)
<1>0. IsParser(z) /\ z.st # "error" /\ z.span = "value" /\ j + 1 \in Nat \ {0}
  BY DEF Sound, Live, InValue
<1>1. CASE z.st = "length"
  <2> DEFINE v == z.buf[j].v
             e == EndSpan(z, j + 1, "error")
             l == z.length * 10 + v
             d == [z EXCEPT !.length = l]
  <2>1. Word(z, j) \in {Fail(e, "HPE_INVALID_CONTENT_LENGTH"), d}
    BY <1>1 DEF Word, Digit
  <2>2. Told(d, j + 1)
    <3>1. z.length \in Nat => l \in Nat
      OBVIOUS
    <3> HIDE DEF l
    <3>2. Kin(z, d) /\ d.flags = z.flags /\ d.header = z.header /\ d.st = "length" /\ d.length = l
      BY <1>0, <1>1 DEF IsParser, Fields, Kin
    <3> HIDE DEF d
    <3>3. InHead(d)
      BY <1>1, <3>1, <3>2 DEF InHead, Kin, Plain
    <3> QED
      BY <3>2, <3>3, HeadTold DEF Heading, InValue
  <2>3. Told(Fail(e, "HPE_INVALID_CONTENT_LENGTH"), j + 1)
    <3>1. IsParser(e)
      BY <1>0, EndIdle DEF Idle
    <3> QED
      BY <3>1, FailTold
  <2> QED
    BY <2>1, <2>2, <2>3
<1>2. CASE z.st = "connection"
  <2> DEFINE h == IF z.buf[j].v \in {KeepAlive, Closing, Switching} THEN z.buf[j].v ELSE Connection
             g == Flagged(z)
             d == [g EXCEPT !.header = h]
  <2>1. Word(z, j) = d
    BY <1>2 DEF Word, ConnectionWord
  <2>2. h # Chunked
    BY DEF KeepAlive, Closing, Switching, Connection, Chunked
  <2>3. IsParser(g) /\ InHead(g) /\ g.st = z.st
    BY <1>0, FlaggedHead
  <2> HIDE DEF g, h
  <2>4. InHead(d) /\ d.st = z.st
    BY <2>2, <2>3, HeaderHead
  <2> HIDE DEF d
  <2> QED
    BY <1>2, <2>1, <2>4, HeadTold DEF Heading, InValue
<1>3. CASE z.st = "encoding"
  <2> DEFINE h == IF z.buf[j].v = Chunked THEN Chunked ELSE General
             d == [z EXCEPT !.header = h]
  <2>1. Word(z, j) = d
    BY <1>3 DEF Word, EncodingWord
  <2> HIDE DEF h
  <2>2. InHead(d) /\ d.st = z.st
    BY <1>0, <1>3, HeaderHead
  <2> HIDE DEF d
  <2> QED
    BY <1>3, <2>1, <2>2, HeadTold DEF Heading, InValue
<1>4. CASE z.st = "value"
  BY <1>4, HeadTold DEF Word, Heading, InValue
<1> QED
  BY <1>1, <1>2, <1>3, <1>4 DEF InValue

\* The ways in which a line of a value begins.
LEMMA ValueStartIs ==
  ASSUME NEW j, NEW z, IsParser(z)
  PROVE  LET o  == Open(z, "value", j)
             f1 == (z.flags \ {"chunked"}) \cup {"transfer"}
             f2 == z.flags \cup {"upgrade"}
         IN  ValueStart(z, j)
               \in {Fail(o, "HPE_UNEXPECTED_CONTENT_LENGTH"), Word(Goto(o, "length"), j),
                    Word(Goto(o, "connection"), j), Word([Goto(o, "encoding") EXCEPT !.flags = f1], j),
                    [Goto(o, "value") EXCEPT !.flags = f2, !.header = General], Goto(o, "value")}
<1> DEFINE o  == Open(z, "value", j)
           f1 == (z.flags \ {"chunked"}) \cup {"transfer"}
           f2 == z.flags \cup {"upgrade"}
           v1 == Fail(o, "HPE_UNEXPECTED_CONTENT_LENGTH")
           v2 == Word(Goto(o, "length"), j)
           v3 == Word(Goto(o, "connection"), j)
           v4 == Word([Goto(o, "encoding") EXCEPT !.flags = f1], j)
           v5 == [Goto(o, "value") EXCEPT !.flags = f2, !.header = General]
           v6 == Goto(o, "value")
<1>1. Goto(o, "encoding").flags = z.flags /\ Goto(o, "value").flags = z.flags
  BY DEF Open, Goto, IsParser, Fields
<1>2. /\ v4 = Word([Goto(o, "encoding") EXCEPT !.flags = (@ \ {"chunked"}) \cup {"transfer"}], j)
      /\ v5 = [Goto(o, "value") EXCEPT !.flags = @ \cup {"upgrade"}, !.header = General]
  <2> HIDE DEF o
  <2> QED
    BY <1>1
<1>3. ValueStart(z, j) =
         CASE z.header = Length /\ "length" \in z.flags -> v1
           [] z.header = Length /\ "length" \notin z.flags -> v2
           [] z.header = Connection -> v3
           [] z.header = Encoding ->
                Word([Goto(o, "encoding") EXCEPT !.flags = (@ \ {"chunked"}) \cup {"transfer"}], j)
           [] z.header = Upgrade ->
                [Goto(o, "value") EXCEPT !.flags = @ \cup {"upgrade"}, !.header = General]
           [] OTHER -> v6
  BY Zenon DEF ValueStart
<1> HIDE DEF v1, v2, v3, v4, v5, v6
<1>4. ValueStart(z, j) =
         CASE z.header = Length /\ "length" \in z.flags -> v1
           [] z.header = Length /\ "length" \notin z.flags -> v2
           [] z.header = Connection -> v3
           [] z.header = Encoding -> v4
           [] z.header = Upgrade -> v5
           [] OTHER -> v6
  BY <1>2, <1>3, Zenon
<1>5. ValueStart(z, j) \in {v1, v2, v3, v4, v5, v6}
  BY <1>4
<1> QED
  BY <1>5 DEF v1, v2, v3, v4, v5, v6

\* The first token of a line of a value.
LEMMA ValueStartTold ==
  ASSUME NEW j \in 1 .. RespSize, NEW z, Idle(z, j), z.field.at # 0, InHead(z),
         z.st \in {"discard_ws", "discard_lws", "lws"}, z.buf[j].v \in Nat
  PROVE  Told(ValueStart(z, j), j + 1)
<1> DEFINE o == Open(z, "value", j)
           f1 == (z.flags \ {"chunked"}) \cup {"transfer"}
           f2 == z.flags \cup {"upgrade"}
           p(st, flags, header) == [[o EXCEPT !.st = st, !.flags = flags] EXCEPT !.header = header]
<1>1. j \in Nat /\ IsParser(z) /\ z.err = "HPE_OK"
  BY ResponseAssumption DEF Idle
<1>2. ASSUME NEW st \in InValue, NEW flags, NEW header
      PROVE  LET t == p(st, flags, header) IN
             /\ Sound(t, j + 1) /\ t.st = st /\ t.flags = flags /\ t.header = header
             /\ t.buf[j].v \in Nat /\ Kin(z, t) /\ t.length = z.length
  <2> DEFINE t == p(st, flags, header)
  <2>1. /\ IsParser(t) /\ ~t.failed /\ t.find = z.find /\ t.state = z.state /\ t.err = "HPE_OK"
        /\ t.cur = z.cur /\ t.hdr = z.hdr /\ t.field = z.field /\ t.value = z.value
        /\ t.body = z.body /\ t.bodyLen = z.bodyLen /\ t.from = j /\ t.span = "value" /\ t.st = st
        /\ t.flags = flags /\ t.header = header /\ t.buf = z.buf /\ t.length = z.length
        /\ t.begun = z.begun /\ t.contentLength = z.contentLength
    BY <1>1 DEF Open, IsParser, Fields, Idle
  <2> HIDE DEF t
  <2>2. Sound(t, j + 1)
    BY <2>1, OpenSound
  <2> QED
    BY <2>1, <2>2 DEF Kin, t
<1> HIDE DEF p
<1>3. ASSUME NEW st \in InValue, NEW flags, NEW header,
             \A k \in {"trailing", "skipbody", "length"} : k \in flags <=> k \in z.flags,
             "transfer" \in z.flags \/ st = "encoding" => "transfer" \in flags,
             "chunked" \in flags => "chunked" \in z.flags, header \in {z.header, General}
      PROVE  LET t == p(st, flags, header) IN
             Told(t, j + 1) /\ Told(Word(t, j), j + 1)
  <2> DEFINE t == p(st, flags, header)
  <2>1. /\ Sound(t, j + 1) /\ t.st = st /\ t.flags = flags /\ t.header = header
        /\ t.buf[j].v \in Nat /\ Kin(z, t) /\ t.length = z.length
    BY <1>2
  <2> HIDE DEF t
  <2>2. Plain(z) => Plain(t)
    BY <1>3, <2>1 DEF Plain, Kin, General, Chunked
  <2>3. "trailing" \in flags <=> "trailing" \in z.flags
    BY <1>3
  <2>4. InHead(t)
    BY <2>1, <2>2, <2>3 DEF InHead, Kin
  <2>5. t.st \in Heading
    BY <2>1 DEF Heading
  <2> QED
    BY <1>1, <2>1, <2>4, <2>5, HeadTold, WordTold DEF t
<1>4. ASSUME NEW st \in InValue
      PROVE  /\ st # "encoding" => Told(Goto(o, st), j + 1) /\ Told(Word(Goto(o, st), j), j + 1)
             /\ st = "encoding" => Told(Word([Goto(o, st) EXCEPT !.flags = f1], j), j + 1)
             /\ st # "encoding" => Told([Goto(o, st) EXCEPT !.flags = f2, !.header = General], j + 1)
  <2>1. IsParser(o) /\ o.flags = z.flags /\ o.header = z.header
    BY <1>1 DEF Open, IsParser, Fields
  <2> HIDE DEF o
  <2>2. p(st, z.flags, z.header) = Goto(o, st)
    BY <2>1 DEF p, Goto, IsParser, Fields
  <2>3. p(st, f1, z.header) = [Goto(o, st) EXCEPT !.flags = f1]
    BY <2>1 DEF p, Goto, IsParser, Fields
  <2>4. p(st, f2, General) = [Goto(o, st) EXCEPT !.flags = f2, !.header = General]
    BY <2>1 DEF p, Goto, IsParser, Fields
  <2>5. st # "encoding" => /\ Told(p(st, z.flags, z.header), j + 1)
                           /\ Told(Word(p(st, z.flags, z.header), j), j + 1)
    BY <1>3
  <2>6. Told(Word(p(st, f1, z.header), j), j + 1)
    BY <1>3
  <2>7. st # "encoding" => Told(p(st, f2, General), j + 1)
    BY <1>3
  <2> HIDE DEF f1, f2
  <2> QED
    BY <2>2, <2>3, <2>4, <2>5, <2>6, <2>7
<1> DEFINE v1 == Fail(o, "HPE_UNEXPECTED_CONTENT_LENGTH")
           v2 == Word(Goto(o, "length"), j)
           v3 == Word(Goto(o, "connection"), j)
           v4 == Word([Goto(o, "encoding") EXCEPT !.flags = f1], j)
           v5 == [Goto(o, "value") EXCEPT !.flags = f2, !.header = General]
           v6 == Goto(o, "value")
<1>5. ValueStart(z, j) \in {v1, v2, v3, v4, v5, v6}
  BY <1>1, ValueStartIs, Zenon
<1>6. Told(v1, j + 1)
  <2>1. IsParser(o)
    BY <1>1 DEF Open, IsParser, Fields
  <2> HIDE DEF o
  <2> QED
    BY <2>1, FailTold
<1> HIDE DEF o, f1, f2
<1> QED
  BY <1>4, <1>5, <1>6 DEF InValue

\* What the end of the headers sets and what it leaves alone.
LEMMA HeadedFields ==
  ASSUME NEW z, IsParser(z), NEW x, NEW h, NEW length, NEW flags, NEW more
  PROVE  LET c == Headed(z, x, h, length, flags, more) IN
         /\ IsParser(c) /\ c.failed = x /\ c.find = z.find /\ c.begun = z.begun /\ c.state = z.state
         /\ c.head = z.head /\ c.body = z.body /\ c.bodyLen = z.bodyLen /\ c.length = z.length
         /\ c.flags = more /\ c.contentLength = length
<1> DEFINE a == [[z EXCEPT !.failed = x] EXCEPT !.hdrLen = h]
           b == [[a EXCEPT !.contentLength = length] EXCEPT !.respFlags = @ \cup flags]
           c == [b EXCEPT !.flags = more]
<1>1. Headed(z, x, h, length, flags, more) = c
  BY DEF Headed
<1>2. /\ IsParser(a) /\ a.failed = x /\ a.find = z.find /\ a.begun = z.begun /\ a.state = z.state
      /\ a.head = z.head /\ a.body = z.body /\ a.bodyLen = z.bodyLen /\ a.length = z.length
  BY DEF IsParser, Fields
<1> HIDE DEF a
<1>3. /\ IsParser(b) /\ b.failed = a.failed /\ b.find = a.find /\ b.begun = a.begun /\ b.state = a.state
      /\ b.head = a.head /\ b.body = a.body /\ b.bodyLen = a.bodyLen /\ b.length = a.length
      /\ b.contentLength = length
  BY <1>2 DEF IsParser, Fields
<1> HIDE DEF b
<1>4. /\ IsParser(c) /\ c.failed = b.failed /\ c.find = b.find /\ c.begun = b.begun /\ c.state = b.state
      /\ c.head = b.head /\ c.body = b.body /\ c.bodyLen = b.bodyLen /\ c.length = b.length
      /\ c.flags = more /\ c.contentLength = b.contentLength
  BY <1>3 DEF IsParser, Fields
<1> HIDE DEF c
<1> QED
  BY <1>1, <1>2, <1>3, <1>4

\* A message that is complete: what was announced of its body is there.
LEMMA CompleteTold ==
  ASSUME NEW j, NEW z, IsParser(z), z.find = NoSearch, z.begun \in Nat \ {0},
         z.begun = 1 => /\ z.body = 0 => z.bodyLen = 0
                        /\ z.head \/ z.contentLength = 0 \/ z.bodyLen % Sizes = z.contentLength
  PROVE  /\ Told(MessageComplete(z), j)
         /\ Told(PauseUpgrade(z), j)
         /\ Told(BodyComplete(z), j)
<1> DEFINE e == OnMessageComplete(z)
           m == [e EXCEPT !.st = IF ShouldKeepAlive(z) THEN "start" ELSE "closed", !.flags = {}]
<1>1. MessageComplete(z) = m /\ PauseUpgrade(z) = Fail(e, "HPE_PAUSED_UPGRADE")
  BY NotSearching DEF MessageComplete, PauseUpgrade, MessageEnd
<1>2. IsParser(e) /\ e.state = "complete" /\ e.head = z.head
  BY DEF OnMessageComplete, IsParser, Fields, Kin
<1>3. /\ e.begun = z.begun /\ e.body = z.body /\ e.bodyLen = z.bodyLen
      /\ e.contentLength = z.contentLength
  BY DEF OnMessageComplete, IsParser, Fields
<1> HIDE DEF e
<1>4. /\ m.st \in {"start", "closed"} /\ m.state = "complete" /\ m.head = z.head
      /\ m.begun = z.begun /\ m.body = z.body /\ m.bodyLen = z.bodyLen
      /\ m.contentLength = z.contentLength
  BY <1>2, <1>3 DEF IsParser, Fields
<1> HIDE DEF m
<1>5. Told(m, j)
  BY <1>4 DEF Told, Counted, Heading, InValue, Chunking
<1>6. Told(Fail(e, "HPE_PAUSED_UPGRADE"), j)
  BY <1>2, FailTold
<1> QED
  BY <1>1, <1>5, <1>6 DEF BodyComplete

\* What the callback for the end of the headers leaves.
LEMMA HeadersGive ==
  ASSUME NEW j \in 1 .. RespSize, NEW z, Idle(z, j)
  PROVE  LET w == HeadersComplete(BeforeHeaders(z)) IN
         /\ IsParser(w) /\ w.find = NoSearch /\ w.begun = z.begun /\ w.state = z.state /\ w.head = z.head
         /\ w.body = z.body /\ w.bodyLen = z.bodyLen /\ w.length = z.length
         /\ w.flags = (IF z.head THEN z.flags \cup {"skipbody"} ELSE z.flags)
         /\ w.contentLength = (IF z.length = MaxLength THEN 0 ELSE z.length % Sizes)
<1> DEFINE b == BeforeHeaders(z)
           x == b.failed \/ ~(b.cur \in 1 .. RespSize /\ (b.hdr # 0 => b.hdr < b.cur))
           h == IF b.hdr = 0 THEN 0 ELSE b.cur - b.hdr
           length == IF b.length = MaxLength THEN 0 ELSE b.length % Sizes
           flags == b.flags \cap {"close", "keep-alive"}
           more == IF b.head THEN b.flags \cup {"skipbody"} ELSE b.flags
           c == Headed(b, x, h, length, flags, more)
           w == ProcessCompleteHeader(c)
<1>1. /\ IsParser(b) /\ b.find = NoSearch /\ b.begun = z.begun /\ b.state = z.state /\ b.head = z.head
      /\ b.body = z.body /\ b.bodyLen = z.bodyLen /\ b.length = z.length /\ b.flags = z.flags
      /\ b.cur = z.cur /\ b.hdr = z.hdr /\ b.failed = z.failed
  BY DEF BeforeHeaders, IsParser, Fields, Idle
<1> HIDE DEF b
<1>2. HeadersComplete(b) = w
  BY <1>1, NotSearching, HeadersCompleteIs
<1>3. ~x
  BY <1>1, ResponseAssumption DEF Idle
<1> HIDE DEF x, h, length, flags, more
<1>4. /\ IsParser(c) /\ ~c.failed /\ c.find = b.find /\ c.begun = b.begun /\ c.state = b.state
      /\ c.head = b.head /\ c.body = b.body /\ c.bodyLen = b.bodyLen /\ c.length = b.length
      /\ c.flags = more /\ c.contentLength = length
  BY <1>1, <1>3, HeadedFields
<1> HIDE DEF c
<1>5. IsParser(w) /\ SameRun(c, w) /\ w.body = c.body /\ w.bodyLen = c.bodyLen
  BY <1>4, Processed
<1> HIDE DEF w
<1> QED
  BY <1>1, <1>2, <1>4, <1>5 DEF SameRun, more, length, b

\* The ways in which it goes on behind the headers.
LEMMA AfterHeadersIs ==
  ASSUME NEW w
  PROVE  \/ AfterHeaders(w) = PauseUpgrade(w)
         \/ "skipbody" \in w.flags /\ AfterHeaders(w) = MessageComplete(w)
         \/ /\ "skipbody" \notin w.flags /\ "chunked" \in w.flags
            /\ AfterHeaders(w) = [w EXCEPT !.st = "size", !.length = 0]
         \/ /\ w.flags \cap {"skipbody", "chunked"} = {} /\ "transfer" \in w.flags
            /\ AfterHeaders(w) = Goto(w, "eof")
         \/ /\ "length" \in w.flags /\ w.length = 0 /\ AfterHeaders(w) = MessageComplete(w)
         \/ /\ "length" \in w.flags /\ w.length # 0 /\ AfterHeaders(w) = Goto(w, "identity")
         \/ /\ w.flags \cap {"skipbody", "chunked", "transfer", "length"} = {}
            /\ AfterHeaders(w) \in {Goto(w, "eof"), MessageComplete(w)}
<1> DEFINE m == MessageComplete(w)
           u == PauseUpgrade(w)
           z == [w EXCEPT !.st = "size", !.length = 0]
           f == Goto(w, "eof")
           i == Goto(w, "identity")
           hasBody == "chunked" \in w.flags \/ w.length > 0
           eof == NeedsEof(w)
           a == AfterHeaders(w)
<1>1. a = IF w.upgrade /\ ("skipbody" \in w.flags \/ ~hasBody) THEN u
          ELSE CASE "skipbody" \in w.flags -> m
                 [] "skipbody" \notin w.flags /\ "chunked" \in w.flags -> z
                 [] w.flags \cap {"skipbody", "chunked"} = {} /\ "transfer" \in w.flags -> f
                 [] w.flags \cap {"skipbody", "chunked", "transfer"} = {} ->
                      IF "length" \in w.flags THEN IF w.length = 0 THEN m ELSE i
                      ELSE IF eof THEN f ELSE m
  BY DEF AfterHeaders
<1> HIDE DEF a, m, u, z, f, i, hasBody, eof
<1>2. CASE "skipbody" \in w.flags
  <2>1. a \in {u, m}
    BY <1>1, <1>2
  <2> QED
    BY <1>2, <2>1 DEF a, m, u
<1>3. CASE "skipbody" \notin w.flags /\ "chunked" \in w.flags
  <2>1. a \in {u, z}
    BY <1>1, <1>3
  <2> QED
    BY <1>3, <2>1 DEF a, u, z
<1>4. CASE w.flags \cap {"skipbody", "chunked"} = {} /\ "transfer" \in w.flags
  <2>1. a \in {u, f}
    BY <1>1, <1>4
  <2> QED
    BY <1>4, <2>1 DEF a, u, f
<1>5. CASE w.flags \cap {"skipbody", "chunked", "transfer"} = {}
  <2>1. \/ a = u
        \/ "length" \in w.flags /\ w.length = 0 /\ a = m
        \/ "length" \in w.flags /\ w.length # 0 /\ a = i
        \/ "length" \notin w.flags /\ a \in {f, m}
    BY <1>1, <1>5
  <2>2. "length" \notin w.flags => w.flags \cap {"skipbody", "chunked", "transfer", "length"} = {}
    BY <1>5
  <2> QED
    BY <2>1, <2>2 DEF a, u, m, f, i
<1> QED
  BY <1>2, <1>3, <1>4, <1>5

\* The empty line behind the headers: the body that is expected is the one that
\* was announced.
LEMMA AfterHeadersTold ==
  ASSUME NEW j \in 1 .. RespSize, NEW z, Idle(z, j), InHead(z), z.st # "length",
         "trailing" \notin z.flags, ~({"transfer", "length"} \subseteq z.flags)
  PROVE  Told(AfterHeaders(HeadersComplete(BeforeHeaders(z))), j + 1)
<1> DEFINE w == HeadersComplete(BeforeHeaders(z))
           a == AfterHeaders(w)
           d == [w EXCEPT !.st = "size", !.length = 0]
           f == Goto(w, "eof")
           i == Goto(w, "identity")
<1>1. /\ IsParser(w) /\ w.find = NoSearch /\ w.begun = z.begun /\ w.state = z.state /\ w.head = z.head
      /\ w.body = z.body /\ w.bodyLen = z.bodyLen /\ w.length = z.length
      /\ w.flags = (IF z.head THEN z.flags \cup {"skipbody"} ELSE z.flags)
      /\ w.contentLength = (IF z.length = MaxLength THEN 0 ELSE z.length % Sizes)
  BY HeadersGive
<1>2. /\ w.begun \in Nat \ {0} /\ w.state = "incomplete"
      /\ w.begun = 1 => /\ Plain(z) /\ w.bodyLen = 0 /\ w.body = 0
                        /\ w.length # 0 => "length" \in w.flags
                        /\ "skipbody" \in w.flags => w.head
                        /\ "chunked" \in w.flags => "transfer" \in w.flags
                        /\ "transfer" \in w.flags => w.length = 0
  BY <1>1 DEF InHead, Plain
<1>3. w.begun = 1 => /\ w.length \in Nat
                     /\ w.length = 0 => w.contentLength = 0
                     /\ w.contentLength # 0 => w.contentLength = w.length % Sizes
  <2>1. 0 % Sizes = 0
    BY ResponseAssumption
  <2> HIDE DEF w
  <2> QED
    BY <1>1, <1>2, <2>1 DEF Plain
<1> HIDE DEF w
<1>4. ASSUME w.begun = 1 => w.head \/ w.length = 0 PROVE Told(MessageComplete(w), j + 1)
  <2>1. w.begun = 1 => /\ w.body = 0 => w.bodyLen = 0
                       /\ w.head \/ w.contentLength = 0 \/ w.bodyLen % Sizes = w.contentLength
    BY <1>2, <1>3, <1>4
  <2> QED
    BY <1>1, <1>2, <2>1, CompleteTold
<1>5. Told(PauseUpgrade(w), j + 1)
  <2>1. PauseUpgrade(w) = Fail(OnMessageComplete(w), "HPE_PAUSED_UPGRADE")
    BY <1>1, NotSearching DEF PauseUpgrade, MessageEnd
  <2>2. IsParser(OnMessageComplete(w))
    BY <1>1 DEF OnMessageComplete, IsParser, Fields
  <2> QED
    BY <2>1, <2>2, FailTold
<1>6. ASSUME w.begun = 1 => w.length = 0 PROVE Told(d, j + 1) /\ Told(f, j + 1)
  <2>1. ASSUME NEW x, x.st \in {"size", "eof"}, Kin(w, x) PROVE Told(x, j + 1)
    BY <1>2, <1>3, <1>6, <2>1 DEF Told, Counted, Kin, Heading, InValue, Chunking
  <2>2. d.st = "size" /\ Kin(w, d)
    BY <1>1 DEF IsParser, Fields, Kin
  <2>3. f.st = "eof" /\ Kin(w, f)
    BY <1>1 DEF Goto, IsParser, Fields, Kin
  <2> HIDE DEF d, f
  <2> QED
    BY <2>1, <2>2, <2>3
<1>7. ASSUME w.length # 0, w.span = "none" PROVE Told(i, j + 1)
  <2>1. i.st = "identity" /\ Kin(w, i) /\ i.span = w.span /\ i.length = w.length
    BY <1>1 DEF Goto, IsParser, Fields, Kin
  <2> HIDE DEF i
  <2>2. w.begun = 1 => Sofar(i, j + 1) = 0
    BY <1>2, <1>7, <2>1 DEF Sofar, Kin
  <2>3. w.begun = 1 => w.length \in Nat \ {0} /\ Sofar(i, j + 1) + i.length = w.length
    BY <1>3, <1>7, <2>1, <2>2
  <2>4. i.begun = 1 => /\ i.length \in Nat \ {0}
                       /\ i.contentLength # 0 => (Sofar(i, j + 1) + i.length) % Sizes = i.contentLength
    BY <1>3, <2>1, <2>3 DEF Kin
  <2>5. i.begun \in Nat \ {0} /\ i.state = "incomplete" /\ (i.begun = 1 => (i.body = 0 => i.bodyLen = 0))
    BY <1>2, <2>1 DEF Kin
  <2>6. i.st \notin Heading \cup Chunking \cup {"start", "closed"}
    BY <2>1 DEF Heading, InValue, Chunking
  <2> HIDE DEF Sofar
  <2> QED
    BY <2>1, <2>4, <2>5, <2>6, Zenon DEF Told, Counted
<1>8. w.span = "none"
  <2>1. Idle(BeforeHeaders(z), j)
    BY DEF BeforeHeaders, Idle, IsParser, Fields
  <2> QED
    BY <2>1, HeadersCompleteIdle DEF Idle, w
<1> DEFINE m == MessageComplete(w)
           u == PauseUpgrade(w)
<1>9. \/ a = u
      \/ "skipbody" \in w.flags /\ a = m
      \/ "skipbody" \notin w.flags /\ "chunked" \in w.flags /\ a = d
      \/ w.flags \cap {"skipbody", "chunked"} = {} /\ "transfer" \in w.flags /\ a = f
      \/ "length" \in w.flags /\ w.length = 0 /\ a = m
      \/ "length" \in w.flags /\ w.length # 0 /\ a = i
      \/ w.flags \cap {"skipbody", "chunked", "transfer", "length"} = {} /\ a \in {f, m}
  BY AfterHeadersIs, Zenon
<1> HIDE DEF a, m, u, d, f, i
<1>10. Told(a, j + 1)
  <2>1. CASE a = u
    BY <1>5, <2>1 DEF u
  <2>2. CASE a = m /\ ("skipbody" \in w.flags \/ w.length = 0)
    BY <1>2, <1>4, <2>2 DEF m
  <2>3. CASE a \in {d, f} /\ ("chunked" \in w.flags \/ "transfer" \in w.flags)
    BY <1>2, <1>6, <2>3
  <2>4. CASE a = i /\ w.length # 0
    BY <1>7, <1>8, <2>4
  <2>5. CASE w.flags \cap {"skipbody", "chunked", "transfer", "length"} = {} /\ a \in {f, m}
    <3>1. w.begun = 1 => w.length = 0
      BY <1>2, <2>5
    <3> QED
      BY <1>4, <1>6, <2>5, <3>1 DEF m
  <2> QED
    BY <1>9, <2>1, <2>2, <2>3, <2>4, <2>5
<1> QED
  BY <1>10 DEF a, w

LEMMA HeadersDoneTold ==
  ASSUME NEW j \in 1 .. RespSize, NEW z, Idle(z, j), InHead(z), z.st # "length"
  PROVE  Told(HeadersDone(z), j + 1)
<1>1. CASE "trailing" \in z.flags
  <2>1. HeadersDone(z) = BodyComplete(z)
    BY <1>1 DEF HeadersDone
  <2>2. /\ z.begun \in Nat \ {0} /\ IsParser(z) /\ z.find = NoSearch
        /\ z.begun = 1 => /\ z.body = 0 => z.bodyLen = 0
                          /\ z.head \/ z.contentLength = 0 \/ z.bodyLen % Sizes = z.contentLength
    BY <1>1 DEF InHead, Idle
  <2> QED
    BY <2>1, <2>2, CompleteTold
<1>2. CASE "trailing" \notin z.flags /\ {"transfer", "length"} \subseteq z.flags
  BY <1>2, FailTold DEF HeadersDone, Idle
<1>3. CASE "trailing" \notin z.flags /\ ~({"transfer", "length"} \subseteq z.flags)
  BY <1>3, AfterHeadersTold DEF HeadersDone
<1> QED
  BY <1>1, <1>2, <1>3

\* Where a header may begin, or the headers end.
LEMMA FieldStartTold ==
  ASSUME NEW j \in 1 .. RespSize, NEW z, Idle(z, j), InHead(z), z.st # "length", z.buf[j] \in Token
  PROVE  Told(FieldStart(z, j), j + 1)
<1>1. CASE z.buf[j].k = "nl"
  BY <1>1, HeadersDoneTold DEF FieldStart
<1>2. CASE z.buf[j].k = "field"
  <2> DEFINE h == z.buf[j].v
             o == Goto(Open(z, "field", j), "field")
             w == [o EXCEPT !.header = h]
  <2>1. FieldStart(z, j) = w
    BY <1>2 DEF FieldStart
  <2>2. h # Chunked
    BY <1>2 DEF Token, General, Upgrade, Chunked
  <2>3. /\ IsParser(o) /\ o.st = "field" /\ Kin(z, o) /\ o.flags = z.flags /\ o.length = z.length
        /\ o.header = z.header
    BY DEF Idle, Goto, Open, IsParser, Fields, Kin
  <2> HIDE DEF o, h
  <2>4. InHead(o)
    BY <2>3, HeadKin
  <2>5. InHead(w) /\ w.st = "field"
    BY <2>2, <2>3, <2>4, HeaderHead
  <2> HIDE DEF w
  <2> QED
    BY <2>1, <2>5, HeadTold DEF Heading
<1>3. CASE z.buf[j].k \notin {"nl", "field"}
  <2>1. FieldStart(z, j) = Fail(z, "HPE_INVALID_HEADER_TOKEN")
    BY <1>3 DEF FieldStart
  <2> QED
    BY <2>1, FailTold DEF Idle
<1> QED
  BY <1>1, <1>2, <1>3

\* The states of the head, one by one.
LEMMA FieldNameTold ==
  ASSUME NEW j \in 1 .. RespSize, NEW z, Sound(z, j), z.st = "field", InHead(z), NEW t
  PROVE  Told(FieldName(z, j, t), j + 1)
<1> DEFINE e == EndSpan(z, j, "discard_ws")
<1>1. j \in Nat \ {0} /\ z.span = "field" /\ IsParser(z)
  BY ResponseAssumption DEF Sound, Live
<1>2. Told(z, j + 1)
  BY HeadTold DEF Heading
<1>3. Told(e, j + 1)
  <2>1. e.st = "discard_ws" /\ e.flags = z.flags /\ e.length = z.length /\ e.header = z.header /\ Kin(z, e)
    BY <1>1, EndBody
  <2> HIDE DEF e
  <2> QED
    BY <2>1, HeadKin, HeadTold DEF Heading
<1>4. Told(Fail(z, "HPE_INVALID_HEADER_TOKEN"), j + 1)
  BY <1>1, FailTold
<1>5. FieldName(z, j, t) \in {z, e, Fail(z, "HPE_INVALID_HEADER_TOKEN")}
  BY DEF FieldName
<1> QED
  BY <1>2, <1>3, <1>4, <1>5

LEMMA BadValueTold ==
  ASSUME NEW j, NEW z, IsParser(z), IsParser(EndSpan(z, j, "error"))
  PROVE  Told(BadValue(z, j), j + 1)
BY FailTold DEF BadValue

LEMMA DiscardWsTold ==
  ASSUME NEW j \in 1 .. RespSize, NEW z, Idle(z, j), z.field.at # 0, z.st = "discard_ws", InHead(z),
         z.buf[j] \in Token
  PROVE  Told(DiscardWs(z, j, z.buf[j]), j + 1)
<1> DEFINE o == Open(z, "value", j)
           g == Goto(z, "discard_lws")
<1>1. Told(g, j + 1)
  <2>1. Kin(z, g) /\ g.flags = z.flags /\ g.length = z.length /\ g.header = z.header /\ g.st = "discard_lws"
    BY DEF Goto, Idle, IsParser, Fields, Kin
  <2> HIDE DEF g
  <2> QED
    BY <2>1, HeadKin, HeadTold DEF Heading
<1>2. Told(BadValue(o, j), j + 1)
  <2>1. IsParser(o)
    BY DEF Open, Idle, IsParser, Fields
  <2>2. Idle(EndSpan(o, j, "error"), j)
    BY EmptyValue
  <2>3. IsParser(EndSpan(o, j, "error"))
    BY <2>2, Zenon DEF Idle
  <2> QED
    BY <2>1, <2>3, BadValueTold
<1>3. z.buf[j].v \in Nat
  BY DEF Token
<1>4. DiscardWs(z, j, z.buf[j]) \in {g, ValueStart(z, j), BadValue(o, j)}
  BY DEF DiscardWs
<1> QED
  BY <1>1, <1>2, <1>3, <1>4, ValueStartTold

LEMMA DiscardLwsTold ==
  ASSUME NEW j \in 1 .. RespSize, NEW z, Idle(z, j), z.field.at # 0, z.st = "discard_lws", InHead(z),
         z.buf[j] \in Token
  PROVE  Told(DiscardLws(z, j, z.buf[j]), j + 1)
<1> DEFINE o == Open(z, "value", j)
           e == EndSpan(o, j, "field_start")
<1>1. Idle(e, j) /\ e.st = "field_start"
  BY EmptyValue
<1>2. Kin(z, e) /\ e.flags = z.flags /\ e.length = z.length /\ e.header = z.header /\ e.buf = z.buf
  BY EmptyKin
<1>3. DiscardLws(z, j, z.buf[j])
        \in {ValueStart(z, j), Fail(z, "HPE_INVALID_CONTENT_LENGTH"), IF e.err = "HPE_OK" THEN FieldStart(e, j) ELSE e}
  BY DEF DiscardLws
<1> HIDE DEF e
<1>4. InHead(e)
  BY <1>1, <1>2, HeadKin
<1>5. Told(FieldStart(e, j), j + 1) /\ e.err = "HPE_OK"
  BY <1>1, <1>2, <1>4, FieldStartTold DEF Idle
<1>6. Told(Fail(z, "HPE_INVALID_CONTENT_LENGTH"), j + 1)
  BY FailTold DEF Idle
<1>7. z.buf[j].v \in Nat
  BY DEF Token
<1> QED
  BY <1>3, <1>5, <1>6, <1>7, ValueStartTold

LEMMA ValueTextTold ==
  ASSUME NEW j \in 1 .. RespSize, NEW z, Sound(z, j), z.st \in InValue, InHead(z), z.buf[j] \in Token
  PROVE  Told(ValueText(z, j, z.buf[j]), j + 1)
<1> DEFINE f == IF z.st = "length" THEN z.flags \cup {"length"} ELSE z.flags
           a == [z EXCEPT !.flags = f]
           e == EndSpan(a, j, "lws")
<1>1. j \in Nat \ {0} /\ z.span = "value" /\ z.st # "error" /\ Sound(z, j + 1)
  BY ResponseAssumption, SoundNext DEF Sound, Live, InValue
<1>2. ValueText(z, j, z.buf[j]) \in {Word(z, j), e, BadValue(z, j)}
  <2>1. e = EndSpan([z EXCEPT !.flags = IF z.st = "length" THEN @ \cup {"length"} ELSE @], j, "lws")
    BY DEF Sound, IsParser
  <2> HIDE DEF e
  <2> QED
    BY <2>1 DEF ValueText
<1>3. f \in {z.flags, z.flags \cup {"length"}} /\ (z.st = "length" => "length" \in f)
  OBVIOUS
<1> HIDE DEF f
<1>4. /\ IsParser(a) /\ ~a.failed /\ a.find = z.find /\ a.state = z.state /\ a.err = z.err
      /\ a.st = z.st /\ a.span = z.span /\ a.from = z.from /\ a.cur = z.cur /\ a.hdr = z.hdr
      /\ a.field = z.field /\ a.value = z.value /\ a.body = z.body /\ a.bodyLen = z.bodyLen
  BY DEF IsParser, Fields, Sound
<1>5. Kin(z, a) /\ a.flags = f /\ a.length = z.length /\ a.header = z.header
  BY DEF IsParser, Fields, Sound, Kin
<1> HIDE DEF a
<1>6. Sound(a, j)
  BY <1>4, KeepSound
<1>7. e.st = "lws" /\ e.flags = a.flags /\ e.length = a.length /\ e.header = a.header /\ Kin(a, e)
  BY <1>1, <1>4, <1>6, EndBody
<1> HIDE DEF e
<1>8. e.st = "lws" /\ e.flags = f /\ e.length = z.length /\ e.header = z.header /\ Kin(z, e)
  BY <1>5, <1>7 DEF Kin
<1>9. Told(e, j + 1)
  <2>1. Plain(z) => Plain(e)
    BY <1>3, <1>8 DEF Plain, Kin
  <2>2. "trailing" \in f <=> "trailing" \in z.flags
    BY <1>3
  <2>3. InHead(e)
    BY <1>8, <2>1, <2>2 DEF InHead, Kin
  <2> QED
    BY <1>8, <2>3, HeadTold DEF Heading
<1>10. Told(Word(z, j), j + 1)
  <2>1. z.buf[j].v \in Nat /\ j \in Nat
    BY DEF Token
  <2> QED
    BY <1>1, <2>1, WordTold
<1>11. Told(BadValue(z, j), j + 1)
  <2>1. Idle(EndSpan(z, j, "error"), j)
    BY <1>1, EndIdle
  <2>2. IsParser(EndSpan(z, j, "error"))
    BY <2>1, Zenon DEF Idle
  <2>3. IsParser(z)
    BY DEF Sound
  <2> QED
    BY <2>2, <2>3, BadValueTold
<1> QED
  BY <1>2, <1>9, <1>10, <1>11

LEMMA LwsTold ==
  ASSUME NEW j \in 1 .. RespSize, NEW z, Idle(z, j), z.field.at # 0, z.st = "lws", InHead(z),
         z.buf[j] \in Token
  PROVE  Told(Lws(z, j, z.buf[j]), j + 1)
<1> DEFINE g == Flagged(z)
<1>1. Idle(g, j)
  BY FlaggedIdle
<1>2. InHead(g) /\ g.st = "lws" /\ g.buf = z.buf
  BY FlaggedHead DEF Idle
<1>3. Lws(z, j, z.buf[j]) \in {ValueStart(z, j), FieldStart(g, j)}
  BY DEF Lws
<1> HIDE DEF g
<1>4. z.buf[j].v \in Nat
  BY DEF Token
<1> QED
  BY <1>1, <1>2, <1>3, <1>4, FieldStartTold, ValueStartTold

LEMMA StartTold ==
  ASSUME NEW j \in 1 .. RespSize, NEW z, Idle(z, j), z.st = "start", Told(z, j), NEW t
  PROVE  Told(Start(z, t), j + 1)
<1> DEFINE m == OnMessageBegin(z)
           c == [m EXCEPT !.version = t.v, !.st = "code"]
<1>1. MessageBegin(z) = m
  BY NotSearching DEF MessageBegin, Idle
<1>2. Start(z, t) \in {z, c, Fail(m, "HPE_INVALID_VERSION"), Fail(m, "HPE_INVALID_CONSTANT")}
  BY <1>1 DEF Start
<1>3. Counted(z, j)
  BY DEF Told
<1>4. Told(z, j + 1)
  BY <1>3 DEF Told, Counted, Heading, InValue, Chunking
<1>5. /\ IsParser(m) /\ m.begun = z.begun + 1 /\ m.state = "incomplete" /\ m.flags = z.flags
      /\ m.length = z.length /\ m.header = z.header /\ m.body = z.body /\ m.bodyLen = z.bodyLen
      /\ m.contentLength = z.contentLength
  BY DEF OnMessageBegin, IsParser, Fields, Idle
<1> HIDE DEF m
<1>6. c.st = "code" /\ Kin(m, c) /\ c.flags = z.flags /\ c.length = z.length /\ c.header = z.header
  BY <1>5 DEF IsParser, Fields, Kin
<1> HIDE DEF c
<1>7. InHead(c)
  <2>1. CASE z.begun = 0
    <3>1. Nothing(z)
      BY <1>3, <2>1 DEF Counted
    <3>2. Plain(c)
      BY <1>5, <1>6, <3>1 DEF Plain, Nothing, Kin, General, Chunked
    <3>3. "trailing" \notin c.flags
      BY <1>6, <3>1 DEF Nothing
    <3> QED
      BY <1>5, <1>6, <2>1, <3>2, <3>3 DEF InHead, Kin, Plain
  <2>2. CASE z.begun # 0
    BY <1>3, <1>5, <1>6, <2>2 DEF InHead, Kin, Counted
  <2> QED
    BY <2>1, <2>2
<1>8. Told(c, j + 1)
  BY <1>6, <1>7, HeadTold DEF Heading
<1> QED
  BY <1>2, <1>4, <1>5, <1>8, FailTold

LEMMA StatusCodeTold ==
  ASSUME NEW j \in 1 .. RespSize, NEW z, Idle(z, j), z.st = "code", InHead(z), NEW t
  PROVE  Told(StatusCode(z, t), j + 1)
<1> DEFINE c == [z EXCEPT !.code = t.v, !.st = "status_start"]
<1>1. StatusCode(z, t) \in {c, Fail(z, "HPE_INVALID_STATUS")}
  BY DEF StatusCode
<1>2. c.st = "status_start" /\ Kin(z, c) /\ c.flags = z.flags /\ c.length = z.length /\ c.header = z.header
  BY DEF IsParser, Fields, Kin, Idle
<1> HIDE DEF c
<1>3. Told(c, j + 1)
  BY <1>2, HeadKin, HeadTold DEF Heading
<1>4. Told(Fail(z, "HPE_INVALID_STATUS"), j + 1)
  BY FailTold DEF Idle
<1> QED
  BY <1>1, <1>3, <1>4

LEMMA StatusTextTold ==
  ASSUME NEW j \in 1 .. RespSize, NEW z, Sound(z, j), z.st \in {"status_start", "status"}, InHead(z), NEW t
  PROVE  Told(StatusText(z, j, t), j + 1)
<1> DEFINE e == EndSpan(z, j, "field_start")
           g == Goto(z, "field_start")
           o == Goto(Open(z, "status", j), "status")
<1>1. j \in Nat \ {0} /\ z.st # "error" /\ IsParser(z)
  BY ResponseAssumption DEF Sound
<1>2. Told(z, j + 1)
  BY HeadTold DEF Heading
<1>3. CASE z.st = "status"
  <2>1. z.span = "status"
    BY <1>3 DEF Sound, Live
  <2>2. StatusText(z, j, t) \in {e, z}
    BY <1>3 DEF StatusText
  <2>3. e.st = "field_start" /\ Kin(z, e) /\ e.flags = z.flags /\ e.length = z.length /\ e.header = z.header
    BY <1>1, <2>1, EndBody
  <2> HIDE DEF e
  <2>4. Told(e, j + 1)
    BY <1>3, <2>3, HeadKin, HeadTold DEF Heading
  <2> QED
    BY <1>2, <2>2, <2>4
<1>4. CASE z.st = "status_start"
  <2>1. StatusText(z, j, t) \in {g, o}
    BY <1>4 DEF StatusText
  <2>2. g.st = "field_start" /\ Kin(z, g) /\ g.flags = z.flags /\ g.length = z.length /\ g.header = z.header
    BY <1>1 DEF Goto, IsParser, Fields, Kin
  <2>3. o.st = "status" /\ Kin(z, o) /\ o.flags = z.flags /\ o.length = z.length /\ o.header = z.header
    BY <1>1 DEF Goto, Open, IsParser, Fields, Kin
  <2> HIDE DEF g, o
  <2>4. Told(g, j + 1) /\ Told(o, j + 1)
    BY <1>4, <2>2, <2>3, HeadKin, HeadTold DEF Heading
  <2> QED
    BY <2>1, <2>4
<1> QED
  BY <1>3, <1>4

\* In a body of no announced length nothing is counted.
LEMMA ChunkingTold ==
  ASSUME NEW j, NEW z, z.st \in Chunking, Told(z, j)
  PROVE  /\ z.begun \in Nat \ {0} /\ z.state = "incomplete"
         /\ z.begun = 1 => (z.body = 0 => z.bodyLen = 0) /\ z.contentLength = 0
         /\ \A i, w : w.st \in Chunking /\ Kin(z, w) => Told(w, i)
<1>1. z.st \notin Heading \cup {"start", "closed", "identity", "error"}
  BY DEF Heading, Chunking, InValue
<1>2. /\ z.begun \in Nat \ {0} /\ z.state = "incomplete"
      /\ z.begun = 1 => (z.body = 0 => z.bodyLen = 0) /\ z.contentLength = 0
  BY <1>1 DEF Told, Counted, Nothing
<1>3. ASSUME NEW i, NEW w, w.st \in Chunking, Kin(z, w) PROVE Told(w, i)
  <2>1. w.st \notin Heading \cup {"start", "closed", "identity", "error"}
    BY <1>3 DEF Heading, Chunking, InValue
  <2> QED
    BY <1>2, <1>3, <2>1 DEF Told, Counted, Kin
<1> QED
  BY <1>2, <1>3

\* A byte of a body.
LEMMA ConsumeTold ==
  ASSUME NEW j \in 1 .. RespSize, NEW z, Sound(z, j), z.st \in InBody, NEW st
  PROVE  LET c == Consume(z, j, st) IN
         /\ c.begun = z.begun /\ c.state = z.state /\ c.contentLength = z.contentLength /\ c.head = z.head
         /\ \/ /\ z.length - 1 > 0 /\ c.st = z.st /\ c.length = z.length - 1
               /\ c.body = z.body /\ c.bodyLen = z.bodyLen /\ Sofar(c, j + 1) = Sofar(z, j) + 1
            \/ /\ ~(z.length - 1 > 0) /\ Idle(c, j + 1) /\ c.st = st /\ c.body # 0
               /\ (z.body = 0 => z.bodyLen = 0) => c.bodyLen = Sofar(z, j) + 1
<1> DEFINE o == IF z.span = "none" THEN Open(z, "body", j) ELSE z
           l == z.length - 1
           d == [o EXCEPT !.length = l]
           e == EndSpan(d, j + 1, st)
<1>1. /\ j \in Nat \ {0} /\ j + 1 \in Nat \ {0} /\ z.st # "error" /\ IsParser(z) /\ ~z.failed
      /\ z.span \in {"none", "body"} /\ z.bodyLen \in Nat /\ (z.span = "body" => z.from \in 1 .. j)
  BY ResponseAssumption DEF Sound, Live, InBody, InValue, Before
<1>2. /\ Sound(o, j + 1) /\ o.st = z.st /\ o.span = "body" /\ o.body = z.body /\ o.bodyLen = z.bodyLen
      /\ o.from = (IF z.span = "none" THEN j ELSE z.from) /\ o.length = z.length /\ o.head = z.head
      /\ o.begun = z.begun /\ o.state = z.state /\ o.contentLength = z.contentLength
  <2>1. CASE z.span = "none"
    <3> DEFINE b == Open(z, "body", j)
    <3>1. Idle(z, j)
      BY <1>1, <2>1, SoundIdle
    <3>2. /\ IsParser(b) /\ ~b.failed /\ b.find = z.find /\ b.state = z.state /\ b.err = "HPE_OK"
          /\ b.cur = z.cur /\ b.hdr = z.hdr /\ b.field = z.field /\ b.value = z.value
          /\ b.body = z.body /\ b.bodyLen = z.bodyLen /\ b.from = j /\ b.span = "body" /\ b.st = z.st
      BY <1>1, <3>1 DEF Open, IsParser, Fields, Idle
    <3>3. b.length = z.length /\ b.head = z.head /\ b.begun = z.begun /\ b.contentLength = z.contentLength
      BY <1>1 DEF Open, IsParser, Fields
    <3> HIDE DEF b
    <3>4. Sound(b, j + 1)
      BY <3>1, <3>2, OpenSound
    <3> QED
      BY <2>1, <3>2, <3>3, <3>4 DEF b
  <2>2. CASE z.span # "none"
    BY <1>1, <2>2, SoundNext
  <2> QED
    BY <2>1, <2>2
<1>3. Consume(z, j, st) = IF l > 0 THEN d ELSE e
  <2>1. d = [o EXCEPT !.length = @ - 1] /\ d.length = l
    BY <1>2 DEF Sound, IsParser, Fields
  <2> HIDE DEF d, o, l
  <2> QED
    BY <2>1 DEF Consume, o, d
<1> HIDE DEF o, l
<1>4. /\ IsParser(d) /\ ~d.failed /\ d.find = o.find /\ d.state = o.state /\ d.err = o.err
      /\ d.st = o.st /\ d.span = o.span /\ d.from = o.from /\ d.cur = o.cur /\ d.hdr = o.hdr
      /\ d.field = o.field /\ d.value = o.value /\ d.body = o.body /\ d.bodyLen = o.bodyLen
  BY <1>2 DEF IsParser, Fields, Sound
<1>5. d.length = l /\ d.head = o.head /\ d.begun = o.begun /\ d.contentLength = o.contentLength
  BY <1>2 DEF IsParser, Fields, Sound
<1> HIDE DEF d
<1>6. Sound(d, j + 1)
  BY <1>2, <1>4, KeepSound
<1>7. /\ Idle(e, j + 1) /\ e.st = st /\ e.head = d.head /\ e.begun = d.begun /\ e.state = d.state
      /\ e.contentLength = d.contentLength /\ e.body # 0
      /\ e.bodyLen = (IF d.body = 0 THEN 0 ELSE d.bodyLen) + ((j + 1) - d.from)
  <2>1. d.span # "none" /\ d.st # "error" /\ d.span = "body"
    BY <1>1, <1>2, <1>4
  <2> QED
    BY <1>1, <1>6, <2>1, EndBody
<1> HIDE DEF e
<1>8. Sofar(d, j + 1) = Sofar(z, j) + 1 /\ Sofar(z, j) + 1 = z.bodyLen + ((j + 1) - d.from)
  BY <1>1, <1>2, <1>4 DEF Sofar
<1>9. CASE l > 0
  <2>1. Consume(z, j, st) = d
    BY <1>3, <1>9
  <2> QED
    BY <1>2, <1>4, <1>5, <1>8, <1>9, <2>1 DEF l
<1>10. CASE ~(l > 0)
  <2>1. Consume(z, j, st) = e
    BY <1>3, <1>10
  <2>2. (z.body = 0 => z.bodyLen = 0) => e.bodyLen = Sofar(z, j) + 1
    BY <1>1, <1>2, <1>4, <1>7, <1>8
  <2> QED
    BY <1>2, <1>4, <1>5, <1>7, <1>10, <2>1, <2>2 DEF l
<1> QED
  BY <1>9, <1>10

LEMMA IdentityTold ==
  ASSUME NEW j \in 1 .. RespSize, NEW z, Sound(z, j), z.st = "identity", Told(z, j)
  PROVE  Told(Identity(z, j), j + 1)
<1> DEFINE c == Consume(z, j, "identity_done")
<1>1. /\ z.begun \in Nat \ {0} /\ z.state = "incomplete"
      /\ z.begun = 1 => /\ z.body = 0 => z.bodyLen = 0
                        /\ z.length \in Nat \ {0}
                        /\ z.contentLength # 0 => (Sofar(z, j) + z.length) % Sizes = z.contentLength
  BY DEF Told, Counted, Nothing
<1>2. /\ c.begun = z.begun /\ c.state = z.state /\ c.contentLength = z.contentLength /\ c.head = z.head
      /\ \/ /\ z.length - 1 > 0 /\ c.st = z.st /\ c.length = z.length - 1
            /\ c.body = z.body /\ c.bodyLen = z.bodyLen /\ Sofar(c, j + 1) = Sofar(z, j) + 1
         \/ /\ ~(z.length - 1 > 0) /\ Idle(c, j + 1) /\ c.st = "identity_done" /\ c.body # 0
            /\ (z.body = 0 => z.bodyLen = 0) => c.bodyLen = Sofar(z, j) + 1
  BY ConsumeTold DEF InBody
<1>3. Sofar(z, j) \in Nat
  BY ResponseAssumption DEF Sofar, Sound, Live, InBody, InValue, Before
<1>4. Identity(z, j) = IF c.st = "identity_done" THEN BodyComplete(c) ELSE c
  BY DEF Identity
<1> HIDE DEF c
<1>5. CASE c.st = "identity_done"
  <2>1. ~(z.length - 1 > 0) /\ IsParser(c) /\ c.find = NoSearch /\ c.body # 0
    BY <1>2, <1>5 DEF Idle
  <2>2. ASSUME z.begun = 1, z.contentLength # 0 PROVE c.bodyLen % Sizes = c.contentLength
    <3>1. z.length = 1 /\ c.bodyLen = Sofar(z, j) + 1
      BY <1>1, <1>2, <1>5, <2>1, <2>2
    <3> QED
      BY <1>1, <1>2, <2>2, <3>1
  <2>3. Told(BodyComplete(c), j + 1)
    BY <1>1, <1>2, <2>1, <2>2, CompleteTold
  <2> QED
    BY <1>4, <1>5, <2>3
<1>6. CASE c.st # "identity_done"
  <2>1. /\ z.length - 1 > 0 /\ c.st = "identity" /\ c.length = z.length - 1
        /\ c.body = z.body /\ c.bodyLen = z.bodyLen /\ Sofar(c, j + 1) = Sofar(z, j) + 1
    BY <1>2, <1>6
  <2>2. ASSUME z.begun = 1
        PROVE  c.length \in Nat \ {0} /\ Sofar(c, j + 1) + c.length = Sofar(z, j) + z.length
    BY <1>1, <1>3, <2>1, <2>2
  <2>3. c.st \notin Heading \cup Chunking \cup {"start", "closed", "error"}
    BY <2>1 DEF Heading, Chunking, InValue
  <2>4. z.begun = 1 => /\ c.body = 0 => c.bodyLen = 0
                       /\ c.length \in Nat \ {0}
                       /\ c.contentLength # 0 => (Sofar(c, j + 1) + c.length) % Sizes = c.contentLength
    BY <1>1, <1>2, <2>1, <2>2
  <2> HIDE DEF Sofar
  <2>5. Told(c, j + 1)
    BY <1>1, <1>2, <2>3, <2>4, Zenon DEF Told, Counted
  <2> QED
    BY <1>4, <1>6, <2>5
<1> QED
  BY <1>5, <1>6

LEMMA ChunkTold ==
  ASSUME NEW j \in 1 .. RespSize, NEW z, Sound(z, j), z.st = "chunk", Told(z, j)
  PROVE  Told(Consume(z, j, "chunk_end"), j + 1)
<1> DEFINE c == Consume(z, j, "chunk_end")
<1>1. /\ z.begun \in Nat \ {0} /\ z.state = "incomplete"
      /\ z.begun = 1 => (z.body = 0 => z.bodyLen = 0) /\ z.contentLength = 0
  BY ChunkingTold DEF Chunking
<1>2. /\ c.begun = z.begun /\ c.state = z.state /\ c.contentLength = z.contentLength
      /\ \/ c.st = z.st /\ c.body = z.body /\ c.bodyLen = z.bodyLen
         \/ c.st = "chunk_end" /\ c.body # 0
  BY ConsumeTold DEF InBody
<1> HIDE DEF c
<1>3. c.st \in Chunking /\ c.st \notin Heading \cup {"start", "closed", "identity", "error"}
  BY <1>2 DEF Heading, Chunking, InValue
<1>4. Told(c, j + 1)
  BY <1>1, <1>2, <1>3 DEF Told, Counted
<1> QED
  BY <1>4 DEF c

LEMMA UntilEofTold ==
  ASSUME NEW j \in 1 .. RespSize, NEW z, Sound(z, j), z.st = "eof", Told(z, j)
  PROVE  Told(UntilEof(z, j), j + 1)
<1> DEFINE b == Open(z, "body", j)
<1>1. Kin(z, b) /\ b.st = "eof"
  BY DEF Open, Sound, IsParser, Fields, Kin
<1>2. Kin(z, z) /\ UntilEof(z, j) \in {b, z}
  BY DEF UntilEof, Kin
<1> HIDE DEF b
<1> QED
  BY <1>1, <1>2, ChunkingTold DEF Chunking

LEMMA ChunkHeaderTold ==
  ASSUME NEW j \in 1 .. RespSize, NEW z, IsParser(z), z.st \in Chunking, Told(z, j)
  PROVE  Told(ChunkHeader(z), j + 1)
<1> DEFINE f == z.flags \cup {"trailing"}
           c == [z EXCEPT !.flags = f, !.st = "field_start"]
           g == Goto(z, "chunk")
<1>1. ChunkHeader(z) \in {c, g}
  BY DEF ChunkHeader, IsParser
<1>2. "trailing" \in f
  OBVIOUS
<1> HIDE DEF f
<1>3. Kin(z, c) /\ c.flags = f /\ c.st = "field_start"
  BY DEF IsParser, Fields, Kin
<1>4. Kin(z, g) /\ g.st = "chunk"
  BY DEF Goto, IsParser, Fields, Kin
<1> HIDE DEF c, g
<1>5. InHead(c)
  BY <1>2, <1>3, ChunkingTold DEF InHead, Kin
<1>6. Told(c, j + 1)
  BY <1>3, <1>5, HeadTold DEF Heading
<1>7. Told(g, j + 1)
  BY <1>4, ChunkingTold DEF Chunking
<1> QED
  BY <1>1, <1>6, <1>7

LEMMA ChunkSizeTold ==
  ASSUME NEW j \in 1 .. RespSize, NEW z, IsParser(z), z.st = "size", Told(z, j), NEW t
  PROVE  Told(ChunkSize(z, t), j + 1)
<1> DEFINE c == [z EXCEPT !.length = t.v, !.st = "size_end"]
<1>1. ChunkSize(z, t) \in {c, Fail(z, "HPE_INVALID_CHUNK_SIZE")}
  BY DEF ChunkSize
<1>2. Kin(z, c) /\ c.st = "size_end"
  BY DEF IsParser, Fields, Kin
<1> HIDE DEF c
<1>3. Told(c, j + 1)
  BY <1>2, ChunkingTold DEF Chunking
<1> QED
  BY <1>1, <1>3, FailTold

LEMMA SizeEndTold ==
  ASSUME NEW j \in 1 .. RespSize, NEW z, IsParser(z), z.st = "size_end", Told(z, j), NEW t
  PROVE  Told(SizeEnd(z, t), j + 1)
<1> DEFINE g == Goto(z, "parameters")
<1>1. SizeEnd(z, t) \in {ChunkHeader(z), g, Fail(z, "HPE_INVALID_CHUNK_SIZE")}
  BY DEF SizeEnd
<1>2. Kin(z, g) /\ g.st = "parameters"
  BY DEF Goto, IsParser, Fields, Kin
<1> HIDE DEF g
<1>3. Told(g, j + 1)
  BY <1>2, ChunkingTold DEF Chunking
<1>4. Told(ChunkHeader(z), j + 1)
  BY ChunkHeaderTold DEF Chunking
<1> QED
  BY <1>1, <1>3, <1>4, FailTold

LEMMA ParametersTold ==
  ASSUME NEW j \in 1 .. RespSize, NEW z, IsParser(z), z.st = "parameters", Told(z, j), NEW t
  PROVE  Told(Parameters(z, t), j + 1)
<1>1. Parameters(z, t) \in {ChunkHeader(z), z} /\ Kin(z, z) /\ z.st \in Chunking
  BY DEF Parameters, Kin, Chunking
<1> QED
  BY <1>1, ChunkingTold, ChunkHeaderTold

LEMMA ChunkEndTold ==
  ASSUME NEW j \in 1 .. RespSize, NEW z, IsParser(z), z.st = "chunk_end", Told(z, j)
  PROVE  Told(ChunkEnd(z), j + 1)
<1> DEFINE c == [z EXCEPT !.length = 0, !.st = "size"]
<1>1. Kin(z, c) /\ c.st = "size"
  BY DEF IsParser, Fields, Kin
<1> HIDE DEF c
<1>2. Told(c, j + 1)
  BY <1>1, ChunkingTold DEF Chunking
<1> QED
  BY <1>2 DEF ChunkEnd, c

\* One token.
LEMMA FeedTold ==
  ASSUME NEW j \in 1 .. RespSize, NEW z, Sound(z, j), Told(z, j), z.buf[j] \in Token
  PROVE  Told(Feed(z, j), j + 1)
<1> DEFINE t == z.buf[j]
<1>1. IsParser(z)
  BY DEF Sound
<1>2. CASE z.st \in {"error", "closed"}
  <2>1. Feed(z, j) = z
    BY <1>2 DEF Feed
  <2>2. Told(z, j + 1)
    BY <1>2 DEF Told, Counted, Heading, InValue, Chunking
  <2> QED
    BY <2>1, <2>2
<1>3. ASSUME z.st # "error", z.st \notin {"status", "field"} \cup InValue \cup InBody PROVE Idle(z, j)
  <2>1. z.span = "none"
    BY <1>3 DEF Sound, Live
  <2> QED
    BY <1>3, <2>1, SoundIdle
<1>4. z.st # "error" /\ z.st \in Named => z.field.at # 0
  BY DEF Sound, Live
<1>5. z.st \in Heading => InHead(z)
  BY HeadTold
<1>6. CASE z.st \in {"start", "code", "status_start", "status", "field_start", "field"}
  <2>1. CASE z.st = "start"
    BY <1>3, <2>1, StartTold DEF Feed, InValue, InBody
  <2>2. CASE z.st = "code"
    BY <1>3, <1>5, <2>2, StatusCodeTold DEF Feed, InValue, InBody, Heading
  <2>3. CASE z.st \in {"status_start", "status"}
    <3>1. Feed(z, j) = StatusText(z, j, t) /\ InHead(z)
      BY <1>5, <2>3 DEF Feed, Heading
    <3> QED
      BY <2>3, <3>1, StatusTextTold
  <2>4. CASE z.st = "field_start"
    BY <1>3, <1>5, <2>4, FieldStartTold DEF Feed, InValue, InBody, Heading
  <2>5. CASE z.st = "field"
    BY <1>5, <2>5, FieldNameTold DEF Feed, Heading
  <2> QED
    BY <1>6, <2>1, <2>2, <2>3, <2>4, <2>5
<1>7. CASE z.st \in Named
  <2>1. CASE z.st = "discard_ws"
    BY <1>3, <1>4, <1>5, <2>1, DiscardWsTold DEF Feed, InValue, InBody, Named, Heading
  <2>2. CASE z.st = "discard_lws"
    BY <1>3, <1>4, <1>5, <2>2, DiscardLwsTold DEF Feed, InValue, InBody, Named, Heading
  <2>3. CASE z.st \in InValue
    <3>1. Feed(z, j) = ValueText(z, j, t) /\ InHead(z)
      BY <1>5, <2>3 DEF Feed, Heading, InValue
    <3> QED
      BY <2>3, <3>1, ValueTextTold
  <2>4. CASE z.st = "lws"
    BY <1>3, <1>4, <1>5, <2>4, LwsTold DEF Feed, InValue, InBody, Named, Heading
  <2> QED
    BY <1>7, <2>1, <2>2, <2>3, <2>4 DEF Named
<1>8. CASE z.st \in InBody
  <2>1. CASE z.st = "identity"
    BY <2>1, IdentityTold DEF Feed
  <2>2. CASE z.st = "eof"
    BY <2>2, UntilEofTold DEF Feed
  <2>3. CASE z.st = "chunk"
    BY <2>3, ChunkTold DEF Feed
  <2> QED
    BY <1>8, <2>1, <2>2, <2>3 DEF InBody
<1>9. CASE z.st \in {"size", "size_end", "parameters", "chunk_end"}
  <2>1. CASE z.st = "size"
    BY <1>1, <2>1, ChunkSizeTold DEF Feed
  <2>2. CASE z.st = "size_end"
    BY <1>1, <2>2, SizeEndTold DEF Feed
  <2>3. CASE z.st = "parameters"
    BY <1>1, <2>3, ParametersTold DEF Feed
  <2>4. CASE z.st = "chunk_end"
    BY <1>1, <2>4, ChunkEndTold DEF Feed
  <2> QED
    BY <1>9, <2>1, <2>2, <2>3, <2>4
<1>10. z.st \in States \cup {"error"}
  BY DEF Sound, Live
<1> QED
  BY <1>2, <1>6, <1>7, <1>8, <1>9, <1>10 DEF States

-----------------------------------------------------------------------------
(* All that was received, in one parse.                                    *)

\* A token is read, and the callbacks of it write, in front of the next one.
LEMMA FeedAhead ==
  ASSUME NEW j \in 1 .. RespSize, NEW z, Sound(z, j), NEW i \in j + 1 .. RespSize
  PROVE  Feed(z, j).buf[i] = z.buf[i]
<1>1. Same(z, z, j + 1, z.buf, z.buf)
  BY DEF Same, SameRun, Sound
<1>2. j + 1 \in 1 .. RespSize + 1 /\ j \in 1 .. (j + 1) - 1
  BY ResponseAssumption
<1> DEFINE m == j + 1
           b == z.buf
<1>3. m \in 1 .. RespSize + 1 /\ j \in 1 .. m - 1 /\ Same(z, z, m, b, b)
  BY <1>1, <1>2
<1> HIDE DEF m, b
<1>4. Same(Feed(z, j), Feed(z, j), m, b, b)
  BY <1>3, SameFeed
<1>5. i \in m .. RespSize
  BY DEF m
<1>6. Feed(z, j).buf[i] = b[i]
  BY <1>4, <1>5 DEF Same
<1> QED
  BY <1>6 DEF b

LEMMA FedTold ==
  ASSUME NEW head, NEW b, IsBuffer(b), NEW n \in 0 .. RespSize, \A i \in 1 .. n : b[i] \in Token
  PROVE  LET z == Fed([InitialState(head) EXCEPT !.buf = b], 1, n) IN Sound(z, 1 + n) /\ Told(z, 1 + n)
<1> DEFINE p == [InitialState(head) EXCEPT !.buf = b]
           Here(i) == /\ Sound(Fed(p, 1, i), 1 + i) /\ Told(Fed(p, 1, i), 1 + i)
                      /\ \A k \in i + 1 .. RespSize : Fed(p, 1, i).buf[k] = b[k]
           S == {i \in Nat : i <= n => Here(i)}
<1>1. Sound(p, 1)
  BY InitialSound DEF IsBuffer
<1>2. p.buf = b /\ Told(p, 1)
  <2>1. p.buf = b /\ p.begun = 0 /\ p.st = "start" /\ p.state = "none" /\ p.flags = {} /\ p.length = 0
        /\ p.header = General /\ p.body = 0 /\ p.bodyLen = 0 /\ p.contentLength = 0
    BY DEF InitialState
  <2> HIDE DEF p
  <2> QED
    BY <2>1 DEF Told, Counted, Nothing
<1> HIDE DEF p
<1>3. 0 \in S
  <2>1. Fed(p, 1, 0) = p /\ 1 + 0 = 1
    BY FedIs
  <2> QED
    BY <1>1, <1>2, <2>1
<1>4. ASSUME NEW i \in Nat, i \in S PROVE i + 1 \in S
  <2> SUFFICES ASSUME i + 1 <= n PROVE Here(i + 1)
    OBVIOUS
  <2> DEFINE j == 1 + i
             z == Fed(p, 1, i)
             w == Fed(p, 1, i + 1)
  <2>1. n \in Nat /\ n <= RespSize /\ RespSize \in Nat
    BY ResponseAssumption
  <2>2. j \in 1 .. RespSize /\ i <= n /\ j = i + 1 /\ 1 + (i + 1) = j + 1 /\ (i + 1) + 1 = j + 1 /\ j \in 1 .. n
    BY <2>1
  <2>3. Sound(z, j) /\ Told(z, j) /\ \A k \in i + 1 .. RespSize : z.buf[k] = b[k]
    BY <1>4, <2>2
  <2>4. w = Feed(z, j)
    <3> DEFINE c == 1
    <3>1. c \in Nat
      OBVIOUS
    <3> HIDE DEF c
    <3>2. Fed(p, c, i + 1) = Feed(Fed(p, c, i), c + i)
      BY <3>1, FedIs
    <3> QED
      BY <3>2 DEF c
  <2> HIDE DEF z, w, j
  <2>5. z.buf[j] \in Token
    <3>1. j \in i + 1 .. RespSize
      BY <2>1, <2>2
    <3> QED
      BY <2>2, <2>3, <3>1
  <2>6. Sound(w, j + 1) /\ Told(w, j + 1)
    BY <2>2, <2>3, <2>4, <2>5, FeedSound, FeedTold
  <2>7. ASSUME NEW k \in j + 1 .. RespSize PROVE w.buf[k] = b[k]
    <3>1. w.buf[k] = z.buf[k]
      BY <2>2, <2>3, <2>4, FeedAhead
    <3>2. k \in i + 1 .. RespSize
      BY <2>1, <2>2
    <3> QED
      BY <2>3, <3>1, <3>2
  <2> QED
    BY <2>2, <2>6, <2>7 DEF w
<1> HIDE DEF S
<1>5. n \in S
  BY <1>3, <1>4, Induction
<1> QED
  BY <1>5 DEF S, p

\* What the parser knows between two tokens of the messages so far.
Summed(z) ==
  /\ z.err = "HPE_OK" <=> z.st # "error"
  /\ z.st # "error" =>
       /\ z.begun \in Nat
       /\ z.begun = 0 => z.state = "none"
       /\ z.begun # 0 => z.state = IF z.st \in {"start", "closed"} THEN "complete" ELSE "incomplete"
       /\ z.begun = 1 /\ z.st \in {"start", "closed"} =>
            z.head \/ z.contentLength = 0 \/ z.bodyLen % Sizes = z.contentLength

LEMMA RestSummed ==
  ASSUME NEW j \in Nat \ {0}, NEW z, Sound(z, j), Told(z, j)
  PROVE  Summed(Rest(z, j))
<1> DEFINE w == Rest(z, j)
<1>1. SameRun(z, w) /\ (z.err # "HPE_OK" \/ z.span = "none" => w.bodyLen = z.bodyLen)
  BY RestRun DEF Agree, SameTexts
<1>2. z.st \in {"start", "closed"} => z.span = "none"
  BY DEF Sound, Live, InValue, InBody
<1>3. Summed(z)
  BY DEF Summed, Told, Counted, Sound, Nothing
<1> HIDE DEF w
<1>4. Summed(w)
  BY <1>1, <1>2, <1>3 DEF Summed, SameRun
<1> QED
  BY <1>4 DEF w

\* The parser of a call, when something was received or may be.
LEMMA CallSummed ==
  ASSUME ParserInv, PiecesInv, pc = "receive" \/ received > 0
  PROVE  Summed(s)
<1> DEFINE b == UpTo(received)
           one == AtOnce(ForHead, b, received)
<1>1. received \in 0 .. RespSize /\ received \in Nat /\ stream \in Seq(Token) /\ received <= Len(stream)
  BY ResponseAssumption DEF ParserInv, PiecesInv
<1>2. IsBuffer(b)
  BY DEF IsBuffer, UpTo
<1>3. \A i \in 1 .. received : b[i] \in Token
  <2> TAKE i \in 1 .. received
  <2>1. i \in 1 .. RespSize /\ i \in 1 .. Len(stream) /\ i <= received
    BY <1>1, ResponseAssumption
  <2>2. b[i] = stream[i]
    BY <2>1 DEF UpTo
  <2> QED
    BY <1>1, <2>1, <2>2
<1>4. Summed(one)
  <2> HIDE DEF b
  <2> DEFINE z == Fed([InitialState(ForHead) EXCEPT !.buf = b], 1, received)
  <2>1. Sound(z, 1 + received) /\ Told(z, 1 + received)
    BY <1>1, <1>2, <1>3, FedTold
  <2>2. 1 + received \in Nat \ {0} /\ one = Rest(z, 1 + received)
    BY <1>1 DEF AtOnce
  <2> HIDE DEF z, one
  <2> QED
    BY <2>1, <2>2, RestSummed
<1>5. Alike(one, s, received + 1, NoTokens, NoTokens)
  BY DEF PiecesInv
<1> HIDE DEF one
<1>6. SameRun(one, s) /\ (s.err = "HPE_OK" => s.bodyLen = one.bodyLen)
  BY <1>5 DEF Alike, Same, SameRun
<1> QED
  BY <1>4, <1>6 DEF Summed, SameRun

-----------------------------------------------------------------------------
(* What the outcome of a call says about the response.                     *)

\* No call succeeds before anything was received.
AnsweredInv == Ended /\ received = 0 => status # "HTTPSuccess"

\* Where a call goes on, or goes on to fail.
LEMMA AnsweredKeeps ==
  ASSUME AnsweredInv, \/ ~Ended'
                      \/ status' # "HTTPSuccess"
                      \/ Ended /\ UNCHANGED <<status, received>>
  PROVE  AnsweredInv'
BY DEF AnsweredInv

\* A parse of nothing before anything was received finds no message.
LEMMA NothingReceived ==
  ASSUME ParserInv, PiecesInv, pc = "receive", received = 0
  PROVE  FinalStatus(Parse(s, 0), 0) = "HTTPNoResponse"
<1> DEFINE t == Parse(s, 0)
           p == [InitialState(ForHead) EXCEPT !.buf = UpTo(0)]
<1>1. Sound(s, 1) /\ s.cur = 1 /\ s.err = "HPE_OK"
  BY DEF ParserInv, PiecesInv
<1>2. s.state = "none"
  <2>1. p.state = "none" /\ Sound(p, 1)
    <3>1. p.state = "none"
      BY DEF InitialState
    <3>2. UpTo(0) = [i \in 1 .. RespSize |-> UpTo(0)[i]]
      BY DEF UpTo
    <3> QED
      BY <3>1, <3>2, InitialSound
  <2>2. AtOnce(ForHead, UpTo(0), 0) = Rest(Fed(p, 1, 0), 1 + 0)
    BY DEF AtOnce
  <2> HIDE DEF p
  <2>3. Fed(p, 1, 0) = p /\ 1 + 0 = 1 /\ 1 \in Nat \ {0}
    BY FedIs
  <2>4. SameRun(p, Rest(p, 1))
    BY <2>1, <2>3, RestRun
  <2>5. Alike(AtOnce(ForHead, UpTo(0), 0), s, 0 + 1, NoTokens, NoTokens)
    BY DEF PiecesInv
  <2>6. SameRun(Rest(p, 1), s)
    BY <2>2, <2>3, <2>5 DEF Alike
  <2> QED
    BY <2>1, <2>4, <2>6 DEF SameRun
<1>3. t.state = "none" /\ t.err = "HPE_OK"
  <2>1. t = Rest(Fed(s, 1, 0), 1 + 0)
    BY <1>1, ParseIs
  <2>2. Fed(s, 1, 0) = s /\ 1 + 0 = 1 /\ 1 \in Nat \ {0}
    BY FedIs
  <2> HIDE DEF t
  <2>3. t = Rest(s, 1) /\ SameRun(s, Rest(s, 1))
    BY <1>1, <2>1, <2>2, RestRun
  <2> QED
    BY <1>1, <1>2, <2>3 DEF SameRun
<1> HIDE DEF t
<1>4. FinalStatus(t, 0) = "HTTPNoResponse"
  BY <1>3 DEF FinalStatus, ProcessLlhttpError, GetFinalResponseStatus
<1> QED
  BY <1>4 DEF t

LEMMA AnsweredInit == Init => AnsweredInv
BY DEF Init, AnsweredInv, Ended

LEMMA AnsweredStep == AnsweredInv /\ TypeInv /\ ParserInv /\ PiecesInv /\ [Next]_vars => AnsweredInv'
<1> SUFFICES ASSUME AnsweredInv, TypeInv, ParserInv, PiecesInv, [Next]_vars PROVE AnsweredInv'
  OBVIOUS
<1> USE DEF request, sending, response
<1>1. ASSUME NEW c \in {"spm", "app"}, NEW req \in Requests, Begin(c, req) PROVE AnsweredInv'
  <2>1. pc' \in {"socket", "initialize"}
    BY <1>1 DEF Begin
  <2> QED
    BY <2>1, AnsweredKeeps DEF Ended
<1>2. CASE Socket \/ Resolve \/ Connect
  BY <1>2, AnsweredKeeps DEF Socket, Resolve, Connect, CloseAndFail, Ended
<1>3. CASE InitializeHeaders
  <2>1. pc' = CASE caller = "spm" -> "send"
                [] caller = "app" /\ r'.status = "HTTPSuccess" -> "headers"
                [] OTHER -> "done"
    BY <1>3, Zenon DEF InitializeHeaders
  <2>2. status' = IF pc' = "done" THEN r'.status ELSE status
    BY <1>3 DEF InitializeHeaders
  <2>3. caller \in {"spm", "app"}
    BY Zenon DEF TypeInv
  <2>4. ~Ended' \/ status' # "HTTPSuccess"
    <3>1. CASE caller = "spm"
      BY <2>1, <3>1 DEF Ended
    <3>2. CASE caller = "app" /\ r'.status = "HTTPSuccess"
      BY <2>1, <3>2 DEF Ended
    <3>3. CASE caller = "app" /\ r'.status # "HTTPSuccess"
      BY <2>1, <2>2, <3>3 DEF Ended
    <3> QED
      BY <2>3, <3>1, <3>2, <3>3
  <2> QED
    BY <2>4, AnsweredKeeps
<1>4. ASSUME NEW c \in Additions, Add(c) PROVE AnsweredInv'
  BY <1>4, AnsweredKeeps DEF Add, Ended
<1>5. CASE Skip
  BY <1>5, AnsweredKeeps DEF Skip, Ended
<1>6. CASE Send
  <2>1. ~Ended' \/ status' # "HTTPSuccess"
    <3>1. CASE r.len < MinimumLength
      BY <1>6, <3>1 DEF Send, Returned
    <3>2. CASE ~(r.len < MinimumLength) /\ r'.status # "HTTPSuccess"
      BY <1>6, <3>2 DEF Send, Returned
    <3>3. CASE ~(r.len < MinimumLength) /\ r'.status = "HTTPSuccess"
      <4>1. pc' = "send headers"
        BY <1>6, <3>3, Zenon DEF Send
      <4> QED
        BY <4>1, Zenon DEF Ended
    <3> QED
      BY <3>1, <3>2, <3>3
  <2> QED
    BY <2>1, AnsweredKeeps
<1>7. ASSUME NEW n \in 1 .. ReqSize, Transmit(n) PROVE AnsweredInv'
  <2>1. ~Ended
    BY <1>7, Zenon DEF Transmit, Ended
  <2>2. pc' \notin {"close", "done"}
    <3> DEFINE left == SubSeq(out, n + 1, Len(out))
               more == left # <<>>
               data == left = <<>> /\ pc = "send headers" /\ q.body > 0
    <3>1. CASE more
      <4>1. UNCHANGED pc
        BY <1>7, <3>1, Zenon DEF Transmit
      <4> QED
        BY <2>1, <4>1 DEF Ended
    <3>2. CASE data
      <4>1. pc' = "send body"
        BY <1>7, <3>2, Zenon DEF Transmit
      <4> QED
        BY <4>1, Zenon
    <3>3. CASE ~more /\ ~data
      <4>1. pc' = "receive"
        BY <1>7, <3>3, Zenon DEF Transmit
      <4> QED
        BY <4>1
    <3> QED
      BY <3>1, <3>2, <3>3, Zenon
  <2>3. ~Ended'
    BY <2>2 DEF Ended
  <2> QED
    BY <2>3, AnsweredKeeps
<1>8. CASE TransmitNothing
  <2>1. ~Ended /\ (UNCHANGED pc \/ status' = "HTTPNetworkError")
    BY <1>8, Zenon DEF TransmitNothing, Returned, Ended
  <2>2. ~Ended' \/ status' # "HTTPSuccess"
    BY <2>1 DEF Ended
  <2> QED
    BY <2>2, AnsweredKeeps
<1>9. ASSUME NEW n \in 1 .. Available, Receive(n) PROVE AnsweredInv'
  <2>1. received \in Nat /\ received' = received + n /\ Available \in Int
    BY <1>9, ResponseAssumption DEF ParserInv, Receive, Available
  <2>2. received' # 0
    BY <2>1
  <2> QED
    BY <2>2 DEF AnsweredInv
<1>10. CASE ReceiveNothing
  <2>1. pc = "receive" /\ received' = received
    BY <1>10 DEF ReceiveNothing
  <2>2. CASE UNCHANGED pc
    BY <2>1, <2>2, AnsweredKeeps DEF Ended
  <2>3. CASE s' = Parse(s, 0) /\ Continue(s', received, TRUE)
    <3>1. received = 0 => FinalStatus(s', received) = "HTTPNoResponse"
      BY <2>1, <2>3, NothingReceived
    <3>2. status' = FinalStatus(s', received)
      BY <2>3, Continued
    <3> QED
      BY <2>1, <3>1, <3>2 DEF AnsweredInv
  <2> QED
    BY <1>10, <2>2, <2>3 DEF ReceiveNothing
<1>11. CASE ReceiveError
  BY <1>11, AnsweredKeeps DEF ReceiveError, Returned, Ended
<1>12. CASE Close
  BY <1>12, AnsweredKeeps DEF Close, Ended
<1>13. CASE Return
  BY <1>13, AnsweredKeeps DEF Return, Ended
<1>14. ASSUME NEW a \in Answers, Answer(a) PROVE AnsweredInv'
  BY <1>14, AnsweredKeeps DEF Answer, Ended
<1>15. CASE ServerClose
  BY <1>15, AnsweredKeeps DEF ServerClose, Ended
<1>16. CASE UNCHANGED vars
  BY <1>16, AnsweredKeeps DEF vars, Ended
<1> QED
  BY <1>1, <1>2, <1>3, <1>4, <1>5, <1>6, <1>7, <1>8, <1>9, <1>10, <1>11, <1>12, <1>13, <1>14, <1>15,
     <1>16 DEF Next, Call

\* What a caller may take the status of a call for, once something was received
\* and unless the transport failed: an alert if and only if the parser found an
\* error; no response, if no message has begun; a success, if the last message
\* that has begun is whole, and then as many bytes of a body are handed out as a
\* Content-Length announced (of the only message: the bytes of more are counted
\* together; a length is that of the parser in a size_t, see OnHeadersComplete);
\* and otherwise whether the buffer is full or the rest of the message is missing.
StatusTells ==
  /\ Ended /\ status = "HTTPSuccess" => received > 0
  /\ Ended /\ received > 0 /\ status # "HTTPNetworkError" =>
       LET whole == s.st \in {"start", "closed"} IN
       /\ s.err # "HPE_OK" =>
            status \notin {"HTTPSuccess", "HTTPNoResponse", "HTTPPartialResponse", "HTTPInsufficientMemory"}
       /\ s.err = "HPE_OK" /\ s.begun = 0 => status = "HTTPNoResponse"
       /\ s.err = "HPE_OK" /\ s.begun > 0 /\ whole =>
            /\ status = "HTTPSuccess"
            /\ s.begun = 1 /\ ~s.head /\ s.contentLength # 0 => s.bodyLen % Sizes = s.contentLength
       /\ s.err = "HPE_OK" /\ s.begun > 0 /\ ~whole =>
            status = IF received = RespSize THEN "HTTPInsufficientMemory" ELSE "HTTPPartialResponse"

\* The status of a call is the one that fits what was received, for all answers
\* and for all ways in which they are cut: that it is a success means that the
\* response is there and that its body has the length that was announced.
THEOREM StatusFits == Spec => []StatusTells
<1>1. AnsweredInv /\ ParserInv /\ PiecesInv => StatusTells
  <2> SUFFICES ASSUME AnsweredInv, ParserInv, PiecesInv PROVE StatusTells
    OBVIOUS
  <2>1. received \in 0 .. RespSize /\ RespSize \in Nat
    BY ResponseAssumption DEF ParserInv
  <2>2. Ended /\ status = "HTTPSuccess" => received > 0
    BY <2>1 DEF AnsweredInv
  <2>3. ASSUME Ended, received > 0, status # "HTTPNetworkError"
        PROVE  LET whole == s.st \in {"start", "closed"} IN
               /\ s.err # "HPE_OK" =>
                    status \notin {"HTTPSuccess", "HTTPNoResponse", "HTTPPartialResponse", "HTTPInsufficientMemory"}
               /\ s.err = "HPE_OK" /\ s.begun = 0 => status = "HTTPNoResponse"
               /\ s.err = "HPE_OK" /\ s.begun > 0 /\ whole =>
                    /\ status = "HTTPSuccess"
                    /\ s.begun = 1 /\ ~s.head /\ s.contentLength # 0 => s.bodyLen % Sizes = s.contentLength
               /\ s.err = "HPE_OK" /\ s.begun > 0 /\ ~whole =>
                    status = IF received = RespSize THEN "HTTPInsufficientMemory" ELSE "HTTPPartialResponse"
    <3>1. Summed(s) /\ status = FinalStatus(s, received)
      BY <2>3, CallSummed DEF PiecesInv
    <3>2. CASE s.err # "HPE_OK"
      <4>1. ProcessLlhttpError(s.err) \in
              {"HTTPSecurityAlertInvalidCharacter", "HTTPSecurityAlertInvalidContentLength",
               "HTTPSecurityAlertInvalidChunkHeader", "HTTPSecurityAlertInvalidProtocolVersion",
               "HTTPSecurityAlertInvalidStatusCode", "HTTPParserInternalError"}
        BY <3>2 DEF ProcessLlhttpError
      <4>2. FinalStatus(s, received) = ProcessLlhttpError(s.err)
        BY <4>1 DEF FinalStatus
      <4> QED
        BY <3>1, <3>2, <4>1, <4>2
    <3>3. CASE s.err = "HPE_OK"
      <4>1. FinalStatus(s, received) = GetFinalResponseStatus(s.state, received)
        BY <3>3 DEF FinalStatus, ProcessLlhttpError
      <4>2. s.st # "error" /\ s.begun \in Nat
        BY <3>1, <3>3 DEF Summed
      <4>3. CASE s.begun = 0
        <5>1. s.state = "none"
          BY <3>1, <4>2, <4>3 DEF Summed
        <5>2. GetFinalResponseStatus(s.state, received) = "HTTPNoResponse"
          BY <5>1 DEF GetFinalResponseStatus
        <5> QED
          BY <3>1, <3>3, <4>1, <4>3, <5>2
      <4>4. CASE s.begun # 0 /\ s.st \in {"start", "closed"}
        <5>1. s.state = "complete"
          BY <3>1, <4>2, <4>4 DEF Summed
        <5>2. GetFinalResponseStatus(s.state, received) = "HTTPSuccess"
          BY <5>1 DEF GetFinalResponseStatus
        <5>3. s.begun = 1 /\ ~s.head /\ s.contentLength # 0 => s.bodyLen % Sizes = s.contentLength
          BY <3>1, <4>2, <4>4 DEF Summed
        <5> QED
          BY <3>1, <3>3, <4>1, <4>4, <5>2, <5>3
      <4>5. CASE s.begun # 0 /\ s.st \notin {"start", "closed"}
        <5>1. s.state = "incomplete"
          BY <3>1, <4>2, <4>5 DEF Summed
        <5>2. GetFinalResponseStatus(s.state, received)
                = IF received = RespSize THEN "HTTPInsufficientMemory" ELSE "HTTPPartialResponse"
          BY <2>1, <5>1 DEF GetFinalResponseStatus
        <5> QED
          BY <3>1, <3>3, <4>1, <4>5, <5>2
      <4> QED
        BY <4>3, <4>4, <4>5
    <3> QED
      BY <3>2, <3>3
  <2> QED
    BY <2>2, <2>3 DEF StatusTells
<1> QED
  BY <1>1, TypeInit, TypeStep, WireInit, WireStep, MethodInit, MethodStep, ParserInit, ParserStep,
     PiecesInit, PiecesStep, AnsweredInit, AnsweredStep, PTL DEF Spec
=============================================================================
