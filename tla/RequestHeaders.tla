--------------------------- MODULE RequestHeaders ---------------------------
(***************************************************************************)
(* The request headers that source/corehttp/core_http_client.cpp builds in *)
(* a buffer of the caller: the request line and the headers, ended by an   *)
(* empty line.  Every header that is added moves the end indicator.        *)
(*                                                                         *)
(* A position of the buffer holds one piece of text; CRLF is the line      *)
(* separator, so the end indicator is two of them.  A piece is as long as  *)
(* CRLF where it can come to overwrite one: the first piece of a name is   *)
(* its first two characters.  Headers under construction are a record r of *)
(* the buffer (buf), headersLen (len) and the status of the last call.     *)
(***************************************************************************)
EXTENDS Integers, Sequences, TLC

CONSTANTS ReqSize  \* bufferLen of the request headers

ASSUME RequestAssumption == ReqSize \in Nat

CRLF == "CRLF"
MinimumLength == 2  \* HTTP_MINIMUM_REQUEST_LINE_LENGTH: method and CRLF

Blank == [buf |-> [i \in 1 .. ReqSize |-> "0"], len |-> 0, status |-> "HTTPSuccess"]

\* The buffer with the pieces p from position at + 1 on.
Put(buf, at, p) ==
  [i \in 1 .. ReqSize |-> IF i - at \in 1 .. Len(p) THEN p[i - at] ELSE buf[i]]

\* The characters httpHeaderStrncpy refuses: line breaks, and the colon in the
\* name of a header.
Refused(text, isField) ==
  {i \in 1 .. Len(text) : text[i] = CRLF \/ (isField /\ text[i] = ":")}

\* What httpHeaderStrncpy has copied when it is done.
Copied(text, isField) ==
  LET stops == Refused(text, isField)
      first == CHOOSE i \in stops : \A j \in stops : i <= j
  IN  IF stops = {} THEN text ELSE SubSeq(text, 1, first - 1)

\* Where the next header goes: over the empty line, if there is one.
Backtracked(r) ==
  IF r.len >= 2 /\ r.buf[r.len - 1] = CRLF /\ r.buf[r.len] = CRLF THEN r.len - 1 ELSE r.len

\* The definitions named Wrong... are the code with a plausible mistake; no
\* action uses them, the properties are tested against them.
WrongAddHeader(r, field, value) ==  \* the empty line is not taken back
  LET line == field \o <<":">> \o value \o <<CRLF, CRLF>>
  IN  IF r.len + Len(line) > ReqSize THEN [r EXCEPT !.status = "HTTPInsufficientMemory"]
      ELSE [buf |-> Put(r.buf, r.len, line), len |-> r.len + Len(line), status |-> "HTTPSuccess"]

WrongRoom(r, field, value) ==  \* room is wanted for one line end only
  LET line == field \o <<":">> \o value \o <<CRLF, CRLF>>
  IN  IF Backtracked(r) + Len(line) - 1 > ReqSize THEN [r EXCEPT !.status = "HTTPInsufficientMemory"]
      ELSE [buf |-> Put(r.buf, Backtracked(r), line), len |-> Backtracked(r) + Len(line),
            status |-> "HTTPSuccess"]

\* addHeader: the empty line is overwritten before the characters are looked
\* at, and headersLen only set when everything was copied.
AddHeader(r, field, value) ==
  LET at   == Backtracked(r)
      line == field \o <<":">> \o value \o <<CRLF, CRLF>>
      part == IF Refused(field, TRUE) # {} THEN Copied(field, TRUE)
              ELSE field \o <<":">> \o Copied(value, FALSE)
  IN  IF at + Len(line) > ReqSize THEN [r EXCEPT !.status = "HTTPInsufficientMemory"]
      ELSE IF Refused(field, TRUE) \cup Refused(value, FALSE) # {}
      THEN [r EXCEPT !.buf = Put(@, at, part), !.status = "HTTPSecurityAlertInvalidCharacter"]
      ELSE [buf |-> Put(r.buf, at, line), len |-> at + Len(line), status |-> "HTTPSuccess"]

\* A request without a path asks for the root.
Path(q) == IF q.path = <<>> THEN <<"/">> ELSE q.path

\* writeRequestLine, into a buffer whose headersLen was reset.
RequestLine(r, q) ==
  LET line == <<q.method>> \o Path(q) \o <<CRLF>>
  IN  IF Len(line) > ReqSize THEN [r EXCEPT !.len = 0, !.status = "HTTPInsufficientMemory"]
      ELSE [buf |-> Put(r.buf, 0, line), len |-> Len(line), status |-> "HTTPSuccess"]

\* The headers of a request q, [method, path, host, keepAlive, body, noLength],
\* that HTTPClient_InitializeRequestHeaders adds, in order.
Initial(q) ==
  << [field |-> <<"Us", "er-Agent">>, value |-> <<"platform">>],
     [field |-> <<"Ho", "st">>, value |-> q.host] >>
  \o (IF q.keepAlive THEN <<[field |-> <<"Co", "nnection">>, value |-> <<"keep-alive">>]>> ELSE <<>>)

NoMethod == ""  \* of length zero

\* A request without a method or a host is turned down before headersLen is reset.
Started(r, q) ==
  IF q.method = NoMethod \/ q.host = <<>> THEN [r EXCEPT !.status = "HTTPInvalidParameter"]
  ELSE RequestLine(r, q)

\* HTTPClient_InitializeRequestHeaders: the first failure is the last step.  The
\* only outcome, as a set.
Initialize(r, q) ==
  LET own == Initial(q)
      put[i \in 0 .. Len(own)] ==
        IF i = 0 THEN {Started(r, q)}
        ELSE {IF p.status = "HTTPSuccess" THEN AddHeader(p, own[i].field, own[i].value) ELSE p : p \in put[i - 1]}
  IN  put[Len(own)]

\* HTTPClient_AddRangeHeader.
EndOfFile == -1
Int32Min  == -2147483647 - 1

ConvertInt32ToAscii(n) == IF n < 0 THEN <<"-", ToString(-n)>> ELSE <<ToString(n)>>

RangeValue(start, end) ==
  <<"bytes=">> \o ConvertInt32ToAscii(start)
    \o (CASE end # EndOfFile -> <<"-">> \o ConvertInt32ToAscii(end)
          [] end = EndOfFile /\ start >= 0 -> <<"-">>
          [] end = EndOfFile /\ start < 0 -> <<>>)

AddRangeHeader(r, start, end) ==
  IF \/ end < EndOfFile
     \/ start < 0 /\ end # EndOfFile
     \/ end # EndOfFile /\ start > end
     \/ start = Int32Min
  THEN [r EXCEPT !.status = "HTTPInvalidParameter"]
  ELSE AddHeader(r, <<"Ra", "nge">>, RangeValue(start, end))

\* What the application asks for between the other two calls: a header [field,
\* value], neither of them empty, or a range [start, end].
AddCall(r, c) ==
  CASE "field" \notin DOMAIN c -> AddRangeHeader(r, c.start, c.end)
    [] "field" \in DOMAIN c /\ (c.field = <<>> \/ c.value = <<>>) ->
         [r EXCEPT !.status = "HTTPInvalidParameter"]
    [] OTHER -> AddHeader(r, c.field, c.value)

\* sendHttpHeaders: a Content-Length, when there is a body and the flag against
\* it is not set.
AddContentLength(r, q) ==
  IF q.body = 0 \/ q.noLength THEN [r EXCEPT !.status = "HTTPSuccess"]
  ELSE AddHeader(r, <<"Co", "ntent-Length">>, ConvertInt32ToAscii(q.body))

-----------------------------------------------------------------------------
(* What the server is to get, in terms of lines.  A text t holds the lines *)
(* put together so far, whether an empty line ends them (whole) and whether *)
(* the last header was taken (ok).                                         *)

\* A header is taken if it fits with the empty line behind it and has no line
\* break.  One that is refused for a character takes the empty line away, and
\* the beginning of its name stays in its place.
Entry(t, field, value) ==
  LET line == field \o <<":">> \o value \o <<CRLF>>
  IN  IF Len(t.lines) + Len(line) + 1 > ReqSize THEN [t EXCEPT !.ok = FALSE]
      ELSE IF Refused(field, TRUE) \cup Refused(value, FALSE) = {}
      THEN [lines |-> t.lines \o line, whole |-> TRUE, ok |-> TRUE]
      ELSE IF t.whole /\ Copied(field, TRUE) # <<>>
      THEN [lines |-> Append(t.lines, Head(field)), whole |-> FALSE, ok |-> FALSE]
      ELSE [t EXCEPT !.ok = FALSE]

\* The ranges that can be asked for: the bytes from start on, from start to
\* end, or the last -start ones.
RangeEntry(t, start, end) ==
  CASE 0 <= start /\ end = EndOfFile -> Entry(t, <<"Ra", "nge">>, <<"bytes=", ToString(start), "-">>)
    [] 0 <= start /\ start <= end ->
         Entry(t, <<"Ra", "nge">>, <<"bytes=", ToString(start), "-", ToString(end)>>)
    [] Int32Min < start /\ start < 0 /\ end = EndOfFile ->
         Entry(t, <<"Ra", "nge">>, <<"bytes=", "-", ToString(-start)>>)
    [] OTHER -> [t EXCEPT !.ok = FALSE]

\* Nothing comes of a header without a name or without a value.
CallEntry(t, c) ==
  IF "field" \notin DOMAIN c THEN RangeEntry(t, c.start, c.end)
  ELSE IF <<>> \in {c.field, c.value} THEN [t EXCEPT !.ok = FALSE]
  ELSE Entry(t, c.field, c.value)

\* The headers of the request q with the calls that the application made.  There
\* are none at all unless the request has a method and a host and its first line
\* fits.
Composed(q, calls) ==
  LET line  == <<q.method>> \o (IF q.path = <<>> THEN <<"/">> ELSE q.path) \o <<CRLF>>
      fine  == q.method # NoMethod /\ q.host # <<>> /\ Len(line) <= ReqSize
      first == [lines |-> IF fine THEN line ELSE <<>>, whole |-> FALSE, ok |-> fine]
      entry[i \in 0 .. Len(Initial(q)) + Len(calls)] ==
        IF i = 0 THEN first
        ELSE IF i > Len(Initial(q)) THEN CallEntry(entry[i - 1], calls[i - Len(Initial(q))])
        ELSE IF entry[i - 1].ok THEN Entry(entry[i - 1], Initial(q)[i].field, Initial(q)[i].value)
        ELSE entry[i - 1]
  IN  entry[Len(Initial(q)) + Len(calls)]

\* The same with what HTTPClient_Send adds, and with the body behind it.
RequestText(q, calls) ==
  LET added == Composed(q, calls)
      whole == IF q.body = 0 \/ q.noLength THEN added
               ELSE Entry(added, <<"Co", "ntent-Length">>, <<ToString(q.body)>>)
  IN  whole.lines \o (IF whole.whole THEN <<CRLF>> ELSE <<>>) \o [i \in 1 .. q.body |-> "data"]
=============================================================================
