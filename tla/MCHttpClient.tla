---------------------------- MODULE MCHttpClient ----------------------------
(***************************************************************************)
(* Requests that fit the buffer of the headers and requests that do not,   *)
(* and for every way in which a response ends, is cut or is malformed one  *)
(* answer that shows it.                                                   *)
(***************************************************************************)
EXTENDS HttpClient

Req(method, host, keepAlive, body) ==
  [method |-> method, path |-> <<"/">>, host |-> host, keepAlive |-> keepAlive, body |-> body,
   noLength |-> FALSE]

Long == [i \in 1 .. 12 |-> "h"]

MCRequests == {Req("GET", <<"host">>, FALSE, 0), Req("HEAD", <<"host">>, TRUE, 0),
               Req("HEAD", <<"host">>, FALSE, 0),
               Req("POST", <<"host">>, FALSE, 2), Req("POST", <<"host">>, TRUE, 2),
               [Req("POST", <<"host">>, FALSE, 1) EXCEPT !.noLength = TRUE],
               Req("GET", <<"h", CRLF, "x">>, FALSE, 0), Req("GET", Long, FALSE, 0),
               Req("POST", Long, FALSE, 1), Req("POST", <<CRLF>>, FALSE, 1),
               [Req("GET", <<"host">>, FALSE, 0) EXCEPT !.path = Long \o Long],
               [Req("GET", <<"host">>, FALSE, 0) EXCEPT !.path = <<>>],
               Req(NoMethod, <<"host">>, FALSE, 1), Req("GET", <<>>, FALSE, 0)}

\* Headers that are taken and refused, in the name, in the value; and ranges.
Bytes(start, end) == [start |-> start, end |-> end]

MCAdditions ==
  {[field |-> <<"X">>, value |-> <<"value">>],
   [field |-> <<"X", "-A">>, value |-> <<"v", CRLF, "w">>],
   [field |-> <<"X", ":">>, value |-> <<"value">>],
   [field |-> <<CRLF, "X">>, value |-> <<"value">>],
   [field |-> <<>>, value |-> <<"value">>], [field |-> <<"X">>, value |-> <<>>],
   Bytes(0, 5), Bytes(2, -1), Bytes(-3, -1), Bytes(-3, 4), Bytes(5, 4), Bytes(1, -2), Bytes(Int32Min, -1)}

H(name, value) == [name |-> name, value |-> value]

Message(code, headers, body) ==
  [version |-> 11, code |-> code, reason |-> <<1>>, headers |-> headers, chunked |-> FALSE,
   params |-> <<>>, body |-> body, trailer |-> <<>>, junk |-> <<>>]

Chunks(headers, body, trailer) ==
  [Message(200, <<H(Encoding, <<Chunked>>)>> \o headers, body)
     EXCEPT !.chunked = TRUE, !.trailer = trailer]

One == Message(200, <<H(Length, <<1>>)>>, <<1>>)

MCAnswers ==
  {<<Message(200, <<H(General, <<7, 8>>), H(Length, <<0, 2>>)>>, <<2>>)>>,
   <<Message(200, <<H(Length, <<2, 0>>)>>, <<20>>)>>,                  \* does not fit
   <<Message(200, <<H(Length, <<1, 6>>)>>, <<16>>)>>,                  \* just fits
   <<Message(204, <<H(General, [i \in 1 .. 18 |-> i])>>, <<>>)>>,      \* just fits
   <<Message(200, <<H(Length, <<4, 5>>)>>, <<45>>)>>,                  \* no size_t
   <<Message(200, <<H(Length, <<6, 3>>)>>, <<63>>)>>,                  \* the greatest length
   <<Message(200, <<H(Length, <<6, 4>>)>>, <<64>>)>>,                  \* none
   <<Chunks(<<>>, <<1, 2>>, <<>>)>>,
   <<[Chunks(<<>>, <<2>>, <<>>) EXCEPT !.params = <<1>>]>>,
   <<Chunks(<<>>, <<2>>, <<H(General, <<5>>), H(Connection, <<Closing>>)>>)>>,
   <<Chunks(<<H(General, <<>>)>>, <<64>>, <<>>)>>,                     \* no length
   <<[Message(200, <<H(Encoding, <<5, Chunked>>)>>, <<1>>) EXCEPT !.chunked = TRUE]>>,
   <<Message(200, <<H(Connection, <<Closing>>)>>, <<2>>)>>,            \* ends with the connection
   <<Message(200, <<H(Encoding, <<Chunked, 5>>)>>, <<1>>)>>,           \* likewise, not chunked
   <<Message(204, <<>>, <<>>)>>,
   <<Message(204, <<H(Connection, <<KeepAlive, Closing>>), H(General, <<1>>), H(General, <<2>>)>>, <<>>)>>,
   <<[One EXCEPT !.reason = <<>>]>>,
   <<[Message(404, <<H(Length, <<0>>)>>, <<>>) EXCEPT !.reason = <<1, 2>>]>>,
   <<Message(100, <<>>, <<>>), One>>,
   <<Message(100, <<>>, <<>>), [One EXCEPT !.reason = <<>>]>>,
   <<[One EXCEPT !.junk = Tokens("junk", <<1>>)]>>,
   <<[One EXCEPT !.junk = Tokens("junk", <<1>>), !.version = 10]>>,
   <<[One EXCEPT !.version = 10, !.headers = @ \o <<H(Connection, <<KeepAlive>>)>>]>>,
   <<[One EXCEPT !.version = 0]>>,
   <<[One EXCEPT !.code = 1000]>>,
   <<Message(101, <<H(Upgrade, <<1>>), H(Connection, <<Switching>>)>>, <<>>)>>,
   <<Message(204, <<H(General, <<1, Fold, 2, 3>>), H(General, <<Fold, 4>>)>>, <<>>)>>,
   <<Message(200, <<H(Length, <<Fold, 1>>)>>, <<1>>)>>,
   <<Message(200, <<H(Length, <<0, Fold, 1>>)>>, <<1>>)>>,             \* a length of two lines
   <<Message(200, <<H(Length, <<1>>), H(Encoding, <<Chunked>>)>>, <<1>>)>>,  \* two framings
   <<Message(200, <<H(Length, <<1>>), H(Length, <<1>>)>>, <<1>>)>>,    \* two lengths
   <<Message(200, <<H(Length, <<>>)>>, <<1>>)>>,                       \* no length
   <<Message(200, <<H(Invalid, <<1>>)>>, <<1>>)>>,
   <<Message(200, <<H(Encoding, <<Chunked>>)>>, <<1>>)>>}              \* no chunk size
=============================================================================
