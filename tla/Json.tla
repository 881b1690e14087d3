------------------------------- MODULE Json ---------------------------------
(***************************************************************************)
(* source/core_json.cpp: coreJSON, which the mod links.  A program loads a *)
(* document, validates it, searches it and iterates over its members.  A   *)
(* text is a sequence of characters, where a literal, four hexadecimal     *)
(* digits behind \u and a multibyte code point are one character each.  A  *)
(* place in a text counts from 1 (in the code from 0); the functions that  *)
(* skip something return the place behind it, or Miss.  A loop of the code *)
(* is a function of the number of its turns: each takes a character, so    *)
(* there are at most as many as the text has.                              *)
(***************************************************************************)
EXTENDS Integers, Sequences, SequencesExt

CONSTANTS MaxDepth,  \* JSON_MAX_DEPTH
          MaxIndex,  \* MAX_INDEX_VALUE
          Documents, \* what a program loads: a text and the tree it was made of, or NoTree
          Queries    \* text, the path of its well-formed parts, and bad

ASSUME DepthAssumption == MaxDepth \in Nat \ {0}

ASSUME DocumentAssumption ==
  /\ \A d \in Documents : d.text \in Seq(STRING)
  /\ \A c \in Queries : c.text \in Seq(STRING)

Space    == " "
Quote    == "\""
Escape   == "\\"
Digit    == {"0", "1", "2", "9"}
Literal  == {"true", "false", "null"}
Open     == {"{", "["}
Close    == {"}", "]"}
Escaped  == {Quote, Escape, "n", "t"}  \* may follow a backslash, as / b f r may
Control  == {"ctl"}                    \* a control character but NUL
Nul      == "nul"
Bytes    == "bytes"                    \* bytes that are no shortest UTF-8 of a code point
High     == "D83D"                     \* four digits: the first half of a pair,
Low      == "DE00"                     \* the second,
Quad     == {High, Low, "0041"}        \* or another code point; 0000 is none of them

Partial            == "JSONPartial"
Success            == "JSONSuccess"
IllegalDocument    == "JSONIllegalDocument"
MaxDepthExceeded   == "JSONMaxDepthExceeded"
NotFound           == "JSONNotFound"
BadParameter       == "JSONBadParameter"

Miss == 0

Has(buf, i, c) == i <= Len(buf) /\ buf[i] = c

Cut(buf, from, to) == SubSeq(buf, from, to - 1)

\* The first place from i on whose character is not in S.
Past(buf, i, S) ==
  IF i > Len(buf) THEN i
  ELSE CHOOSE j \in i .. Len(buf) + 1 : /\ j <= Len(buf) => buf[j] \notin S
                                        /\ \A k \in i .. j - 1 : buf[k] \in S

skipSpace(buf, i) == Past(buf, i, {Space})

\* The second if the first misses.
Or(j, k) == IF j # Miss THEN j ELSE k

\* A loop at place i, and one that has ended there.
On(i)   == [at |-> i, on |-> TRUE]
Stop(i) == [at |-> i, on |-> FALSE]

-----------------------------------------------------------------------------
(* Scalars.                                                                *)

skipOneHexEscape(buf, i) ==
  IF i + 3 <= Len(buf) /\ buf[i] = Escape /\ buf[i + 1] = "u" /\ buf[i + 2] \in Quad THEN i + 3 ELSE Miss

\* The first half of a pair needs the second, which does not stand alone.
Paired(buf, j, k) ==
  IF j = Miss \/ buf[j - 1] = Low THEN Miss
  ELSE IF buf[j - 1] # High THEN j
  ELSE IF k # Miss /\ buf[k - 1] = Low THEN k ELSE Miss

skipHexEscape(buf, i) ==
  LET j == skipOneHexEscape(buf, i) IN Paired(buf, j, skipOneHexEscape(buf, j))

skipEscape(buf, i) ==
  IF i >= Len(buf) \/ buf[i] # Escape THEN Miss
  ELSE IF buf[i + 1] = "u" THEN skipHexEscape(buf, i)
  ELSE IF buf[i + 1] \in Escaped \cup Control THEN i + 2 ELSE Miss

skipUTF8(buf, i) == IF buf[i] = Bytes THEN Miss ELSE i + 1

OnUnlessMissed(i) == IF i = Miss THEN Stop(Miss) ELSE On(i)

CharacterTurn(buf, c) ==
  IF ~c.on THEN c
  ELSE IF c.at > Len(buf) THEN Stop(Miss)
  ELSE IF buf[c.at] = Quote THEN Stop(c.at + 1)
  ELSE IF buf[c.at] \in Control \cup {Nul} THEN Stop(Miss)
  ELSE OnUnlessMissed(IF buf[c.at] = Escape THEN skipEscape(buf, c.at) ELSE skipUTF8(buf, c.at))

skipString(buf, i) ==
  LET turns[n \in 0 .. Len(buf)] == IF n = 0 THEN On(i + 1) ELSE CharacterTurn(buf, turns[n - 1])
  IN  IF Has(buf, i, Quote) THEN turns[Len(buf)].at ELSE Miss

skipAnyLiteral(buf, i) == IF i <= Len(buf) /\ buf[i] \in Literal THEN i + 1 ELSE Miss

skipDigits(buf, i) ==
  LET j == Past(buf, i, Digit) IN IF j > i THEN j ELSE Miss

skipDecimals(buf, i) == Or(IF Has(buf, i, ".") THEN skipDigits(buf, i + 1) ELSE Miss, i)

skipExponent(buf, i) ==
  LET sign == Has(buf, i + 1, "-") \/ Has(buf, i + 1, "+")
  IN  Or(IF Has(buf, i, "e") THEN skipDigits(buf, IF sign THEN i + 2 ELSE i + 1) ELSE Miss, i)

\* A leading zero stands alone.
skipNumber(buf, i) ==
  LET s == IF Has(buf, i, "-") THEN i + 1 ELSE i
      j == IF Has(buf, s, "0") THEN s + 1 ELSE skipDigits(buf, s)
  IN  IF j = Miss THEN Miss ELSE skipExponent(buf, skipDecimals(buf, j))

skipAnyScalar(buf, i) == Or(skipString(buf, i), Or(skipAnyLiteral(buf, i), skipNumber(buf, i)))

\* Where it leaves off, on if a comma was skipped: one with something behind it
\* that is not a closing bracket.
skipSpaceAndComma(buf, i) ==
  LET s == skipSpace(buf, i)
      t == skipSpace(buf, s + 1)
  IN  IF Has(buf, s, ",") /\ t <= Len(buf) /\ buf[t] \notin Close THEN On(t) ELSE Stop(s)

\* A turn that has looked for a scalar: v, the place behind it.
AfterScalar(buf, c, v) == IF v = Miss THEN Stop(c.at) ELSE skipSpaceAndComma(buf, v)

ArrayTurn(buf, c) == IF c.on THEN AfterScalar(buf, c, skipAnyScalar(buf, c.at)) ELSE c

skipArrayScalars(buf, i) ==
  LET turns[n \in 0 .. Len(buf)] == IF n = 0 THEN On(i) ELSE ArrayTurn(buf, turns[n - 1])
  IN  turns[Len(buf)].at

\* The place of the value behind a key; the colon may also be the end.
SkipColon(buf, colon) == IF colon <= Len(buf) /\ buf[colon] # ":" THEN Miss ELSE skipSpace(buf, colon + 1)

\* A member whose value is a collection is left off at the bracket; anything
\* else that is no scalar member, at its beginning.
AfterKey(buf, c, key, value) ==
  IF key = Miss \/ value = Miss THEN Stop(c.at)
  ELSE IF value <= Len(buf) /\ buf[value] \in Open THEN Stop(value)
  ELSE AfterScalar(buf, c, skipAnyScalar(buf, value))

ObjectTurn(buf, c) ==
  LET key == skipString(buf, c.at)
  IN  IF c.on THEN AfterKey(buf, c, key, SkipColon(buf, skipSpace(buf, key))) ELSE c

skipObjectScalars(buf, i) ==
  LET turns[n \in 0 .. Len(buf)] == IF n = 0 THEN On(i) ELSE ObjectTurn(buf, turns[n - 1])
  IN  turns[Len(buf)].at

skipScalars(buf, i, mode) ==
  IF mode = "[" THEN skipArrayScalars(buf, skipSpace(buf, i)) ELSE skipObjectScalars(buf, skipSpace(buf, i))

-----------------------------------------------------------------------------
(* skipCollection: i, the stack of opening brackets and the result so far. *)

isMatchingBracket(x, y) == <<x, y>> \in {<<"{", "}">>, <<"[", "]">>}

Collection(i) == [i |-> i, stack |-> <<>>, ret |-> Partial]

Ended(buf, s) == s.i > Len(buf) \/ s.ret # Partial

WrongOpenBracket(buf, s) ==  \* one bracket more than the stack has places
  IF Len(s.stack) > MaxDepth THEN [s EXCEPT !.i = @ + 1, !.ret = MaxDepthExceeded]
  ELSE [s EXCEPT !.i = skipScalars(buf, @ + 1, buf[@]), !.stack = Append(@, buf[s.i])]

OpenBracket(buf, s) ==
  IF Len(s.stack) = MaxDepth THEN [s EXCEPT !.i = @ + 1, !.ret = MaxDepthExceeded]
  ELSE [s EXCEPT !.i = skipScalars(buf, @ + 1, buf[@]), !.stack = Append(@, buf[s.i])]

\* Back in the outer collection, whose scalars follow a comma: c, if it was skipped.
Pop(buf, s, outer, c) ==
  [s EXCEPT !.stack = outer, !.i = IF c.on THEN skipScalars(buf, c.at, Last(outer)) ELSE c.at]

CloseBracket(buf, s) ==
  LET matches == s.stack # <<>> /\ isMatchingBracket(Last(s.stack), buf[s.i])
  IN  IF matches /\ Len(s.stack) > 1 THEN Pop(buf, s, Front(s.stack), skipSpaceAndComma(buf, s.i + 1))
      ELSE [s EXCEPT !.i = @ + 1, !.ret = IF matches THEN Success ELSE IllegalDocument]

Illegal(s) == [s EXCEPT !.i = @ + 1, !.ret = IllegalDocument]

WrongTurn(buf, s) ==  \* the last bracket need not match the first
  CASE buf[s.i] \in Open  -> OpenBracket(buf, s)
    [] buf[s.i] \in Close -> IF Len(s.stack) = 1 THEN [s EXCEPT !.i = @ + 1, !.ret = Success] ELSE CloseBracket(buf, s)
    [] OTHER              -> Illegal(s)

\* One turn of the loop.
Turn(buf, s) ==
  CASE buf[s.i] \in Open  -> OpenBracket(buf, s)
    [] buf[s.i] \in Close -> CloseBracket(buf, s)
    [] OTHER              -> Illegal(s)

\* The loop as a whole, which stands still once it has ended.
TurnOrEnd(buf, s) == IF Ended(buf, s) THEN s ELSE Turn(buf, s)

skipCollection(buf, i) ==
  LET turns[n \in 0 .. Len(buf)] == IF n = 0 THEN Collection(i) ELSE TurnOrEnd(buf, turns[n - 1])
  IN  turns[Len(buf)]

-----------------------------------------------------------------------------
(* Members, searches and iteration.                                        *)

\* The place behind a collection that is complete.
Behind(s) == IF s.ret = Success THEN s.i ELSE Miss

nextValue(buf, i) == Or(skipAnyScalar(buf, i), Behind(skipCollection(buf, i)))

\* The places of a key (its first character and the quote behind it; an item has
\* none) and of a value, with the place behind it.
NoMember == [key |-> 1, quote |-> 1, value |-> 1, end |-> Miss]

nextItem(buf, i) == [NoMember EXCEPT !.value = i, !.end = nextValue(buf, i)]

Pair(key, quote, value, end) ==
  IF end = Miss THEN NoMember ELSE [key |-> key, quote |-> quote, value |-> value, end |-> end]

nextKeyValuePair(buf, i) ==
  LET key   == skipString(buf, i)
      colon == skipSpace(buf, key)
      value == skipSpace(buf, colon + 1)
  IN  IF key = Miss \/ ~Has(buf, colon, ":") THEN NoMember ELSE Pair(i + 1, key - 1, value, nextValue(buf, value))

WrongIsKey(k, key) == IsPrefix(k, key)  \* the lengths are not compared

IsKey(k, key) == k = key

\* A loop of a search: its place, the index of the item there, and the member it
\* has come to.
Seeking(i) == [at |-> i, on |-> TRUE, index |-> 0, found |-> NoMember]

Sought(c, m) == [c EXCEPT !.on = FALSE, !.found = m]

\* On behind a comma.
NextMember(buf, c, m) ==
  LET n == skipSpaceAndComma(buf, m.end) IN [c EXCEPT !.at = n.at, !.on = n.on, !.index = @ + 1]

\* It has come to p: the one it looks for, one of another key or index, or none.
AtPair(buf, key, c, p) ==
  IF p.end = Miss THEN Sought(c, NoMember)
  ELSE IF IsKey(Cut(buf, p.key, p.quote), key) THEN Sought(c, p) ELSE NextMember(buf, c, p)

AtItem(buf, queryIndex, c, p) ==
  IF p.end = Miss THEN Sought(c, NoMember)
  ELSE IF c.index = queryIndex THEN Sought(c, p) ELSE NextMember(buf, c, p)

MemberTurn(buf, key, c) == IF c.on THEN AtPair(buf, key, c, nextKeyValuePair(buf, c.at)) ELSE c

ItemTurn(buf, queryIndex, c) == IF c.on THEN AtItem(buf, queryIndex, c, nextItem(buf, c.at)) ELSE c

\* The place behind the first bracket, if it is this one; or else the end.
Inside(buf, bracket) ==
  LET s == skipSpace(buf, 1) IN IF Has(buf, s, bracket) THEN skipSpace(buf, s + 1) ELSE Len(buf) + 1

objectSearch(buf, key) ==
  LET turns[n \in 0 .. Len(buf)] ==
        IF n = 0 THEN Seeking(Inside(buf, "{")) ELSE MemberTurn(buf, key, turns[n - 1])
  IN  turns[Len(buf)].found

arraySearch(buf, queryIndex) ==
  LET turns[n \in 0 .. Len(buf)] ==
        IF n = 0 THEN Seeking(Inside(buf, "[")) ELSE ItemTurn(buf, queryIndex, turns[n - 1])
  IN  turns[Len(buf)].found

\* The value of digits, or -1 if they may exceed MaxIndex or there are none.
Value(c) == CASE c = "0" -> 0 [] c = "1" -> 1 [] c = "2" -> 2 [] c = "9" -> 9
Index(digits) ==
  IF digits = <<>> THEN -1
  ELSE FoldLeft(LAMBDA v, c : IF v \in 0 .. MaxIndex \div 10 THEN v * 10 + Value(c) ELSE -1, 0, digits)

\* skipQueryPart: the first separator or bracket from i on.
QueryPart(query, i) ==
  CHOOSE j \in i .. Len(query) + 1 : /\ j <= Len(query) => query[j] \in {".", "["}
                                     /\ \A k \in i .. j - 1 : query[k] \notin {".", "["}

\* One turn of multiSearch: i, the place and the text of the value so far.
Searched(query, s, i, found) ==
  IF found.end = Miss THEN [s EXCEPT !.ret = NotFound]
  ELSE [s EXCEPT !.i = IF Has(query, i, ".") THEN i + 1 ELSE i,
                 !.start = @ + found.value - 1, !.text = Cut(@, found.value, found.end)]

SearchIndex(query, s) ==
  LET i          == Past(query, s.i + 1, Digit)
      queryIndex == Index(Cut(query, s.i + 1, i))
  IN  IF queryIndex < 0 \/ ~Has(query, i, "]") THEN [s EXCEPT !.ret = BadParameter]
      ELSE Searched(query, s, i + 1, arraySearch(s.text, queryIndex))

\* A key, unless it is empty or has a single character behind it.
SearchKey(query, s) ==
  LET i == QueryPart(query, s.i)
  IN  IF i = s.i \/ i = Len(query) THEN [s EXCEPT !.ret = BadParameter]
      ELSE Searched(query, s, i, objectSearch(s.text, Cut(query, s.i, i)))

SearchTurn(query, s) ==
  IF s.i > Len(query) \/ s.ret # Success THEN s
  ELSE IF query[s.i] = "[" THEN SearchIndex(query, s) ELSE SearchKey(query, s)

multiSearch(buf, query) ==
  LET turns[n \in 0 .. Len(query)] ==
        IF n = 0 THEN [i |-> 1, start |-> 1, text |-> buf, ret |-> Success]
        ELSE SearchTurn(query, turns[n - 1])
  IN  turns[Len(query)]

\* What is handed out of a value: a string without its quotes.
Stripped(value) == IF value[1] = Quote THEN SubSeq(value, 2, Len(value) - 1) ELSE value

getType(c) == CASE c = Quote -> "JSONString" [] c = "{" -> "JSONObject" [] c = "[" -> "JSONArray"
                [] c \in Literal -> c [] OTHER -> "JSONNumber"

-----------------------------------------------------------------------------
VARIABLES
  pc,     \* idle, loaded, collection, judged, found, iterate
  tree,   \* the tree of the document, or none for those of Documents
  buf,    \* the document
  s,      \* the loop of skipCollection
  ret,    \* the status of the last call
  query,  \* the last query,
  value,  \* the text it found and its type
  start, next,  \* the places JSON_Iterate keeps
  pairs         \* what it has handed out: keys, values and types

vars == <<pc, tree, buf, s, ret, query, value, start, next, pairs>>

NoTree  == [kind |-> "none"]
NoQuery == [text |-> <<>>, path |-> <<>>, bad |-> FALSE]
NoValue == [text |-> <<>>, type |-> "none"]

Init ==
  /\ pc = "idle" /\ tree = NoTree /\ buf = <<>> /\ s = Collection(1) /\ ret = Success
  /\ query = NoQuery /\ value = NoValue /\ start = 1 /\ next = 1 /\ pairs = <<>>

\* A program loads a text.
Load ==
  /\ pc = "idle"
  /\ pc' = "loaded"
  /\ \E d \in Documents : buf' = d.text /\ tree' = d.tree
  /\ UNCHANGED <<s, ret, query, value, start, next, pairs>>

\* JSON_Validate's last test: nothing but blanks may follow.
Judged(r, i) == IF r = Success /\ skipSpace(buf, i) # Len(buf) + 1 THEN IllegalDocument ELSE r

\* JSON_Validate: an empty text, a scalar, or else a collection.
Validate ==
  /\ pc = "loaded"
  /\ LET first  == skipSpace(buf, 1)
         scalar == skipAnyScalar(buf, first)
     IN  IF buf = <<>> THEN pc' = "judged" /\ ret' = BadParameter /\ UNCHANGED s
         ELSE IF scalar # Miss THEN pc' = "judged" /\ ret' = Judged(Success, scalar) /\ UNCHANGED s
         ELSE pc' = "collection" /\ s' = Collection(first) /\ UNCHANGED ret
  /\ UNCHANGED <<tree, buf, query, value, start, next, pairs>>

CollectionTurn ==
  /\ pc = "collection" /\ ~Ended(buf, s)
  /\ s' = Turn(buf, s)
  /\ UNCHANGED <<pc, tree, buf, ret, query, value, start, next, pairs>>

CollectionEnd ==
  /\ pc = "collection" /\ Ended(buf, s)
  /\ pc' = "judged"
  /\ ret' = Judged(s.ret, s.i)
  /\ UNCHANGED <<tree, buf, s, query, value, start, next, pairs>>

\* JSON_SearchConst, in the text of a tree.
Search ==
  /\ pc \in {"loaded", "judged"} /\ tree # NoTree
  /\ pc' = "found"
  /\ query' \in Queries
  /\ LET bad == query'.text = <<>> \/ buf = <<>>
     IN  \E r \in {multiSearch(buf, query'.text)} :
           /\ ret' = IF bad THEN BadParameter ELSE r.ret
           /\ value' = IF ~bad /\ r.ret = Success
                       THEN [text |-> Stripped(r.text), type |-> getType(buf[r.start])] ELSE value
  /\ UNCHANGED <<tree, buf, s, start, next, pairs>>

\* iterate: the next value or pair from place at of the collection at from.
Member(from, at) ==
  IF Has(buf, from, "[") THEN nextItem(buf, at)
  ELSE IF Has(buf, from, "{") THEN nextKeyValuePair(buf, at) ELSE NoMember

\* The pair JSON_Iterate makes of it; an item has no key.
HandedOut(m) ==
  <<Cut(buf, m.key, m.quote), Stripped(Cut(buf, m.value, m.end)), getType(buf[m.value])>>

\* JSON_Iterate, on a document that was validated before.
Iterate ==
  /\ pc \in {"judged", "iterate"} /\ tree # NoTree /\ ret = Success
  /\ pc' = "iterate"
  /\ start' = skipSpace(buf, start)
  /\ LET at == IF next <= start' THEN skipSpace(buf, start' + 1) ELSE next
     IN  \E m \in {Member(start', at)} :
           IF m.end = Miss
           THEN /\ ret' = IF start' <= Len(buf) /\ buf[start'] \notin Open THEN IllegalDocument ELSE NotFound
                /\ next' = at
                /\ UNCHANGED pairs
           ELSE /\ ret' = Success
                /\ next' = skipSpaceAndComma(buf, m.end).at
                /\ pairs' = Append(pairs, HandedOut(m))
  /\ UNCHANGED <<tree, buf, s, query, value>>

\* The program is done with the document.
Unload ==
  /\ pc \in {"judged", "found", "iterate"}
  /\ pc' = "idle" /\ tree' = NoTree /\ buf' = <<>> /\ s' = Collection(1) /\ ret' = Success
  /\ query' = NoQuery /\ value' = NoValue /\ start' = 1 /\ next' = 1 /\ pairs' = <<>>

Next == Load \/ Validate \/ CollectionTurn \/ CollectionEnd \/ Search \/ Iterate \/ Unload

Spec == Init /\ [][Next]_vars

-----------------------------------------------------------------------------
(* Properties.                                                             *)

\* The stack never has more than MaxDepth brackets, and they are brackets of the
\* text in their order; a text is too deep only if it has more.
StackIsNesting ==
  /\ s.i \in 1 .. Len(buf) + 1 /\ Len(s.stack) <= MaxDepth
  /\ \E at \in [1 .. Len(s.stack) -> 1 .. s.i - 1] :
       /\ \A k \in DOMAIN at : s.stack[k] \in Open /\ buf[at[k]] = s.stack[k]
       /\ \A k, l \in DOMAIN at : k < l => at[k] < at[l]
  /\ s.ret = MaxDepthExceeded => Cardinality({i \in DOMAIN buf : buf[i] \in Open}) > MaxDepth

\* A text that is a value as far as its ends say: a collection ends with the
\* bracket that matches the one it begins with, a string with a quote.
Closed(t) ==
  /\ t # <<>>
  /\ t[1] \in Open => isMatchingBracket(t[1], t[Len(t)])
  /\ t[1] = Quote => Len(t) > 1 /\ t[Len(t)] = Quote

\* What is handed out lies in the document: a string between two quotes, and any
\* other value from its first character to its last.
PartOf(text, type) ==
  \E i, j \in 1 .. Len(buf) :
    /\ i <= j /\ type = getType(buf[i])
    /\ Closed(SubSeq(buf, i, j)) /\ text = Stripped(SubSeq(buf, i, j))

\* A document that is accepted is a closed text between blanks.
AcceptsClosed ==
  pc = "judged" /\ ret = Success =>
    \E i, j \in 1 .. Len(buf) :
      /\ i <= j /\ Closed(SubSeq(buf, i, j))
      /\ \A k \in 1 .. Len(buf) : k < i \/ k > j => buf[k] = Space

\* So is a value that is found, and each that an iteration hands out with its key.
FindsPart == pc = "found" /\ ret = Success => PartOf(value.text, value.type)

HandsOutParts ==
  \A n \in DOMAIN pairs :
    /\ PartOf(pairs[n][2], pairs[n][3])
    /\ \E i, j \in 1 .. Len(buf) + 1 : pairs[n][1] = Cut(buf, i, j)

\* No place that the code keeps lies outside of the text, the stack never
\* overflows, a document that is accepted is closed by the bracket that opens it
\* and every text that is handed out lies in the document (core_json.cpp:1004
\* looks for a value behind a colon that may be missing, 1095 tests the depth, the
\* places of a nested search are added up in 1587).
StaysInText ==
  /\ StackIsNesting
  /\ start \in 1 .. Len(buf) + 1 /\ next \in 1 .. Len(buf) + 1
  /\ AcceptsClosed /\ FindsPart /\ HandsOutParts
=============================================================================
