----------------------------- MODULE JsonText -------------------------------
(***************************************************************************)
(* The reference for source/core_json.cpp: which texts are JSON, written   *)
(* as a grammar over whole texts, and the trees that valid texts stand     *)
(* for.  The grammar is ECMA-404's but for what core_json.cpp says that it *)
(* disallows in strings: \u0000 (line 387), half of a surrogate pair (379) *)
(* and bytes that are no UTF-8 of a code point.  What the code accepts and *)
(* JSON does not is named: Unannounced and Escaping.                       *)
(* A text is a sequence of characters.  A literal, four hexadecimal digits *)
(* behind \u and a multibyte code point are one character each.            *)
(***************************************************************************)
EXTENDS Json

CONSTANT Gaps  \* the blanks between the characters of a tree's text

From(x, i) == SubSeq(x, i, Len(x))
Before(x, i) == SubSeq(x, 1, i - 1)
Inner(x) == SubSeq(x, 2, Len(x) - 1)

Blank(x) == \A i \in 1 .. Len(x) : x[i] = Space
Trim(x) == IF Blank(x) THEN <<>>
           ELSE LET at == {i \in 1 .. Len(x) : x[i] # Space}
                IN  SubSeq(x, CHOOSE i \in at : \A j \in at : i <= j, CHOOSE i \in at : \A j \in at : j <= i)

-----------------------------------------------------------------------------
(* Scalars.                                                                *)

Digits(x) == x # <<>> /\ \A i \in 1 .. Len(x) : x[i] \in Digit
Whole(x) == Digits(x) /\ (x[1] = "0" => Len(x) = 1)
Fraction(x) == x # <<>> => x[1] = "." /\ Digits(Tail(x))
Exponent(x) == x # <<>> => /\ x[1] = "e"
                           /\ \/ Digits(Tail(x))
                              \/ Len(x) > 1 /\ x[2] \in {"+", "-"} /\ Digits(From(x, 3))

IsNumber(x) ==
  \E sign \in {<<>>, <<"-">>}, p \in 1 .. Len(x) + 1, q \in 1 .. Len(x) + 1 :
    /\ Len(sign) < p /\ p <= q
    /\ SubSeq(x, 1, Len(sign)) = sign
    /\ Whole(SubSeq(x, Len(sign) + 1, p - 1)) /\ Fraction(SubSeq(x, p, q - 1)) /\ Exponent(From(x, q))

\* A deviation of the code: a control character behind a backslash
\* (core_json.cpp:482).
Escaping == "escaping"

IsCharacter(x, more) ==
  CASE Len(x) = 1 -> x[1] \notin {Quote, Escape, Nul, Bytes} \cup Control
    [] Len(x) = 2 -> x[1] = Escape /\ x[2] \in Escaped \cup (IF Escaping \in more THEN Control ELSE {})
    [] Len(x) = 3 -> x[1] = Escape /\ x[2] = "u" /\ x[3] \in Quad \ {High, Low}
    [] Len(x) = 6 -> x = <<Escape, "u", High, Escape, "u", Low>>
    [] OTHER      -> FALSE

RECURSIVE IsCharacters(_, _)
IsCharacters(x, more) ==
  x = <<>> \/ \E n \in 1 .. Len(x) : IsCharacter(SubSeq(x, 1, n), more) /\ IsCharacters(From(x, n + 1), more)

IsString(x, more) == Len(x) >= 2 /\ x[1] = Quote /\ x[Len(x)] = Quote /\ IsCharacters(Inner(x), more)

IsScalar(x, more) == (Len(x) = 1 /\ x[1] \in Literal) \/ IsNumber(x) \/ IsString(x, more)

-----------------------------------------------------------------------------
(* Values that nest at most d deep, and with more, also those that deviate *)
(* from JSON in the ways it names.                                         *)

\* A deviation of the code: a collection in another one without the comma or the
\* key before it (core_json.cpp:1093).
Unannounced == "unannounced"

RECURSIVE IsValue(_, _, _), Items(_, _, _), Members(_, _, _)

IsCollection(x, d, more) ==
  /\ d > 0 /\ Len(x) >= 2
  /\ \/ x[1] = "[" /\ x[Len(x)] = "]" /\ (Blank(Inner(x)) \/ Items(Inner(x), d - 1, more))
     \/ x[1] = "{" /\ x[Len(x)] = "}" /\ (Blank(Inner(x)) \/ Members(Inner(x), d - 1, more))

IsValue(x, d, more) == IsScalar(x, more) \/ IsCollection(x, d, more)

IsMember(x, d, more) ==
  \/ \E i \in 1 .. Len(x) : /\ x[i] = ":"
                            /\ IsString(Trim(Before(x, i)), more)
                            /\ IsValue(Trim(From(x, i + 1)), d, more)
  \/ Unannounced \in more /\ IsCollection(Trim(x), d, more)

\* A first one, with a comma behind it or, unannounced, a bracket, and the others.
Items(x, d, more) ==
  \/ IsValue(Trim(x), d, more)
  \/ \E i \in 1 .. Len(x) :
       /\ IsValue(Trim(Before(x, i)), d, more)
       /\ \/ x[i] = "," /\ Items(From(x, i + 1), d, more)
          \/ Unannounced \in more /\ x[i] \in Open /\ Items(From(x, i), d, more)

Members(x, d, more) ==
  \/ IsMember(x, d, more)
  \/ \E i \in 1 .. Len(x) :
       /\ IsMember(Before(x, i), d, more)
       /\ \/ x[i] = "," /\ Members(From(x, i + 1), d, more)
          \/ Unannounced \in more /\ x[i] \in Open /\ Members(From(x, i), d, more)

IsJson(x) == IsValue(Trim(x), MaxDepth, {})
IsNearJson(x) == IsValue(Trim(x), MaxDepth, {Unannounced, Escaping})

\* Some closing brackets, or a value if there is nothing yet, complete x.
Completable(x) ==
  \E t \in UNION {[1 .. n -> Close] : n \in 1 .. Len(x)} \cup {<<"1">>} : IsNearJson(x \o t)

\* At a bracket of x, MaxDepth + 1 collections are open in one another, as
\* closing all of them there makes a value.
NestsTooDeep(x, more) ==
  \E n \in MaxDepth + 1 .. Len(x), t \in [1 .. MaxDepth + 1 -> Close] :
    x[n] \in Open /\ IsValue(Trim(SubSeq(x, 1, n) \o t), MaxDepth + 1, more)

-----------------------------------------------------------------------------
(* Trees: what a text means.  kind is scalar, array or object; a scalar    *)
(* has its text, an array its items and an object its members, each a key  *)
(* and a value.                                                            *)

Scalar(x) == [kind |-> "scalar", text |-> x]
Array(items) == [kind |-> "array", items |-> items]
Object(members) == [kind |-> "object", items |-> members]

\* The children of a tree: a key (without its quotes) and a value.
Children(node) ==
  CASE node.kind = "scalar" -> <<>>
    [] node.kind = "array"  -> [i \in DOMAIN node.items |-> <<<<>>, node.items[i]>>]
    [] OTHER                -> node.items

\* The text of a tree with gap at every place where blanks may be.
RECURSIVE Render(_, _)
Render(node, gap) ==
  LET key(k) == IF node.kind = "object" THEN <<Quote>> \o k \o <<Quote>> \o gap \o <<":">> \o gap ELSE <<>>
      child(c) == key(c[1]) \o Render(c[2], gap) \o gap
      list[i \in 0 .. Len(Children(node))] ==
        IF i = 0 THEN <<>>
        ELSE list[i - 1] \o (IF i = 1 THEN gap ELSE <<",">> \o gap) \o child(Children(node)[i])
      body == list[Len(Children(node))]
  IN  CASE node.kind = "scalar" -> node.text
        [] node.kind = "array"  -> <<"[">> \o (IF body = <<>> THEN gap ELSE body) \o <<"]">>
        [] OTHER                -> <<"{">> \o (IF body = <<>> THEN gap ELSE body) \o <<"}">>

\* The subtrees at a path of keys and indexes, from the first member with the
\* key: at most one.
Step(node, part) ==
  LET hit == {i \in DOMAIN Children(node) :
                IF part.kind = "index" THEN node.kind = "array" /\ i = part.index + 1
                ELSE node.kind = "object" /\ Children(node)[i][1] = part.key}
  IN  {Children(node)[i][2] : i \in {i \in hit : \A j \in hit : i <= j}}

RECURSIVE Select(_, _)
Select(node, path) ==
  IF path = <<>> THEN {node} ELSE UNION {Select(t, Tail(path)) : t \in Step(node, Head(path))}

-----------------------------------------------------------------------------
(* Properties.                                                             *)

\* JSON_Validate accepts all JSON (core_json.h:70), and nothing that is no JSON
\* but for the two named deviations, which the documents do not have: collections
\* without a comma or a key before them, and control characters behind a backslash.
\* Up to these, what it calls partial can be completed (:75) and what it finds too
\* deep nests deeper than MaxDepth (:74), and all JSON that nests so deep is found to.
\* (Not that all that can be completed is called partial: a text cut within a scalar
\* or behind a comma is called illegal.)
JudgesExactly ==
  pc = "judged" /\ buf # <<>> =>
    /\ IsJson(buf) => ret = Success
    /\ ret = Success => IsNearJson(buf)
    /\ ret = Partial => Completable(buf)
    /\ ret = MaxDepthExceeded => NestsTooDeep(buf, {Unannounced, Escaping})
    /\ NestsTooDeep(buf, {}) => ret = MaxDepthExceeded

\* core_json.h:70, JSONSuccess if the buffer contents are valid JSON: here for the
\* collections in the text, whatever is behind a backslash.
AcceptsOnlyJson == pc = "judged" /\ ret = Success => IsValue(Trim(buf), MaxDepth, {Escaping})

TypeName(t) == IF t.kind = "array" THEN "JSONArray" ELSE IF t.kind = "object" THEN "JSONObject" ELSE getType(t.text[1])

\* A value of the document, as it is handed out.
Shown(gap, t) == [text |-> Stripped(Render(t, gap)), type |-> TypeName(t)]

\* A query that ends with a separator behind an index, which core_json.cpp:1589
\* skips without looking for the portion behind it.
EndsBehindIndex(q) == Len(q) > 1 /\ q[Len(q)] = "." /\ q[Len(q) - 1] = "]"

\* A search finds the value at the path of the query, or nothing if there is
\* none; a query that is not well formed is refused where it stops being so.
\* Left out is the status of queries like "[0]." that end behind an index: the code
\* takes them for "[0]", where core_json.h:131 says JSONBadParameter if "the portion
\* after a separator is empty".
\* An iteration hands out the children of the document, in order and each
\* once, and ends behind the last.
FindsMembers ==
  /\ pc = "found" =>
       LET hit == Select(tree, query.path) IN
       /\ \/ EndsBehindIndex(query.text)
          \/ ret = IF query.text = <<>> THEN BadParameter ELSE IF hit = {} THEN NotFound
                   ELSE IF query.bad THEN BadParameter ELSE Success
       /\ ret = Success => \E t \in hit, gap \in Gaps : value = Shown(gap, t) /\ buf = gap \o Render(tree, gap) \o gap
  /\ pc = "iterate" =>
       /\ \E gap \in Gaps :
            /\ buf = gap \o Render(tree, gap) \o gap
            /\ \A i \in DOMAIN pairs :
                 LET c == Children(tree)[i] IN
                 pairs[i] = <<c[1], Shown(gap, c[2]).text, Shown(gap, c[2]).type>>
       /\ ret = NotFound => Len(pairs) = Len(Children(tree)) /\ tree.kind # "scalar"
       /\ ret = IllegalDocument => tree.kind = "scalar"
=============================================================================
