------------------------------- MODULE MCJson -------------------------------
(***************************************************************************)
(* Json for TLC: every text of up to five lexical units without blanks, of *)
(* up to four with them and of up to six brackets, scalars of up to five   *)
(* characters, and trees of up to four levels with every kind of query.    *)
(***************************************************************************)
EXTENDS JsonText

UpTo(n, S) == UNION {[1 .. k -> S] : k \in 0 .. n}
Flat(Parts) == {FlattenSeq(p) : p \in Parts}

Units == {<<c>> : c \in Open \cup Close \cup {",", ":", "1"}} \cup {<<Quote, "a", Quote>>}
Hex == {<<Escape, "u", q>> : q \in {High, Low, "0041", "0000"}} \cup {<<Escape, Quote>>, <<"a">>}

Nested(n) == [i \in 1 .. 2 * n |-> IF i <= n THEN "[" ELSE "]"]

MCTexts ==
  Flat(UpTo(5, Units)) \cup Flat(UpTo(4, Units \cup {<<" ">>})) \cup UpTo(6, Open \cup Close)
    \cup UpTo(5, {"-", "0", "1", ".", "e", "+"})
    \cup {<<Quote>> \o t \o end : t \in UpTo(3, {Escape, "n", "u", "ctl", Nul, Bytes, "a", "{"}) \cup Flat(UpTo(3, Hex)),
                                  end \in {<<>>, <<Quote>>}}
    \cup {Nested(n) \o t : n \in 2 .. MaxDepth + 1, t \in {<<>>, <<" ">>, <<"]">>, <<",">>}}
    \cup {<<"[", "1", ",">> \o Nested(n) \o <<",", "true", "]">> : n \in 1 .. MaxDepth}

Leaves == {Scalar(<<"1">>), Scalar(<<Quote, "]", Quote>>), Scalar(<<"true">>)}
Keys == {<<"a">>, <<"a", "b">>}

ArraysOf(n, S) == {Array(f) : f \in UpTo(n, S)}
ObjectsOf(n, S) == {Object(f) : f \in UpTo(n, Keys \X S)}
Small == ArraysOf(2, Leaves) \cup ObjectsOf(2, Leaves)
One == Scalar(<<"1">>)

MCTrees ==
  Leaves \cup Small
    \cup {Array(<<One, t>>) : t \in Small} \cup {Array(<<t, One>>) : t \in Small}
    \cup {Object(<<<<<<"a">>, One>>, <<<<"a", "b">>, t>>>>) : t \in Small}
    \cup {Object(<<<<<<"a">>, t>>, <<<<"a">>, One>>>>) : t \in Small}
    \cup {Array(<<Array(<<t>>)>>) : t \in Small}
MCGaps == {<<>>, <<" ">>}

MCDocuments ==
  {[text |-> t, tree |-> NoTree] : t \in MCTexts}
    \cup {[text |-> g \o Render(t, g) \o g, tree |-> t] : t \in MCTrees, g \in MCGaps}

\* Paths of at most two parts, and what is not well formed behind them; a key
\* with a single character behind it is refused itself.  A separator may stand
\* before an index, and need not stand behind one.
Parts == [kind : {"key"}, key : Keys] \cup [kind : {"index"}, index : 0 .. 1]
Key(c) == [kind |-> "key", key |-> <<c>>]
Item(n) == [kind |-> "index", index |-> n]
Numeral == <<"0", "1">>
Written(path) ==
  LET part(i) == IF path[i].kind = "index" THEN <<"[", Numeral[path[i].index + 1], "]">>
                 ELSE (IF i = 1 THEN <<>> ELSE <<".">>) \o path[i].key
  IN  FlattenSeq([i \in DOMAIN path |-> part(i)])

Good(path) == [text |-> Written(path), path |-> path, bad |-> FALSE]
Ill(path, t) == [text |-> Written(path) \o t, path |-> path, bad |-> TRUE]

MCQueries ==
  {Good(p) : p \in UpTo(2, Parts)}
    \cup {Ill(<<>>, k \o <<c>>) : k \in Keys, c \in {".", "["}}
    \cup {Ill(<<p>>, t) : p \in Parts, t \in {<<"[", "]">>, <<"[", "2", "0", "]">>, <<"[", "a", "]">>, <<".", "[", "1">>, <<".", ".", "a">>}}
    \cup {Ill(<<>>, t) : t \in {<<"[", "2", "0", "]">>, <<"[", "]">>, <<".">>, <<".", "a">>}}
    \cup {Ill(<<p>>, <<".">>) : p \in {Item(0), Item(1)}}
    \cup {[text |-> <<"a", ".", "[", "0", "]">>, path |-> <<Key("a"), Item(0)>>, bad |-> FALSE],
          [text |-> <<"[", "1", "]", "a">>, path |-> <<Item(1), Key("a")>>, bad |-> FALSE],
          [text |-> <<"a", "[", "0", "]", ".">>, path |-> <<Key("a"), Item(0)>>, bad |-> TRUE]}
    \cup {[text |-> <<"[", "1", "9", "]">>, path |-> <<Item(19)>>, bad |-> FALSE]}
=============================================================================
