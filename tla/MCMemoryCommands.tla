-------------------------- MODULE MCMemoryCommands --------------------------
(***************************************************************************)
(* MemoryCommands for TLC: words of 5 bits, four bytes of MEM1 from 0x10   *)
(* on, bytes of 4 bits and digits of 3 (U = 2).                            *)
(***************************************************************************)
EXTENDS MemoryCommands

UpTo(n, S) == UNION {[1 .. k -> S] : k \in 0 .. n}

\* Two bytes whose bits are all different, in every sequence up to three.
MCPayloads == UpTo(3, {6, 9}) \ {<<>>}

\* Numerals: every text up to two characters over some digits and marks, and
\* longer ones: with a prefix, with two marks, overflowing before the end.
MCNumerals == UpTo(2, {0, 1, 2, 3, 9, Minus, Space})
                \cup {<<0, X, 1, 0>>, <<0, X, 2, 0>>, <<0, X>>, <<Space, Minus, 3>>, <<Minus, 9, 9>>,
                      <<Minus, Minus, 1>>, <<1, 0, 1>>, <<9, 9, 0>>, <<1, Stop, 1>>, <<Plus, 1, 15>>}
MCAddresses == {<<1, d>> : d \in {0, 1, 3, 4}} \cup {<<15>>, <<1, 15>>, <<0, X, 1, 0>>}
MCSizes == {<<0>>, <<1>>, <<2>>, <<3>>, <<4>>, <<3, 0>>, <<9, 9>>, <<Minus, 1>>, <<Minus, 2>>}

\* Texts of clients that are careless: no padding, cut short, not Base64.
MCCareless == {<<7, 4>>, <<5>>, <<1, Bad>>, <<1, 2, 3, 4, 5, 6>>}
MCWritten == {Base64encode(d) : d \in {<<6>>, <<9, 6>>, <<6, 9, 6>>}} \cup {<<5>>, <<1, Bad>>}

MCRequests ==
  [op : {"read"}, at : MCNumerals, size : {<<1>>}, data : {<<>>}]
    \cup [op : {"read"}, at : {<<1, 0>>}, size : MCNumerals, data : {<<>>}]
    \cup [op : {"read"}, at : MCAddresses, size : MCSizes, data : {<<>>}]
    \cup [op : {"write"}, at : MCAddresses, size : MCSizes, data : MCWritten]
    \cup [op : {"msgbox"}, at : {<<>>}, size : MCSizes,
          data : {Base64encode(d) : d \in MCPayloads} \cup MCCareless]
=============================================================================
