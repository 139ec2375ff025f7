----------------------------- MODULE MCLz4HC -----------------------------
(* The long texts repeat three parts of a word before the word itself, so   *)
(* that its matches overlap each other; the pieces of a stream repeat parts *)
(* of the dictionary and of each other, and runs that go over their ends.   *)
EXTENDS Lz4HC

Part(p) == [k \in 1..(p[2] - p[1]) |-> p[1] + k]
Run(n) == [k \in 1..n |-> 0]
Trailer == <<0, 0, 1>> \o [k \in 1..9 |-> 14]

Woven(a, b, c) == Part(a) \o Run(1) \o Part(b) \o Run(1) \o Part(c) \o Run(1)

Job(texts, rooms) == [text : texts, room : rooms]

MCJobs ==
    Job({Woven(a, b, c) \o Part(<<0, n>>) \o Trailer :
           a \in {<<0, 4>>, <<2, 8>>, <<7, 13>>, <<1, 8>>}, b \in {<<4, 9>>, <<0, 4>>, <<7, 12>>, <<4, 12>>},
           c \in {<<7, 12>>, <<5, 10>>, <<2, 10>>, <<4, 9>>, <<7, 13>>, <<3, 11>>}, n \in {12, 13}},
        {80})
    \union
    Job({Woven(<<6, 12>>, <<0, 6>>, <<3, 11>>) \o Part(<<0, 12>>) \o Trailer,
         Woven(<<2, 8>>, <<1, 5>>, <<6, 12>>) \o Part(<<0, 12>>) \o Trailer,
         Woven(<<2, 8>>, <<0, 4>>, <<5, 10>>) \o Part(<<0, 12>>) \o Trailer,
         Part(<<0, 4>>) \o Run(3) \o <<9>> \o Run(8) \o Part(<<0, 4>>) \o Run(9) \o Trailer,
         <<1>> \o Run(40), Run(12)}, {1, 11} \union 13..50)

MCPieces ==
    Job({Run(3), Run(6) \o <<9>> \o Run(8) \o Part(<<0, 7>>) \o Run(5),
         Run(6) \o <<9>> \o Run(10) \o Trailer}, {80})
    \union Job({Run(3) \o Part(<<0, 13>>) \o Trailer}, {20, 80})
MCDictTexts == {Run(3), Run(5) \o Woven(<<1, 8>>, <<0, 4>>, <<5, 10>>) \o Run(5)}
MCSlots == {1, 28, 60}
=============================================================================
