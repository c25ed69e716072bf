-------------------------------- MODULE MCPure --------------------------------
(* An instance of Calls for TLC.                                             *)
EXTENDS Calls

MCCursors == {[ptr |-> [i \in 1..size |-> i], offset |-> offset] :
                <<size, offset>> \in {p \in (0..4) \X (0..4) : p[2] <= p[1]}}
MCDistances == 0..5 \cup (SizeMod - 5)..(SizeMod - 1)

L(n) == <<0, 0, 0, n>>
H(n) == <<128, 0, 0, n>>
Big == {<<0, 16, 0, 0>>, <<0, 16, 0, 1>>, <<127, 255, 255, 255>>, <<255, 255, 255, 255>>}

MCPaths == {<<>>, <<H(44)>>, <<H(44), <<128, 0, 1, 24>>, H(0)>>}
         \cup {<<H(44), <<128, 0, 1, 24>>, H(0), c>> : c \in {L(0), L(1), L(2), H(0), H(1)}}
         \cup {<<<<255, 255, 255, 255>>, a, a, c, i>> :
                 a \in {L(0), <<255, 255, 255, 255>>}, c \in {L(1), L(2)}, i \in {L(0), L(9), H(0)} \cup Big}

Entries == {[index |-> i, path |-> p] : i \in {0, 128, 255}, p \in MCPaths}
MCChangeLists == {<<>>} \cup {<<e>> : e \in Entries}
               \cup {<<e, [index |-> 1, path |-> <<H(44), L(7)>>], [index |-> 1, path |-> <<>>]>> : e \in Entries}
               \cup {[k \in 1..n |-> [index |-> k, path |-> <<L(k)>>]] : n \in {10, 11, 12}}

MCRests == {<<0, 1, 2, 3, 4>>, <<1, 0, 255, 0, 255, 7, 8>>}

Sample == <<1, 2, 3, 4, 5, 6, 7, 8, 9, 0, 1, 2, 3, 4, 5, 6, 7, 8, 9>>
TwoTo(k) == [i \in 1..8 |-> IF i = 8 - k \div 8 THEN 2 ^ (k % 8) ELSE 0]
MCAmounts == {FromDigits([i \in 1..k |-> 9]) : k \in 0..18}
           \cup {FromDigits([i \in 1..k |-> IF i = 1 THEN 1 ELSE 0]) : k \in 1..19}
           \cup {FromDigits(SubSeq(Sample, 1, k)) : k \in 1..18}
           \cup {TwoTo(k) : k \in {0, 7, 8, 15, 16, 23, 30, 31, 32, 62, 63}}
MCSymbolLengths == 1..5

Hash(seed) == [i \in 1..20 |-> (seed * i) % 256]
HostOutputs == {[value |-> n, token_data |-> d, len |-> <<0, 25>>, script |-> Script(Hash(7))] :
                  n \in MCAmounts, d \in {0, 129}}
FaultyOutputs == {[value |-> n, token_data |-> 0, len |-> l, script |-> s] :
                    n \in {TwoTo(0), TwoTo(40)},
                    l \in {<<0, 24>>, <<1, 25>>, <<0, 25>>},
                    s \in {[Script(Hash(3)) EXCEPT ![k] = 0] : k \in {1, 2, 3, 24, 25}}}
MCOutputs == HostOutputs \cup FaultyOutputs

MCTokenData == {[version |-> 1, uid |-> [i \in 1..32 |-> i], symbol |-> s, name |-> n] :
                 s \in {<<>>, <<72>>, <<72, 84, 82, 32, 127>>, <<31>>, <<128>>, <<65, 0, 200>>, <<1, 2, 3, 4, 5, 6>>},
                 n \in {<<65>>, [i \in 1..30 |-> 65], [i \in 1..31 |-> 65]}}

Address(version, tail) == <<version>> \o tail
MCAddresses == {Address(v, [i \in 1..24 |-> b]) : v \in {40, 73}, b \in {0, 1, 57, 58, 127, 255}}
             \cup {Address(v, [i \in 1..24 |-> (a * i + 11) % 256]) : v \in {40, 73}, a \in 1..20}
             \cup {Address(40, [i \in 1..24 |-> IF i = k THEN 255 ELSE 0]) : k \in 1..24}
             \cup {s \o <<x, y>> : s \in {<<>>, <<0>>, <<255, 255>>}, x, y \in {0, 1, 57, 58, 255}}

Indices == 0..4
MCIndexLists == UNION {[1..n -> Indices] : n \in 0..3} \cup {<<254, 3, 253>>}
MCReviews == {Review(display, confirmed, buffered, total) :
                display, buffered \in 0..3, confirmed, total \in 0..5}

===============================================================================
