------------------------------ MODULE MCEngine ------------------------------
(* A triangle a - b - c in which the way round is shorter than the direct     *)
(* link: the first route from a to c has two links, the second one.           *)
EXTENDS EngineProperties

Triangle == {"a", "b", "c"}
TriangleLinks == {{"a", "b"}, {"b", "c"}, {"a", "c"}}
TriangleLength == [l \in TriangleLinks |-> IF l = {"a", "c"} THEN 3 ELSE 1]

Pairs == {<<"a", "c">>, <<"b", "a">>}
TwoRoutes == [sd \in Pairs |-> FindKShortest(sd[1], sd[2], 2)]

\* A file of precomputed paths, each connection stored in one of its directions.
PathFile == <<<<<<"b", "c">>, <<"b", "a", "c">>>>,
              <<<<"a", "b">>, <<"a", "c", "b">>>>,
              <<<<"a", "b", "c">>, <<"a", "c">>>>>>
ExternalRoute == [sd \in Pairs |-> LoadKShortest(PathFile, sd[1], sd[2], 1)]

OnePair == [sd \in {<<"a", "c">>} |-> FindKShortest(sd[1], sd[2], 2)]

OneBand == {"c"}
OneBandList == <<"c">>
FourSlots == [b \in OneBand |-> 4]
SixSlots == [b \in OneBand |-> 6]
TwoBands == {"c", "l"}
TwoBandList == <<"c", "l">>
TwoBandSlots == [b \in TwoBands |-> IF b = "c" THEN 2 ELSE 3]

Reach(q, sq, h, sh, x, sx) ==
    [m \in Mod |-> CASE m = "QPSK"   -> [max_length |-> q, slots_needed |-> sq]
                     [] m = "16-QAM" -> [max_length |-> h, slots_needed |-> sh]
                     [] m = "64-QAM" -> [max_length |-> x, slots_needed |-> sx]]

\* Denser formats need fewer slots and reach less far; more bandwidth reaches less far.
Formats(b) ==
    CASE b = 25  -> Reach(5, 1, 3, 1, 1, 1)
      [] b = 50  -> Reach(4, 2, 2, 1, 1, 1)
      [] b = 100 -> Reach(3, 4, 2, 3, 1, 2)

Bw2 == {50, 100}
Bw3 == {25, 50, 100}
Mods2 == [b \in Bw2 |-> Formats(b)]
Mods3 == [b \in Bw3 |-> Formats(b)]
NoModel == {-1}
OneOrFour == {1, 4}
=============================================================================
