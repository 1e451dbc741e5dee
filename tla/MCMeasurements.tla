--------------------------- MODULE MCMeasurements ---------------------------
(* A ring a - b - c - d with the chord a - c: between neighbours of the ring   *)
(* there are ways of one, two and three links, so that routing has something   *)
(* to compare and find_least_cong a longer path to stop at.                    *)
EXTENDS Measurements

MCNode == {"a", "b", "c", "d"}
MCLink == {{"a", "b"}, {"b", "c"}, {"c", "d"}, {"a", "d"}, {"a", "c"}}
MCLength == [l \in MCLink |-> 1]
MCPairs == {<<"a", "b">>, <<"b", "c">>}
MCPaths == {<<"a", "b">>, <<"a", "c", "b">>, <<"a", "d", "c", "b">>,
            <<"b", "c">>, <<"b", "a", "c">>, <<"b", "a", "d", "c">>}
MCBand == {"c"}
MCBandList == <<"c">>
\* Room for a wide and a narrow channel on a core, each with its guard slot.
MCBandSlots == [b \in MCBand |-> 5]
\* Core 0 and the neighbour the ring closes with.
MCForced == {0, 5} \X {None}
MCBw == {100}
MCMods ==
    [bw \in MCBw |->
        [m \in Mod |->
            CASE m = "QPSK"   -> [max_length |-> 3, slots_needed |-> 2]
              [] m = "16-QAM" -> [max_length |-> 1, slots_needed |-> 1]
              [] OTHER        -> [max_length |-> 0, slots_needed |-> 1]]]
MCLinkXt == [l \in MCLink |-> 1]
MCRequestedXt == [m \in Mod |-> IF m = "QPSK" THEN 2 ELSE 1]
=============================================================================
