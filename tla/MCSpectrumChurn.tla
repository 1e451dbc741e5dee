-------------------------- MODULE MCSpectrumChurn ---------------------------
(* A line a - b - c: two one-link paths that share nothing and the path over  *)
(* both links, so that a window free on the first link may be taken on the    *)
(* second.                                                                    *)
EXTENDS SpectrumChurn

MCNode == {"a", "b", "c"}
MCLink == {{"a", "b"}, {"b", "c"}}
MCPaths == {<<"a", "b">>, <<"b", "c">>, <<"a", "b", "c">>}
SecondLinkPaths == {<<"b", "c">>, <<"a", "b", "c">>}

Unforced == {<<None, None>>}
CoreOrIndex == Unforced \union {<<None, 2>>, <<1, None>>, <<1, 0>>}

OneBand == {"c"}
OneBandList == <<"c">>
OneBandSlots == [b \in OneBand |-> 7]

TwoBands == {"c", "l"}
TwoBandList == <<"c", "l">>
TwoBandSlots == [b \in TwoBands |-> IF b = "c" THEN 2 ELSE 3]
=============================================================================
