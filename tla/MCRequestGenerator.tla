------------------------ MODULE MCRequestGenerator --------------------------
(* Four requests: shares that come out even, a bandwidth nobody asks for, and *)
(* thirds, whose counts truncate and do not add up.                            *)
EXTENDS RequestGenerator

Share(x) == [b \in Bandwidth |-> IF b = 50 THEN x ELSE 100 - x]
Shares == {Share(25), Share(100), Share(33)}
=============================================================================
