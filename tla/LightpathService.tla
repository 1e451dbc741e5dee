-------------------------- MODULE LightpathService --------------------------
(***************************************************************************)
(* What the controller promises: a set of lightpaths.  A lightpath has a     *)
(* path and a set of channels (slots of a core and band), which it holds on  *)
(* every link of the path, alone, from the moment it is connected until it   *)
(* is disconnected.  Nothing is said of how channels are found.              *)
(***************************************************************************)
CONSTANTS
    Req,            \* lightpaths are named by their request
    Path,           \* the paths a lightpath may take
    Channel,        \* the channels of a link
    SharesLink(_, _),\* whether two paths have a link in common
    Dark            \* no lightpath

VARIABLE lit

Init == lit = [r \in Req |-> Dark]

Connect(r) ==
    /\ lit[r] = Dark
    /\ \E p \in Path, C \in (SUBSET Channel) \ {{}} :
         /\ lit' = [lit EXCEPT ![r] = [path |-> p, channels |-> C]]
         /\ \A q \in Req \ {r} : lit[q] # Dark /\ SharesLink(lit[q].path, p) =>
                lit[q].channels \intersect C = {}

Disconnect(r) == lit[r] # Dark /\ lit' = [lit EXCEPT ![r] = Dark]

Next == \E r \in Req : Connect(r) \/ Disconnect(r)

Spec == Init /\ [][Next]_lit
=============================================================================
