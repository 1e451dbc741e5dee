------------------------------- MODULE Engine -------------------------------
(***************************************************************************)
(* Engine.run: the iterations of one simulation.  Each iteration draws       *)
(* MaxReqs requests and handles their arrivals, in the order of their ids,   *)
(* and their releases, each after its arrival, interleaved as the drawn times *)
(* fall.  The spectrum, reqs_status_dict and sdn_props live across            *)
(* iterations; the request ids start again at 1.                              *)
(***************************************************************************)
EXTENDS SdnController

CONSTANTS
    MaxIters     \* engine_props['max_iters']

ASSUME EngineAssumption == MaxIters \in Nat \ {0}

VARIABLES
    iteration,
    arrived,           \* arrivals handled or in progress in this iteration
    departed,          \* requests whose release was handled in this iteration
    reqs_dict,         \* the requests drawn so far, by id: endpoints and bandwidth
    reqs_status_dict,  \* what update_arrival_params kept of each routed request
    stats,             \* the counters of SimStats for this iteration
    served             \* auxiliary: the requests routed in this iteration

engineVars == <<iteration, arrived, departed, reqs_dict, reqs_status_dict, stats, served>>
vars == <<sdnVars, engineVars>>

\* init_iter_stats.
NoStats == [blocked_reqs |-> 0, bit_rate_blocked |-> 0, bit_rate_request |-> 0,
            total_trans |-> 0, mods_used |-> 0]

\* dict.update with one key.
Put(dict, key, value) ==
    [k \in DOMAIN dict \union {key} |-> IF k = key THEN value ELSE dict[k]]

\* The requests that were routed and have not left yet.
Active == served \ departed

Init ==
    /\ InitController
    /\ iteration = 0
    /\ arrived = 0
    /\ departed = {}
    /\ reqs_dict = <<>>
    /\ reqs_status_dict = <<>>
    /\ stats = NoStats
    /\ served = {}

-----------------------------------------------------------------------------
MoreArrivals_OneTooMany == arrived <= MaxReqs
MoreArrivals == arrived < MaxReqs

\* handle_arrival up to its call of handle_event.  The generator draws the endpoints
\* and the bandwidth of every request; they are drawn here when it arrives.
HandleArrival ==
    /\ MoreArrivals
    /\ \E sd \in DOMAIN Routes, bw \in Bandwidth :
         /\ StartArrival(arrived + 1, sd, bw)
         /\ reqs_dict' = Put(reqs_dict, arrived + 1, [endpoints |-> sd, bandwidth |-> bw])
    /\ arrived' = arrived + 1
    /\ UNCHANGED <<iteration, departed, reqs_status_dict, stats, served>>

ControllerStep == HandleEvent /\ UNCHANGED engineVars

\* update_arrival_params and iter_update of a blocked request.
CountBlocked ==
    /\ pc = "returned" /\ ~was_routed
    /\ stats' = [stats EXCEPT !.blocked_reqs = @ + 1,
                              !.bit_rate_blocked = @ + bandwidth,
                              !.bit_rate_request = @ + bandwidth]
    /\ pc' = "idle"
    /\ UNCHANGED <<net, req_id, bandwidth, path_list, was_routed, is_sliced, num_trans,
                   block_reason, segments, frame>>
    /\ UNCHANGED <<iteration, arrived, departed, reqs_dict, reqs_status_dict, served>>

\* The same for a routed one.  modulation_list[0] raises IndexError when nothing was
\* allocated, and mods_used_dict has no key for a bandwidth it was not set up with.
CanCount == segments # <<>> /\ \A i \in DOMAIN segments : segments[i].bandwidth \in Bandwidth

CountRouted ==
    /\ pc = "returned" /\ was_routed
    /\ pc' = IF CanCount THEN "idle" ELSE "crashed"
    /\ stats' = [stats EXCEPT !.bit_rate_request = @ + bandwidth,
                              !.total_trans = @ + num_trans,
                              !.mods_used = @ + Len(segments)]
    /\ IF CanCount
       THEN /\ reqs_status_dict' = Put(reqs_status_dict, req_id,
                                       [path |-> path_list, segments |-> segments])
            /\ served' = served \union {req_id}
       ELSE UNCHANGED <<reqs_status_dict, served>>
    /\ UNCHANGED <<net, req_id, bandwidth, path_list, was_routed, is_sliced, num_trans,
                   block_reason, segments, frame>>
    /\ UNCHANGED <<iteration, arrived, departed, reqs_dict>>

\* handle_release.  The entry may have been left by an earlier iteration.
HandleRelease(r) ==
    /\ pc = "idle"
    /\ r \in 1..arrived /\ r \notin departed
    /\ IF r \in DOMAIN reqs_status_dict
       THEN ReleaseEvent(r, reqs_dict[r].bandwidth, reqs_status_dict[r].path)
       ELSE /\ req_id' = r
            /\ bandwidth' = reqs_dict[r].bandwidth
            /\ UNCHANGED <<net, path_list, was_routed, is_sliced, num_trans, block_reason,
                           segments, pc, frame>>
    /\ departed' = departed \union {r}
    /\ UNCHANGED <<iteration, arrived, reqs_dict, reqs_status_dict, stats, served>>

-----------------------------------------------------------------------------
IterationOver == pc = "idle" /\ arrived = MaxReqs /\ departed = ReqId

InitIterStats_Kept == stats
InitIterStats == NoStats

\* end_iter, then init_iter of the next iteration: new requests and new statistics, the
\* spectrum and reqs_status_dict as they are.
NextIteration ==
    /\ IterationOver
    /\ iteration + 1 < MaxIters
    /\ iteration' = iteration + 1
    /\ arrived' = 0
    /\ departed' = {}
    /\ reqs_dict' = <<>>
    /\ stats' = InitIterStats
    /\ served' = {}
    /\ UNCHANGED <<sdnVars, reqs_status_dict>>

\* The last iteration, or from the second one on the confidence interval may end it.
Finish ==
    /\ IterationOver
    /\ iteration + 1 = MaxIters \/ iteration > 0
    /\ pc' = "done"
    /\ UNCHANGED <<net, req_id, bandwidth, path_list, was_routed, is_sliced, num_trans,
                   block_reason, segments, frame, engineVars>>

\* The process is over: it returned, or an exception ended it.
Ended == pc \in {"done", "crashed"} /\ UNCHANGED vars

Next ==
    \/ HandleArrival
    \/ ControllerStep
    \/ CountBlocked \/ CountRouted
    \/ \E r \in ReqId : HandleRelease(r)
    \/ NextIteration \/ Finish
    \/ Ended

Spec == Init /\ [][Next]_vars

\* run is one thread that never waits.
FairSpec == Spec /\ WF_vars(Next)
=============================================================================
