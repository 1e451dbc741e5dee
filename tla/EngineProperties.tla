-------------------------- MODULE EngineProperties --------------------------
(***************************************************************************)
(* What Engine, the controller and the spectrum must do together.            *)
(***************************************************************************)
EXTENDS Engine, Functions

\* The request being handled may hold slots: between two segments, and from its last
\* allocation until update_arrival_params takes note of it.
InProgress == pc \in {"segments", "lightpaths", "crashed"} \/ (pc = "returned" /\ was_routed)

Holders == Active \union (IF InProgress THEN {req_id} ELSE {})

PathOf(r) == IF InProgress /\ r = req_id THEN path_list ELSE reqs_status_dict[r].path

\* The cells a sequence of segments stands for, with the value they must hold.
DataCells(path, segs) ==
    UNION {LinksOf(path) \X {segs[i].window.curr_band} \X {segs[i].window.core_num}
                         \X DataSlots(segs[i].window) : i \in DOMAIN segs}
GuardCells(path, segs) ==
    UNION {LinksOf(path) \X {segs[i].window.curr_band} \X {segs[i].window.core_num}
                         \X GuardSlotsOf(segs[i].window) : i \in DOMAIN segs}

\* The segments of the attempt that succeeded: as many as there are transponders, or
\* none when nothing was tried (see RoutedHoldsSlots).
Plan == IF num_trans > Len(segments) THEN segments
        ELSE SubSeq(segments, Len(segments) - num_trans + 1, Len(segments))

Total(f) == SumFunction(f)
Routed == pc = "returned" /\ was_routed
Blocked == pc = "returned" /\ ~was_routed

-----------------------------------------------------------------------------
Frame == [routes : Seq(Seq(Node)), path_index : Nat, segment_slicing : BOOLEAN,
          force_slicing : BOOLEAN, forced_segments : Int, slices : SUBSET Bandwidth,
          slice : Nat, remaining : Int]

SdnTypeOK ==
    /\ net \in [Cell -> Int]
    /\ req_id \in 0..MaxReqs
    /\ bandwidth \in Bandwidth \union {0}
    /\ path_list \in Seq(Node)
    /\ was_routed \in BOOLEAN /\ is_sliced \in BOOLEAN
    /\ num_trans \in Nat
    /\ block_reason \in Reason
    /\ segments \in Seq([bandwidth : Nat, window : WindowType])
    /\ pc \in {"idle", "path", "slices", "segments", "lightpaths", "returned", "done", "crashed"}
    /\ frame \in Frame

EngineTypeOK ==
    /\ iteration \in 0..(MaxIters - 1)
    /\ arrived \in 0..MaxReqs
    /\ departed \subseteq 1..arrived
    /\ served \subseteq 1..arrived
    /\ DOMAIN reqs_dict = 1..arrived
    /\ DOMAIN reqs_status_dict \subseteq ReqId

\* Every attribute holds a value the code could have put there.
TypeOK == SdnTypeOK /\ EngineTypeOK

\* An occupied slot always belongs to a request that was routed and has not left, or
\* to the one being handled, and lies on the path release will walk for that request.
\* So no failed slicing attempt, blocked request or reused id of an earlier iteration
\* leaves a slot behind that nobody would free.
SlotsHaveOwners ==
    \A x \in Cell : net[x] # 0 =>
        \E r \in Holders : net[x] \in {r, -r} /\ x[1] \in LinksOf(PathOf(r))

\* The spectrum is never reset between iterations, so it must be empty on its own when
\* the last request of an iteration has left.
IterationsEndEmpty == IterationOver => net = EmptyNet

\* The search and allocate agree on what is free, through every fragmentation and every
\* partly placed request: no run of the simulation ends in an exception.
NeverCrashes == pc # "crashed"

\* A routed request holds exactly the slots of its plan, data and guard, on every link
\* of its path and nowhere else: attempts that failed before left none of theirs.
HoldsItsPlan ==
    Routed =>
        /\ {x \in Cell : net[x] = req_id}  = DataCells(path_list, Plan)
        /\ {x \in Cell : net[x] = -req_id} = GuardCells(path_list, Plan)
        /\ path_list \in {Routes[reqs_dict[req_id].endpoints][i] :
                             i \in DOMAIN Routes[reqs_dict[req_id].endpoints]}

\* The plan of a routed request adds up to at least the bandwidth it asked for.
PlanCarriesBandwidth ==
    Routed => Total([i \in DOMAIN Plan |-> Plan[i].bandwidth]) >= bandwidth

\* With a model deployed, a sliced request has as many segments as the model predicted
\* on one of its paths: no other division is tried, however free the spectrum.
SlicesAsPredicted ==
    Routed /\ is_sliced /\ -1 \notin Predictions => num_trans \in Predictions

\* A request is only blocked when none of its routes has room for it unsliced in the
\* format its length allows; handling the routes one by one misses none.
BlockedOnlyWithoutRoom ==
    Blocked /\ ~SnrChecked /\ (\A f \in Predictions : f <= 1) =>
        LET routes == Routes[reqs_dict[req_id].endpoints]
        IN  \A i \in DOMAIN routes :
              LET mods == ModFormats(routes[i], bandwidth)
              IN  \A j \in DOMAIN mods : mods[j] # NoMod =>
                    ~HasRoom(net, routes[i], IF FixedGrid THEN 1
                                             ELSE ModPerBw[bandwidth][mods[j]].slots_needed)

\* Between two events the counters of SimStats agree with what happened to each
\* request: who was blocked, and whose bandwidth was asked for and refused.
BlockingIsCounted ==
    pc = "idle" =>
        LET asked(S) == Total([r \in S |-> reqs_dict[r].bandwidth])
        IN  /\ stats.blocked_reqs = Cardinality((1..arrived) \ served)
            /\ stats.bit_rate_request = asked(1..arrived)
            /\ stats.bit_rate_blocked = asked((1..arrived) \ served)

\* Once routed, a request keeps its very slots, data as data and guard as guard, until
\* its own release: no other arrival, retry or release touches them.
HeldUntilRelease ==
    [][\A r \in Active \intersect Active' : \A x \in Cell :
          net[x] \in {r, -r} \/ net'[x] \in {r, -r} => net'[x] = net[x]]_vars

\* The run ends: the rounds over routes, bandwidths and segments all come to an end,
\* and every request of every iteration arrives and leaves.
Terminates == <>(pc \in {"done", "crashed"})

\* The lightpaths, seen from outside: those of the active requests, with the channels
\* they hold on any link of their path.
ChannelsOf(r) ==
    {<<x[2], x[3], x[4]>> : x \in {y \in Cell : /\ net[y] \in {r, -r}
                                              /\ y[1] \in LinksOf(PathOf(r))}}
RoutePaths == UNION {{Routes[sd][i] : i \in DOMAIN Routes[sd]} : sd \in DOMAIN Routes}
Channels == {<<x[2], x[3], x[4]>> : x \in Cell}
Overlap(p, q) == LinksOf(p) \intersect LinksOf(q) # {}

Lightpaths == [r \in ReqId |-> IF r \in Active
                             THEN [path |-> PathOf(r), channels |-> ChannelsOf(r)] ELSE None]

\* None, which stands for no lightpath, is not a lightpath.
ASSUME DarkAssumption == None \notin [path : RoutePaths, channels : SUBSET Channels]

Service == INSTANCE LightpathService WITH
    Req <- ReqId, Path <- RoutePaths, Channel <- Channels, SharesLink <- Overlap,
    Dark <- None, lit <- Lightpaths

\* The engine implements the service: each of its steps connects one lightpath on
\* channels no other holds on a shared link, disconnects one, or changes none.
ImplementsService == Service!Spec

-----------------------------------------------------------------------------
(* What the documentation says of sdn_props, checked by the run that expects a *)
(* violation.                                                                  *)

\* was_routed: "If the request was successfully routed or not" (docs/args/sdn_args.rst).
RoutedHoldsSlots == Routed => CellsOf(net, req_id) # {}
=============================================================================
