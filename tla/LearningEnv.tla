----------------------------- MODULE LearningEnv -----------------------------
(***************************************************************************)
(* SimEnv, RLHelpers and _run_iters: the training of a path agent, one        *)
(* request after the other and one episode after the other, over the spectrum *)
(* of Spectrum.  The requests of every episode are the same (the seed is       *)
(* always 0); of their times only the order matters: due[r] is the request at  *)
(* whose arrival request r has departed, NumRequests + 1 for none.            *)
(* Requests are not sliced: max_segments is 1, as in the example configurations.*)
(*                                                                            *)
(* An exception ends the training (pc is "raised"): what the step had written or*)
(* had still to write then is not told apart.                                 *)
(***************************************************************************)
EXTENDS SpectrumAssignment, Routing, ChannelHelpers, LearningAgents, SequencesExt

CONSTANTS
    Routes,     \* the k_paths paths of find_k_shortest for each pair
    Configs,    \* the path_algorithm, epsilon_update, alpha_update and save_snapshots
    SnapshotStep    \* engine_props['snapshot_step']

ASSUME EnvAssumption ==
    /\ IsFiniteSet(Node) /\ Pairs \subseteq Node \X Node
    /\ \A p \in Pairs : Routes[p] = FindKShortest(p[1], p[2], KPaths) /\ Len(Routes[p]) = KPaths
    /\ \A p \in Pairs, k \in Arm : Routes[p][k] # None
    /\ PathLevels = 2
    /\ \A c \in Configs : c.save_snapshots \in BOOLEAN
    /\ SnapshotStep \in Nat \ {0}

VARIABLES
    config,              \* the sim_dict of the run
    reqs,                \* reqs_dict: pair, bandwidth and due of each request
    net,                 \* net_spec_dict
    reqs_status,         \* reqs_status_dict: the path of each request in it, or None
    iteration,           \* SimEnv.iteration
    arrival_count,       \* rl_props.arrival_count
    last_processed,      \* _last_processed_index
    chosen,              \* the pair, arm and congestion level of the last observation
    agent,               \* path_agent
    completed_episodes,  \* of _run_iters
    constructed,         \* SimEnv.__init__ has returned
    pc,                  \* what comes next
    served, given        \* history: requests as they were served, rewards as they were given

vars == <<config, reqs, net, reqs_status, iteration, arrival_count, last_processed,
          chosen, agent, completed_episodes, constructed, pc, served, given>>

ReqId == 1..NumRequests

Init ==
    /\ config \in Configs
    /\ reqs \in [ReqId -> [pair : Pairs, bandwidth : Bandwidth, due : 1..(NumRequests + 1)]]
    /\ \A r \in ReqId : reqs[r].due > r
    /\ net = EmptyNet
    /\ reqs_status = [r \in ReqId |-> None]
    /\ iteration = 0 /\ arrival_count = 0 /\ last_processed = 0
    /\ chosen = [pair |-> reqs[1].pair, arm |-> 1, level |-> 0]
    /\ agent = SetupEnv(config)
    /\ completed_episodes = 0
    /\ constructed = FALSE
    /\ pc = "reset"
    /\ served = <<>> /\ given = <<>>

Reset_KeepsIndex ==
    /\ pc = "reset"
    /\ arrival_count' = 0
    /\ net' = EmptyNet
    /\ agent' = IF iteration = 0 THEN SetupEnv(config) ELSE agent
    /\ pc' = "observe_reset"
    /\ UNCHANGED <<config, reqs, reqs_status, iteration, last_processed, chosen, completed_episodes,
                   constructed, served, given>>

\* reset: a new topology and new lists; the agent is set up while no episode is over.
\* reqs_status_dict is the engine's and stays.
Reset ==
    /\ pc = "reset"
    /\ arrival_count' = 0
    /\ last_processed' = 0
    /\ net' = EmptyNet
    /\ agent' = IF iteration = 0 THEN SetupEnv(config) ELSE agent
    /\ pc' = "observe_reset"
    /\ UNCHANGED <<config, reqs, reqs_status, iteration, chosen, completed_episodes,
                   constructed, served, given>>

-----------------------------------------------------------------------------
\* The place of a release in depart_list, which has them in the order of their times.
Position(r) == Cardinality({q \in ReqId : reqs[q].due < reqs[r].due \/ (reqs[q].due = reqs[r].due /\ q <= r)})

\* The request an observation is about, the last one when all have been served.
Current == Min({arrival_count, NumRequests - 1}) + 1

\* handle_releases: how far depart_list is processed, and the spectrum after the
\* releases from last_processed on.
Departed == {r \in ReqId : reqs[r].due <= Current}
Processed == Max({last_processed, Cardinality(Departed)})

Released ==
    LET leaving == {r \in Departed : Position(r) > last_processed /\ reqs_status[r] # None}
        release(r, n) == Release(n, r, reqs_status[r])
    IN  FoldSet(release, net, leaving)

\* _get_obs: releases, then the agent chooses a route for the request.
Observe ==
    /\ pc \in {"observe_reset", "observe_step"}
    /\ last_processed' = Processed
    /\ net' = Released
    /\ LET p == reqs[Current].pair
       IN  \E levels \in {[k \in Arm |-> ClassifyCong(FindPathCong(net', Routes[p][k]))]} :
               \E k \in GetRoute(agent, p, levels) :
                   chosen' = [pair |-> p, arm |-> k, level |-> levels[k]]
    /\ pc' = IF pc = "observe_step" THEN "loop" ELSE IF constructed THEN "step" ELSE "reset"
    /\ constructed' = TRUE
    /\ UNCHANGED <<config, reqs, reqs_status, iteration, arrival_count, agent,
                   completed_episodes, served, given>>

-----------------------------------------------------------------------------
ChosenPath == Routes[chosen.pair][chosen.arm]

\* What update_route_props forces upon a request: the chosen path and the one format
\* of its length.
ForcedMod(r) == GetPathMod(ModPerBw[reqs[r].bandwidth], FindPathLen(ChosenPath))
Forced(r) ==
    [path_list |-> ChosenPath, slots_needed |-> ModPerBw[reqs[r].bandwidth][ForcedMod(r)].slots_needed,
     forced_core |-> None, forced_index |-> None]

\* The windows handle_arrival may assign to a request: one, or none when it is blocked.
Assignments(n, r) ==
    IF ForcedMod(r) # NoMod /\ IsFree(n, Forced(r)) THEN {Assigned(n, Forced(r))} ELSE {}

\* step as far as allocate: releases once more, then the arrival.  The allocation raises
\* BufferError on a window that is not free.
Serve ==
    /\ pc = "step" /\ arrival_count < NumRequests
    /\ last_processed' = Processed
    /\ \E n \in {Released}, r \in {arrival_count + 1} :
          \E assignments \in {Assignments(n, r)} :
              IF \A window \in assignments : CanAllocate(n, ChosenPath, window)
              THEN /\ IF assignments = {} THEN net' = n /\ UNCHANGED reqs_status
                      ELSE \E window \in assignments :
                              /\ net' = Allocate(n, r, ChosenPath, window)
                              /\ reqs_status' = [reqs_status EXCEPT ![r] = ChosenPath]
                   /\ served' = Append(served, [iteration |-> iteration, id |-> r, path |-> ChosenPath,
                                               allocated |-> assignments # {}])
                   /\ pc' = "learn"
              ELSE /\ net' = n /\ pc' = "raised"
                   /\ UNCHANGED <<reqs_status, served>>
    /\ UNCHANGED <<config, reqs, iteration, arrival_count, chosen, agent,
                   completed_episodes, constructed, given>>

\* What step takes for the request having been allocated: its id is in reqs_status_dict.
WasAllocated(r) == reqs_status[r] # None

Terminated(count) == count = NumRequests

\* update_snapshots: whether one is due after the request; taking it raises TypeError, for
\* the name of a band is compared with 0.
SnapshotDue == config.save_snapshots /\ (arrival_count + 1) % SnapshotStep = 0

\* step after allocate: the agent learns, the request is counted, and with the last one
\* the episode ends.
Learn ==
    LET reward == GetReward(WasAllocated(arrival_count + 1))
        next   == ClassifyCong(FindPathCong(net, ChosenPath))
        a      == UpdateAgent(agent, chosen.pair, chosen.arm, chosen.level, next, iteration, reward)
        last   == Terminated(arrival_count + 1)
        raises == UpdateRaises(agent, iteration, reward) \/ SnapshotDue
    IN  /\ pc = "learn"
        /\ given' = Append(given, reward)
        /\ arrival_count' = IF raises THEN arrival_count ELSE arrival_count + 1
        /\ agent' = IF ~raises /\ last THEN EndAgentIter(a) ELSE a
        /\ iteration' = IF ~raises /\ last THEN iteration + 1 ELSE iteration
        /\ pc' = IF raises THEN "raised" ELSE "observe_step"
        /\ UNCHANGED <<config, reqs, net, reqs_status, last_processed, chosen,
                       completed_episodes, constructed, served>>

\* The loop of _run_iters: it is left by the step after the last reset.
Loop ==
    /\ pc = "loop"
    /\ IF completed_episodes >= MaxIters THEN pc' = "done" /\ UNCHANGED completed_episodes
       ELSE IF Terminated(arrival_count)
       THEN pc' = "reset" /\ completed_episodes' = completed_episodes + 1
       ELSE pc' = "step" /\ UNCHANGED completed_episodes
    /\ UNCHANGED <<config, reqs, net, reqs_status, iteration, arrival_count, last_processed,
                   chosen, agent, constructed, served, given>>

Ended == pc \in {"done", "raised"} /\ UNCHANGED vars

Next == Reset \/ Observe \/ Serve \/ Learn \/ Loop \/ Ended

Spec == Init /\ [][Next]_vars

\* One process that is scheduled.
FairSpec == Spec /\ WF_vars(Next)

-----------------------------------------------------------------------------
\* When a request is about to be served the spectrum holds the lightpaths that are in
\* service at its arrival and nothing else: of the requests allocated in this episode
\* those that have not departed, over the path they were served on.  The index into
\* depart_list neither misses a departure nor carries one over a reset.
HeldAreDue ==
    pc = "step" =>
        LET now == {i \in DOMAIN served : /\ served[i].iteration = iteration /\ served[i].allocated
                                          /\ reqs[served[i].id].due > arrival_count + 1}
        IN  /\ \A i \in now : {x[1] : x \in CellsOf(net, served[i].id)} = LinksOf(served[i].path)
            /\ \A x \in Cell : net[x] # 0 => \E i \in now : net[x] \in {served[i].id, -served[i].id}

\* The rewards given for requests of a pair that were served on one of its paths.
GivenFor(p, k) ==
    {i \in DOMAIN given : served[i].iteration < MaxIters /\ served[i].path = Routes[p][k]}

\* What a bandit has learned of an arm is what the requests served on that path were
\* given: their number and the mean of their rewards, over all episodes and for no other
\* pair or path.  A q-value never leaves what rewards and their discounted sum allow.
LearnedFromRewards ==
    \A p \in Pairs, k \in Arm :
        LET rewarded == Cardinality({i \in GivenFor(p, k) : given[i] = Reward})
            total    == Cardinality(GivenFor(p, k))
            within(q) == LET x == q * (DiscountFactor[2] - DiscountFactor[1])
                         IN  /\ x <= Scale * Max({Reward, 0}) * DiscountFactor[2]
                             /\ x >= Scale * Min({Penalty, 0}) * DiscountFactor[2]
        IN  IF IsBandit(agent)
            THEN /\ agent.counts[<<p, k>>] = total
                 /\ agent.values[<<p, k>>] * total = Scale * (Reward * rewarded + Penalty * (total - rewarded))
            ELSE \A i \in Level : within(agent.q_value[<<p, k, i>>])

\* Epsilon follows the history of the training, although a step more is taken after the
\* last episode and the agent is set up twice: an episodic strategy is at the place of its
\* schedule whose number is that of the episodes whose requests have all been learned
\* from; state_based is at the number of learned requests served on the last one's path,
\* twice that number when alpha, too, counts the visits; reward_based at the difference of
\* the last two rewards learned from.
EpsilonFollowsHistory ==
    LET learned  == {i \in DOMAIN given : served[i].iteration < MaxIters}
        m        == Cardinality(learned)
        episodes == m \div NumRequests
        onPath   == Cardinality({i \in learned : served[i].path = served[m].path})
        visits   == IF config.alpha_update = "state_based" /\ ~IsBandit(config) THEN 2 * onPath ELSE onPath
        change   == IF given[m] < given[m - 1] THEN given[m - 1] - given[m] ELSE given[m] - given[m - 1]
        Is(numerator, denominator) == agent.epsilon[1] * denominator = numerator * agent.epsilon[2]
    IN  pc # "raised" =>
            /\ config.epsilon_update = "linear_decay" =>
                   Is(EpsilonStart * MaxIters - episodes * (EpsilonStart - EpsilonEnd), Unit * MaxIters)
            /\ config.epsilon_update = "exp_decay" =>
                   Is(EpsilonStart * Power(DecayRate[1], episodes), Unit * Power(DecayRate[2], episodes))
            /\ config.epsilon_update = "state_based" =>
                   Is(EpsilonStart, Unit * (1 + IF m = 0 THEN 0 ELSE visits))
            /\ config.epsilon_update = "reward_based" =>
                   Is(EpsilonStart, Unit * (1 + IF m < 2 THEN 0 ELSE change))

\* A step of the training raises for a due snapshot only: the search never hands allocate a
\* window that is not free (BufferError), and PathAgent.update neither runs past the list of
\* rewards in the step after the last reset (IndexError) nor averages rows of different
\* lengths (ValueError).
OnlySnapshotsRaise == pc = "raised" => SnapshotDue

\* A training run ends after max_iters episodes, each of which has given every request
\* its reward, unless it takes snapshots and ends with the first.
TrainingEnds ==
    <>(\/ /\ pc = "done" /\ iteration = MaxIters
          /\ Len(agent.rewards) = MaxIters
          /\ \A i \in 1..MaxIters : Len(agent.rewards[i]) = NumRequests
       \/ pc = "raised" /\ config.save_snapshots)

\* get_reward, ":param was_allocated: If the request was allocated or not." (docs of
\* PathAgent.get_reward): a request is rewarded when it was allocated, penalised when not.
RewardIsDeserved ==
    \A i \in DOMAIN given : given[i] = (IF served[i].allocated THEN Reward ELSE Penalty)
=============================================================================
