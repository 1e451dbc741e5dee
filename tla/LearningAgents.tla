--------------------------- MODULE LearningAgents ---------------------------
(***************************************************************************)
(* PathAgent, its HyperparamConfig and the algorithms it trains: the two     *)
(* bandits and the Q-learning table of routes.  An agent is one record, an    *)
(* operation on it a record with some fields changed.  An arm is the index of *)
(* a path.  Values and q-values are integers, in units of 1 / Scale; epsilon, *)
(* alpha and the discount are pairs <<numerator, denominator>>.               *)
(***************************************************************************)
EXTENDS Integers, Sequences, FiniteSets

CONSTANTS
    Pairs,          \* the <<source, destination>> requests have
    KPaths,         \* engine_props['k_paths']
    PathLevels,     \* engine_props['path_levels']
    MaxIters,       \* engine_props['max_iters']
    NumRequests,    \* engine_props['num_requests']
    Reward, Penalty,
    Unit,           \* epsilon and alpha start and end are given in units of 1 / Unit
    EpsilonStart, EpsilonEnd, AlphaStart, AlphaEnd,
    DecayRate, DiscountFactor,
    Scale

ASSUME AgentsAssumption ==
    /\ {KPaths, PathLevels, MaxIters, Unit, Scale} \subseteq Nat \ {0}
    /\ NumRequests \in Nat /\ NumRequests >= 2
    /\ {Reward, Penalty} \subseteq Int /\ Penalty < Reward
    /\ {EpsilonStart, EpsilonEnd, AlphaStart, AlphaEnd} \subseteq Nat
    /\ EpsilonEnd <= EpsilonStart /\ AlphaEnd <= AlphaStart
    /\ {DecayRate, DiscountFactor} \subseteq Nat \X (Nat \ {0})

EpisodicStrategies == {"exp_decay", "linear_decay"}
Arm == 1..KPaths
Level == 0..(PathLevels - 1)
IsBandit(a) == a.path_algorithm # "q_learning"

-----------------------------------------------------------------------------
\* HyperparamConfig, made from the options epsilon_update and alpha_update of config.
HyperparamConfig(config) ==
    [epsilon_update |-> config.epsilon_update, alpha_update |-> config.alpha_update,
     iteration      |-> 0,
     epsilon        |-> <<EpsilonStart, Unit>>, alpha |-> <<AlphaStart, Unit>>,
     reward_list    |-> <<>>,
     visits         |-> [x \in Pairs \X Arm |-> 0]]

\* get_q_table: the counts, or the values, of every arm.
GetQTable == [x \in Pairs \X Arm |-> 0]

\* The routes_matrix of QLearningHelpers.setup_env.
RoutesMatrix == [x \in Pairs \X Arm \X Level |-> 0]

\* PathAgent.setup_env, with both kinds of algorithm and the attributes of hyperparam_obj.
SetupEnv(config) ==
    LET h == HyperparamConfig(config)
    IN  [path_algorithm |-> config.path_algorithm,
         counts         |-> GetQTable,
         values         |-> GetQTable,
         q_value        |-> RoutesMatrix,
         rewards        |-> <<>>,
         completed_sim  |-> FALSE,
         epsilon_update |-> h.epsilon_update, alpha_update |-> h.alpha_update,
         iteration      |-> h.iteration,
         epsilon        |-> h.epsilon, alpha |-> h.alpha,
         reward_list    |-> h.reward_list,
         visits         |-> h.visits]

FullyEpisodic(a) == {a.epsilon_update, a.alpha_update} \subseteq EpisodicStrategies

\* base ** n: tables of powers, so that theorems can be proved about them.
Power(base, n) ==
    LET power[i \in 0..n] == IF i = 0 THEN 1 ELSE base * power[i - 1] IN power[n]

\* _linear_eps, _exp_eps and the same of alpha.
Decayed_ReachesEndEarly(strategy, start, end, i) ==
    IF strategy = "exp_decay" THEN <<start * Power(DecayRate[1], i), Unit * Power(DecayRate[2], i)>>
    ELSE <<end * MaxIters + (start - end) * (MaxIters - 1 - i), Unit * MaxIters>>

Decayed(strategy, start, end, i) ==
    IF strategy = "exp_decay" THEN <<start * Power(DecayRate[1], i), Unit * Power(DecayRate[2], i)>>
    ELSE <<end * MaxIters + (start - end) * (MaxIters - i), Unit * MaxIters>>

DecayEps(a) == Decayed(a.epsilon_update, EpsilonStart, EpsilonEnd, a.iteration)
DecayAlpha(a) == Decayed(a.alpha_update, AlphaStart, AlphaEnd, a.iteration)

\* _reward_based_eps and _reward_based_alpha.
ByReward(old, start, rewards) ==
    IF Len(rewards) # 2 THEN old
    ELSE <<start, Unit * (1 + (IF rewards[1] < rewards[2] THEN rewards[2] - rewards[1]
                                                          ELSE rewards[1] - rewards[2]))>>

\* _state_based_alpha and _state_based_eps: each of them counts a visit, so a step is
\* counted twice when both strategies are state_based; the start of alpha is not used.
VisitAlpha(a, p, k) ==
    LET n == a.visits[<<p, k>>] + 1
    IN  [a EXCEPT !.visits[<<p, k>>] = n, !.alpha = <<1, 1 + n>>]

VisitEps(a, p, k) ==
    LET n == a.visits[<<p, k>>] + 1
    IN  [a EXCEPT !.visits[<<p, k>>] = n, !.epsilon = <<EpsilonStart, Unit * (1 + n)>>]

\* update_timestep_data: the last two rewards, the current one first.
UpdateTimestepData(a, reward) ==
    [a EXCEPT !.reward_list = <<reward>> \o (IF @ = <<>> THEN @ ELSE <<Head(@)>>)]

AdaptAlpha(a, p, k) ==
    IF a.alpha_update \in EpisodicStrategies \/ IsBandit(a) THEN a
    ELSE IF a.alpha_update = "state_based" THEN VisitAlpha(a, p, k)
    ELSE [a EXCEPT !.alpha = ByReward(@, AlphaStart, a.reward_list)]

AdaptEps(a, p, k) ==
    IF a.epsilon_update \in EpisodicStrategies THEN a
    ELSE IF a.epsilon_update = "state_based" THEN VisitEps(a, p, k)
    ELSE [a EXCEPT !.epsilon = ByReward(@, EpsilonStart, a.reward_list)]

\* _handle_hyperparams.
HandleHyperparams(a, p, k, reward) ==
    LET b == IF FullyEpisodic(a) THEN a ELSE UpdateTimestepData(a, reward)
    IN  AdaptEps(AdaptAlpha(b, p, k), p, k)

\* end_iter.
EndAgentIter(a) ==
    LET b == [a EXCEPT !.iteration = @ + 1]
        c == IF b.alpha_update \in EpisodicStrategies /\ ~IsBandit(b)
             THEN [b EXCEPT !.alpha = DecayAlpha(b)] ELSE b
    IN  IF c.epsilon_update \in EpisodicStrategies THEN [c EXCEPT !.epsilon = DecayEps(c)] ELSE c

-----------------------------------------------------------------------------
\* get_reward.
GetReward(was_allocated) == IF was_allocated THEN Reward ELSE Penalty

\* A reward under the episode it was received in: rewards_matrix of a bandit, the
\* rewards of rewards_dict of Q-learning.
Record(rows, episode, reward) ==
    IF episode >= Len(rows) THEN Append(rows, <<reward>>)
    ELSE [rows EXCEPT ![episode + 1] = Append(@, reward)]

UpdateBandit_NoBaseline(a, p, k, episode, reward) ==
    LET n == a.counts[<<p, k>>] + 1
    IN  [a EXCEPT !.counts[<<p, k>>] = n,
                  !.values[<<p, k>>] = @ + (Scale * reward) \div n,
                  !.rewards = Record(@, episode, reward)]

\* _update_bandit: the count and the running mean of an arm.
UpdateBandit(a, p, k, episode, reward) ==
    LET n == a.counts[<<p, k>>] + 1
    IN  [a EXCEPT !.counts[<<p, k>>] = n,
                  !.values[<<p, k>>] = @ + (Scale * reward - @) \div n,
                  !.rewards = Record(@, episode, reward)]

\* update_routes_matrix: the q-value of the level the path was at when it was chosen,
\* from the reward and the q-value of the level it is at now.
NewQ(a, p, k, level, next, reward) ==
    LET delta == Scale * reward + (DiscountFactor[1] * a.q_value[<<p, k, next>>]) \div DiscountFactor[2]
    IN  ((a.alpha[2] - a.alpha[1]) * a.q_value[<<p, k, level>>] + a.alpha[1] * delta) \div a.alpha[2]

\* update_q_stats and _calc_q_averages: after the last reward of the last episode the
\* table of rewards gives way to its averages.
Completes(rows, episode) == episode = MaxIters - 1 /\ Len(rows[episode + 1]) = NumRequests

UpdateRoutesMatrix(a, p, k, level, next, episode, reward) ==
    LET rows == Record(a.rewards, episode, reward)
        b    == [a EXCEPT !.q_value[<<p, k, level>>] = NewQ(a, p, k, level, next, reward)]
    IN  IF a.completed_sim THEN b
        ELSE [b EXCEPT !.rewards = rows, !.completed_sim = Completes(rows, episode)]

Trains_OneMore(a) == a.iteration <= MaxIters
Trains_OneLess(a) == a.iteration < MaxIters - 1

\* PathAgent.update returns at once when every episode of the training is over.
Trains(a) == a.iteration < MaxIters

UpdateAgent(a, p, k, level, next, episode, reward) ==
    LET b == HandleHyperparams(a, p, k, reward)
    IN  IF ~Trains(a) THEN a
        ELSE IF IsBandit(a) THEN UpdateBandit(b, p, k, episode, reward)
        ELSE UpdateRoutesMatrix(b, p, k, level, next, episode, reward)

\* The mean over episodes that save_model and calc_matrix_stats take needs rows that are
\* all as long.
Rectangular(rows) == \A i, j \in DOMAIN rows : Len(rows[i]) = Len(rows[j])

SavesModel(a, episode, reward) ==
    LET rows == Record(a.rewards, episode, reward)
    IN  /\ Trains(a) /\ ~a.completed_sim
        /\ episode \in {MaxIters - 1, (MaxIters - 1) % (IF IsBandit(a) THEN 50 ELSE 10)}
        /\ Len(rows[episode + 1]) = NumRequests

\* update raises: reward_penalty_list has one entry for each episode.
UpdateRaises(a, episode, reward) ==
    /\ Trains(a)
    /\ \/ a.iteration >= MaxIters
       \/ SavesModel(a, episode, reward) /\ ~Rectangular(Record(a.rewards, episode, reward))

-----------------------------------------------------------------------------
\* The first arm of greatest value, as the set that has it alone.
ArgMax(f) == {k \in Arm : \A j \in Arm : f[j] < f[k] \/ (f[j] = f[k] /\ k <= j)}

\* UCB takes arms that were never taken first; what comes after is not modelled, its
\* values being irrational: any arm.
UcbArms(a, p) ==
    LET untried == {k \in Arm : a.counts[<<p, k>>] = 0}
    IN  IF untried = {} THEN Arm ELSE {k \in untried : \A j \in untried : k <= j}

\* An algorithm explores any arm while epsilon is above 0, and else takes the best.
Explored(a) == IF a.epsilon[1] > 0 THEN Arm ELSE {}

\* _bandit_route.
BanditRoute(a, p) ==
    IF a.path_algorithm = "ucb_bandit" THEN UcbArms(a, p)
    ELSE ArgMax([k \in Arm |-> a.values[<<p, k>>]]) \union Explored(a)

\* _ql_route: the q-value of a path is that of its congestion level.
QlRoute(a, p, levels) ==
    ArgMax([k \in Arm |-> a.q_value[<<p, k, levels[k]>>]]) \union Explored(a)

\* The arms get_route may choose; levels are the congestion levels of the paths.
GetRoute(a, p, levels) == IF IsBandit(a) THEN BanditRoute(a, p) ELSE QlRoute(a, p, levels)
=============================================================================
