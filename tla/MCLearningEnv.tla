---------------------------- MODULE MCLearningEnv ----------------------------
(* A triangle, on which every pair of nodes has two paths, and a band that is  *)
(* full with one lightpath, so that requests are blocked.                      *)
EXTENDS LearningEnv

MCNode == {"a", "b", "c"}
MCLink == {{"a", "b"}, {"b", "c"}, {"a", "c"}}
MCLength == [l \in MCLink |-> IF l = {"b", "c"} THEN 2 ELSE 1]
MCPairs == {<<"a", "b">>, <<"a", "c">>}
MCRoutes ==
    [p \in MCPairs |-> IF p = <<"a", "b">> THEN <<<<"a", "b">>, <<"a", "c", "b">>>>
                                           ELSE <<<<"a", "c">>, <<"a", "b", "c">>>>]
MCBand == {"c"}
MCBandList == <<"c">>
MCBandSlots == [b \in MCBand |-> 2]
MCBw == {50}
MCMods == [bw \in MCBw |-> [m \in Mod |-> [max_length |-> IF m = "QPSK" THEN 3 ELSE 0, slots_needed |-> 1]]]

MCConfig(algorithm, eps, alpha, snapshots) ==
    [path_algorithm |-> algorithm, epsilon_update |-> eps, alpha_update |-> alpha,
     save_snapshots |-> snapshots]
MCConfigs == {MCConfig("ucb_bandit", "linear_decay", "exp_decay", FALSE),
              MCConfig("epsilon_greedy_bandit", "state_based", "state_based", FALSE),
              MCConfig("q_learning", "state_based", "state_based", FALSE),
              MCConfig("q_learning", "exp_decay", "exp_decay", FALSE),
              MCConfig("q_learning", "reward_based", "linear_decay", FALSE),
              MCConfig("ucb_bandit", "exp_decay", "exp_decay", TRUE)}
Half == <<1, 2>>
MCPenalty == -1
=============================================================================
