--------------------------- MODULE LearningProofs ---------------------------
(***************************************************************************)
(* Theorems about LearningEnv: the training of a path agent.               *)
(***************************************************************************)
EXTENDS LearningEnv, SpectrumProofs, SequenceTheorems

Fields == {"path_algorithm", "counts", "values", "q_value", "rewards", "completed_sim",
           "epsilon_update", "alpha_update", "iteration", "epsilon", "alpha", "reward_list", "visits"}

\* What the place in the training and the rewards that were recorded depend on.
SameProgress(a, b) ==
    /\ DOMAIN b = DOMAIN a
    /\ b.path_algorithm = a.path_algorithm
    /\ b.iteration = a.iteration
    /\ b.rewards = a.rewards
    /\ b.completed_sim = a.completed_sim

\* A new agent has learned nothing.
LEMMA SetupIs ==
    ASSUME NEW c
    PROVE  LET a == SetupEnv(c)
           IN  /\ DOMAIN a = Fields
               /\ a.iteration = 0 /\ a.rewards = <<>> /\ ~a.completed_sim
BY DEF SetupEnv, HyperparamConfig, Fields

\* _handle_hyperparams changes parameters only.
LEMMA HyperparamsKeep ==
    ASSUME NEW a, DOMAIN a = Fields, NEW p, NEW k, NEW reward
    PROVE  SameProgress(a, HandleHyperparams(a, p, k, reward))
<1>1. ASSUME NEW b, DOMAIN b = Fields
      PROVE  SameProgress(b, UpdateTimestepData(b, reward))
    BY <1>1 DEF UpdateTimestepData, SameProgress, Fields
<1>2. ASSUME NEW b, DOMAIN b = Fields
      PROVE  SameProgress(b, AdaptAlpha(b, p, k))
    BY <1>2 DEF AdaptAlpha, VisitAlpha, SameProgress, Fields
<1>3. ASSUME NEW b, DOMAIN b = Fields
      PROVE  SameProgress(b, AdaptEps(b, p, k))
    BY <1>3 DEF AdaptEps, VisitEps, SameProgress, Fields
<1> QED
    BY <1>1, <1>2, <1>3 DEF HandleHyperparams, SameProgress

\* end_iter counts the episode.
LEMMA EndIterKeeps ==
    ASSUME NEW a, DOMAIN a = Fields
    PROVE  LET b == EndAgentIter(a)
           IN  /\ DOMAIN b = Fields
               /\ b.path_algorithm = a.path_algorithm
               /\ b.iteration = a.iteration + 1
               /\ b.rewards = a.rewards /\ b.completed_sim = a.completed_sim
BY DEF EndAgentIter, Fields

\* PathAgent.update while there are episodes to come: the reward is recorded.
LEMMA UpdateRecords ==
    ASSUME NEW a, DOMAIN a = Fields, Trains(a), ~a.completed_sim,
           NEW p, NEW k, NEW level, NEW next, NEW episode, NEW reward
    PROVE  LET b == UpdateAgent(a, p, k, level, next, episode, reward)
           IN  /\ DOMAIN b = Fields
               /\ b.iteration = a.iteration
               /\ b.rewards = Record(a.rewards, episode, reward)
               /\ b.completed_sim => Completes(b.rewards, episode)
<1> DEFINE h == HandleHyperparams(a, p, k, reward)
<1>1. SameProgress(a, h)
    BY HyperparamsKeep
<1>5. UpdateAgent(a, p, k, level, next, episode, reward) =
          IF IsBandit(a) THEN UpdateBandit(h, p, k, episode, reward)
          ELSE UpdateRoutesMatrix(h, p, k, level, next, episode, reward)
    BY DEF UpdateAgent
<1> HIDE DEF h
<1>2. DOMAIN h = Fields /\ h.iteration = a.iteration /\ h.rewards = a.rewards /\ ~h.completed_sim
    BY <1>1 DEF SameProgress
<1>3. LET b == UpdateBandit(h, p, k, episode, reward)
      IN  /\ DOMAIN b = Fields /\ b.iteration = h.iteration
          /\ b.rewards = Record(h.rewards, episode, reward) /\ b.completed_sim = h.completed_sim
    BY <1>2 DEF UpdateBandit, Fields
<1>4. LET b == UpdateRoutesMatrix(h, p, k, level, next, episode, reward)
      IN  /\ DOMAIN b = Fields /\ b.iteration = h.iteration
          /\ b.rewards = Record(h.rewards, episode, reward)
          /\ b.completed_sim = Completes(b.rewards, episode)
    BY <1>2 DEF UpdateRoutesMatrix, Fields
<1> QED
    BY <1>2, <1>3, <1>4, <1>5

-----------------------------------------------------------------------------
(* Agent and environment keep step. *)

\* The episodes that have a row of rewards: those that are over, and the present one from
\* its first request on.
RowsBegun == IF arrival_count \in 1..(NumRequests - 1) THEN iteration + 1 ELSE iteration

\* Every episode has a reward for every request.
AllRewarded ==
    /\ Len(agent.rewards) = MaxIters
    /\ \A i \in 1..MaxIters : Len(agent.rewards[i]) = NumRequests

\* Unless a step has raised, agent and environment count the same episodes; each that is
\* over has a reward for every request, the present one for those served.
ProgressInv ==
    /\ DOMAIN agent = Fields /\ agent.iteration = iteration
    /\ iteration \in Nat /\ arrival_count \in 0..NumRequests
    /\ pc \in {"reset", "observe_reset", "observe_step", "step", "learn", "loop", "done"}
    /\ pc = "reset" => arrival_count \in {0, NumRequests}
    /\ pc = "observe_reset" => arrival_count = 0
    /\ pc = "learn" => arrival_count < NumRequests
    /\ iteration < MaxIters =>
          /\ ~agent.completed_sim
          /\ agent.rewards \in Seq(Seq(Int))
          /\ Len(agent.rewards) = RowsBegun
          /\ \A i \in 1..iteration : Len(agent.rewards[i]) = NumRequests
          /\ RowsBegun > iteration => Len(agent.rewards[iteration + 1]) = arrival_count
    /\ iteration >= MaxIters => AllRewarded

\* A reward adds one to the row of its episode.
LEMMA RecordIs ==
    ASSUME NEW rows \in Seq(Seq(Int)), NEW n \in Nat, Len(rows) = n \/ Len(rows) = n + 1, NEW reward \in Int
    PROVE  /\ Record(rows, n, reward) \in Seq(Seq(Int)) /\ Len(Record(rows, n, reward)) = n + 1
           /\ Len(Record(rows, n, reward)[n + 1]) = (IF Len(rows) = n THEN 1 ELSE Len(rows[n + 1]) + 1)
<1>1. CASE Len(rows) = n
    <2>1. Record(rows, n, reward) = Append(rows, <<reward>>) /\ <<reward>> \in Seq(Int)
        BY <1>1 DEF Record
    <2>2. Len(<<reward>>) = 1
        OBVIOUS
    <2> QED
        BY <1>1, <2>1, <2>2
<1>2. CASE Len(rows) = n + 1
    <2>1. Record(rows, n, reward) = [rows EXCEPT ![n + 1] = Append(rows[n + 1], reward)]
        BY <1>2 DEF Record
    <2>2. rows[n + 1] \in Seq(Int) /\ n + 1 \in DOMAIN rows
        BY <1>2
    <2>3. Append(rows[n + 1], reward) \in Seq(Int)
          /\ Len(Append(rows[n + 1], reward)) = Len(rows[n + 1]) + 1
        BY <2>2
    <2> QED
        BY <1>2, <2>1, <2>2, <2>3
<1> QED
    BY <1>1, <1>2

\* The rows of earlier episodes stay.
LEMMA RecordKeeps ==
    ASSUME NEW rows \in Seq(Seq(Int)), NEW n \in Nat, Len(rows) = n \/ Len(rows) = n + 1, NEW reward,
           NEW i \in 1..n
    PROVE  Record(rows, n, reward)[i] = rows[i]
<1>1. CASE Len(rows) = n
    <2>1. Record(rows, n, reward) = Append(rows, <<reward>>)
        BY <1>1 DEF Record
    <2> QED
        BY <1>1, <2>1
<1>2. CASE Len(rows) = n + 1
    <2>1. Record(rows, n, reward) = [rows EXCEPT ![n + 1] = Append(rows[n + 1], reward)]
        BY <1>2 DEF Record
    <2> QED
        BY <1>2, <2>1
<1> QED
    BY <1>1, <1>2

\* A step after one that has raised does nothing.
LEMMA RaisedStays ==
    ASSUME [Next]_vars, pc = "raised"
    PROVE  UNCHANGED vars
BY DEF Next, Reset, Observe, Serve, Learn, Loop, Ended

\* A step that serves and does not raise assigns a window or none.
LEMMA ServeIs ==
    ASSUME Serve, pc' # "raised"
    PROVE  /\ pc' = "learn"
           /\ \E assignments \in {Assignments(Released, arrival_count + 1)} :
                 /\ IF assignments = {} THEN net' = Released /\ reqs_status' = reqs_status
                    ELSE \E window \in assignments :
                            /\ net' = Allocate(Released, arrival_count + 1, ChosenPath, window)
                            /\ reqs_status' = [reqs_status EXCEPT ![arrival_count + 1] = ChosenPath]
                 /\ served' = Append(served, [iteration |-> iteration, id |-> arrival_count + 1,
                                             path |-> ChosenPath, allocated |-> assignments # {}])
BY DEF Serve

\* It learns one reward and counts the request.
LEMMA LearnIs ==
    ASSUME Learn, pc' # "raised"
    PROVE  /\ pc' = "observe_step" /\ arrival_count' = arrival_count + 1
           /\ iteration' = IF Terminated(arrival_count + 1) THEN iteration + 1 ELSE iteration
           /\ \E reward, next, a :
                 /\ reward = GetReward(WasAllocated(arrival_count + 1))
                 /\ a = UpdateAgent(agent, chosen.pair, chosen.arm, chosen.level, next, iteration, reward)
                 /\ agent' = IF Terminated(arrival_count + 1) THEN EndAgentIter(a) ELSE a
                 /\ given' = Append(given, reward)
BY DEF Learn

\* A reward is recorded without an exception.
LEMMA UpdateSucceeds ==
    ASSUME ProgressInv, pc = "learn", NEW reward \in Int
    PROVE  /\ ~UpdateRaises(agent, iteration, reward)
           /\ iteration < MaxIters =>
                 LET rows == Record(agent.rewards, iteration, reward)
                 IN  /\ rows \in Seq(Seq(Int)) /\ Len(rows) = iteration + 1
                     /\ \A i \in 1..iteration : Len(rows[i]) = NumRequests
                     /\ Len(rows[iteration + 1]) = arrival_count + 1
<1>1. /\ iteration \in Nat /\ arrival_count \in 0..(NumRequests - 1) /\ NumRequests \in Nat
      /\ NumRequests >= 2 /\ MaxIters \in Nat \ {0}
      /\ DOMAIN agent = Fields /\ agent.iteration = iteration
    BY AgentsAssumption DEF ProgressInv
<1>2. CASE iteration < MaxIters
    <2>1. /\ Trains(agent) /\ ~agent.completed_sim /\ agent.rewards \in Seq(Seq(Int))
          /\ Len(agent.rewards) = RowsBegun
          /\ \A i \in 1..iteration : Len(agent.rewards[i]) = NumRequests
          /\ RowsBegun > iteration => Len(agent.rewards[iteration + 1]) = arrival_count
        BY <1>1, <1>2 DEF ProgressInv, Trains
    <2>2. RowsBegun = IF arrival_count = 0 THEN iteration ELSE iteration + 1
        BY <1>1 DEF RowsBegun
    <2>8. PICK old, rows : old = agent.rewards /\ rows = Record(old, iteration, reward)
        OBVIOUS
    <2>3. /\ rows \in Seq(Seq(Int)) /\ Len(rows) = iteration + 1
          /\ \A i \in 1..iteration : Len(rows[i]) = NumRequests
          /\ Len(rows[iteration + 1]) = arrival_count + 1
        <3>1. Len(agent.rewards) \in {iteration, iteration + 1}
            BY <1>1, <2>1, <2>2
        <3>2. /\ old \in Seq(Seq(Int)) /\ (Len(old) = iteration \/ Len(old) = iteration + 1)
            BY <2>1, <2>8, <3>1
        <3>3. /\ rows \in Seq(Seq(Int)) /\ Len(rows) = iteration + 1
              /\ Len(rows[iteration + 1]) =
                     (IF Len(old) = iteration THEN 1 ELSE Len(old[iteration + 1]) + 1)
            <4>1. iteration \in Nat
                BY <1>1
            <4>2. rows = Record(old, iteration, reward)
                BY <2>8
            <4> QED
                BY <3>2, <4>1, <4>2, RecordIs
        <3>6. ASSUME NEW i \in 1..iteration
              PROVE  rows[i] = old[i]
            <4>1. iteration \in Nat
                BY <1>1
            <4>2. rows = Record(old, iteration, reward)
                BY <2>8
            <4> QED
                BY <3>2, <3>6, <4>1, <4>2, RecordKeeps
        <3>4. Len(rows[iteration + 1]) = arrival_count + 1
            <4>1. CASE arrival_count = 0
                <5>1. Len(old) = iteration
                    BY <2>1, <2>2, <2>8, <4>1
                <5> QED
                    BY <3>3, <4>1, <5>1
            <4>2. CASE arrival_count # 0
                <5>1. RowsBegun = iteration + 1
                    BY <2>2, <4>2
                <5>2. Len(old) = iteration + 1 /\ Len(old[iteration + 1]) = arrival_count
                    BY <1>1, <2>1, <2>8, <5>1
                <5>3. iteration # iteration + 1
                    BY <1>1
                <5> QED
                    BY <3>3, <5>2, <5>3
            <4> QED
                BY <4>1, <4>2
        <3>5. \A i \in 1..iteration : Len(rows[i]) = NumRequests
            BY <2>1, <2>8, <3>3, <3>6
        <3> QED
            BY <3>3, <3>4, <3>5
    <2>5. ~UpdateRaises(agent, iteration, reward)
        <3>1. Len(rows[iteration + 1]) = NumRequests => Rectangular(rows)
            BY <1>1, <2>3 DEF Rectangular
        <3>2. SavesModel(agent, iteration, reward) => Len(rows[iteration + 1]) = NumRequests
            BY Zenon, <2>8 DEF SavesModel
        <3>3. ~(agent.iteration >= MaxIters)
            BY <1>1, <1>2
        <3> QED
            BY <2>8, <3>1, <3>2, <3>3 DEF UpdateRaises
    <2> QED
        BY <1>2, <2>3, <2>5, <2>8
<1>3. CASE ~(iteration < MaxIters)
    BY <1>1, <1>3 DEF UpdateRaises, Trains
<1> QED
    BY <1>2, <1>3

\* And the episode goes on, or is over with the last request.
LEMMA LearnKeepsProgress ==
    ASSUME ProgressInv, Learn, pc' # "raised"
    PROVE  ProgressInv'
<1>0. PICK reward, next, a :
          /\ reward = GetReward(WasAllocated(arrival_count + 1))
          /\ a = UpdateAgent(agent, chosen.pair, chosen.arm, chosen.level, next, iteration, reward)
          /\ agent' = IF Terminated(arrival_count + 1) THEN EndAgentIter(a) ELSE a
    BY LearnIs
<1>1. /\ pc = "learn" /\ pc' = "observe_step" /\ arrival_count' = arrival_count + 1
      /\ iteration' = IF Terminated(arrival_count + 1) THEN iteration + 1 ELSE iteration
      /\ iteration \in Nat /\ arrival_count \in 0..(NumRequests - 1) /\ NumRequests \in Nat
      /\ NumRequests >= 2 /\ MaxIters \in Nat \ {0}
    <2>1. /\ pc' = "observe_step" /\ arrival_count' = arrival_count + 1
          /\ iteration' = IF Terminated(arrival_count + 1) THEN iteration + 1 ELSE iteration
        BY LearnIs
    <2>2. pc = "learn"
        BY DEF Learn
    <2>3. NumRequests \in Nat /\ NumRequests >= 2 /\ MaxIters \in Nat \ {0}
        BY AgentsAssumption
    <2>4. iteration \in Nat /\ arrival_count \in 0..NumRequests /\ arrival_count < NumRequests
        BY <2>2 DEF ProgressInv
    <2> QED
        BY <2>1, <2>2, <2>3, <2>4
<1>2. reward \in Int
    BY <1>0, AgentsAssumption DEF GetReward
<1>3. Terminated(arrival_count + 1) <=> arrival_count + 1 = NumRequests
    BY DEF Terminated
<1>4. DOMAIN agent = Fields /\ agent.iteration = iteration
    BY DEF ProgressInv
<1>5. CASE iteration < MaxIters
    <2>1. Trains(agent) /\ ~agent.completed_sim
        BY <1>4, <1>5 DEF ProgressInv, Trains
    <2>8. PICK rows : rows = Record(agent.rewards, iteration, reward)
        OBVIOUS
    <2>3. /\ rows \in Seq(Seq(Int)) /\ Len(rows) = iteration + 1
          /\ \A i \in 1..iteration : Len(rows[i]) = NumRequests
          /\ Len(rows[iteration + 1]) = arrival_count + 1
        BY <1>1, <1>2, <1>5, <2>8, UpdateSucceeds
    <2>4. /\ DOMAIN a = Fields /\ a.iteration = iteration /\ a.rewards = rows
          /\ a.completed_sim => Completes(rows, iteration)
        BY <1>0, <1>4, <2>1, <2>8, UpdateRecords
    <2>6. CASE arrival_count + 1 = NumRequests
        <3>1. /\ DOMAIN agent' = Fields /\ agent'.iteration = iteration + 1
              /\ agent'.rewards = rows /\ agent'.completed_sim = a.completed_sim
            BY <1>0, <1>3, <2>4, <2>6, EndIterKeeps
        <3>2. iteration + 1 < MaxIters => ~a.completed_sim
            BY <1>1, <2>4 DEF Completes
        <3>3. iteration' = iteration + 1 /\ RowsBegun' = iteration + 1
            BY <1>1, <1>3, <2>6 DEF RowsBegun
        <3>4. ~(iteration + 1 < MaxIters) => AllRewarded'
            BY <1>1, <1>5, <2>3, <2>6, <3>1 DEF AllRewarded
        <3> QED
            BY <1>0, <1>1, <2>3, <2>6, <3>1, <3>2, <3>3, <3>4 DEF ProgressInv
    <2>7. CASE arrival_count + 1 # NumRequests
        <3>1. agent' = a /\ iteration' = iteration /\ RowsBegun' = iteration + 1
            BY <1>0, <1>1, <1>3, <2>7 DEF RowsBegun
        <3>2. ~a.completed_sim
            BY <2>3, <2>4, <2>7 DEF Completes
        <3> QED
            BY <1>0, <1>1, <1>5, <2>3, <2>4, <2>7, <3>1, <3>2 DEF ProgressInv
    <2> QED
        BY <2>6, <2>7
<1>6. CASE ~(iteration < MaxIters)
    <2>1. a = agent
        BY <1>0, <1>4, <1>6 DEF UpdateAgent, Trains
    <2>2. DOMAIN agent' = Fields /\ agent'.iteration = iteration' /\ agent'.rewards = agent.rewards
        BY <1>0, <1>1, <1>4, <2>1, EndIterKeeps
    <2>3. AllRewarded'
        BY <1>1, <1>6, <2>2 DEF ProgressInv, AllRewarded
    <2> QED
        BY <1>0, <1>1, <1>6, <2>1, <2>2, <2>3 DEF ProgressInv
<1> QED
    BY <1>5, <1>6

\* The other steps.
LEMMA ProgressNext ==
    ASSUME ProgressInv, [Next]_vars, pc' # "raised"
    PROVE  ProgressInv'
<1>0. NumRequests \in Nat /\ NumRequests >= 2 /\ MaxIters \in Nat \ {0}
    BY AgentsAssumption
<1>1. CASE Reset
    <2>1. /\ pc = "reset" /\ pc' = "observe_reset" /\ arrival_count' = 0 /\ iteration' = iteration
          /\ agent' = IF iteration = 0 THEN SetupEnv(config) ELSE agent
        BY <1>1 DEF Reset
    <2>2. RowsBegun' = iteration /\ RowsBegun = iteration
        BY <1>0, <2>1 DEF ProgressInv, RowsBegun
    <2>3. CASE iteration = 0
        <3>1. /\ DOMAIN agent' = Fields /\ agent'.iteration = 0 /\ agent'.rewards = <<>>
              /\ ~agent'.completed_sim
            BY <2>1, <2>3, SetupIs
        <3> QED
            BY <1>0, <2>1, <2>2, <2>3, <3>1 DEF ProgressInv
    <2>4. CASE iteration # 0
        BY <1>0, <2>1, <2>2, <2>4 DEF ProgressInv, AllRewarded
    <2> QED
        BY <2>3, <2>4
<1>2. CASE Observe
    BY <1>0, <1>2 DEF Observe, ProgressInv, RowsBegun, AllRewarded
<1>3. CASE Serve
    BY <1>0, <1>3, ServeIs DEF Serve, ProgressInv, RowsBegun, AllRewarded
<1>4. CASE Learn
    BY <1>4, LearnKeepsProgress
<1>5. CASE Loop
    BY <1>0, <1>5 DEF Loop, Terminated, ProgressInv, RowsBegun, AllRewarded
<1>6. CASE UNCHANGED vars
    BY <1>6 DEF vars, ProgressInv, RowsBegun, AllRewarded
<1> QED
    BY <1>1, <1>2, <1>3, <1>4, <1>5, <1>6 DEF Next, Ended

\* It holds at the start and so always.
LEMMA ProgressAlways == Spec => [](pc # "raised" => ProgressInv)
<1>1. Init => ProgressInv
    <2> SUFFICES ASSUME Init PROVE ProgressInv
        OBVIOUS
    <2>1. agent = SetupEnv(config) /\ iteration = 0 /\ arrival_count = 0 /\ pc = "reset"
        BY DEF Init
    <2>2. RowsBegun = 0
        BY <2>1 DEF RowsBegun
    <2>3. /\ DOMAIN agent = Fields /\ agent.iteration = 0 /\ agent.rewards = <<>>
          /\ ~agent.completed_sim
        BY <2>1, SetupIs
    <2> QED
        BY <2>1, <2>2, <2>3, AgentsAssumption DEF ProgressInv
<1>2. ASSUME pc # "raised" => ProgressInv, [Next]_vars
      PROVE  (pc # "raised" => ProgressInv)'
    BY <1>2, ProgressNext, RaisedStays DEF vars
<1> QED
    BY <1>1, <1>2, PTL DEF Spec

-----------------------------------------------------------------------------
(* The routes find_k_shortest finds. *)

\* The lengths up to each of the first n nodes of a path.
IsLengths(g, path, n) ==
    g = [i \in 1..n |-> IF i = 1 THEN 0 ELSE g[i - 1] + LinkLength[{path[i - 1], path[i]}]]

\* There are such: the first n without them would have n - 1 nodes before it.
LEMMA LengthsExist ==
    ASSUME NEW path, NEW n \in Nat
    PROVE  \E g : IsLengths(g, path, n)
<1> DEFINE Bad == {k \in Nat : ~\E g : IsLengths(g, path, k)}
<1>1. SUFFICES ASSUME Bad # {} PROVE FALSE
    OBVIOUS
<1>2. PICK k \in Bad : \A m \in Bad : k <= m
    <2>1. Bad \subseteq Nat
        OBVIOUS
    <2> HIDE DEF Bad
    <2> QED
        BY <1>1, <2>1, LeastNatural
<1>3. k \in Nat /\ ~\E g : IsLengths(g, path, k)
    BY <1>2
<1>4. PICK g : k # 0 => IsLengths(g, path, k - 1)
    BY <1>2
<1> DEFINE step(i) == g[i - 1] + LinkLength[{path[i - 1], path[i]}]
           h == [i \in 1..k |-> IF i = 1 THEN 0 ELSE step(i)]
<1>5. \A i \in 1..k : i # 1 => h[i - 1] = g[i - 1]
    <2> SUFFICES ASSUME NEW i \in 1..k, i # 1
                 PROVE  h[i - 1] = g[i - 1]
        OBVIOUS
    <2>1. PICK j \in 1..(k - 1) : j = i - 1
        BY <1>3
    <2>2. h[j] = IF j = 1 THEN 0 ELSE step(j)
        BY <1>3, <2>1
    <2>3. g[j] = IF j = 1 THEN 0 ELSE step(j)
        <3>1. k # 0
            BY <1>3
        <3>2. g = [l \in 1..(k - 1) |-> IF l = 1 THEN 0 ELSE step(l)]
            BY <1>4, <3>1 DEF IsLengths
        <3> HIDE DEF step
        <3> QED
            BY <2>1, <3>2
    <2> QED
        BY <2>1, <2>2, <2>3
<1>6. h = [i \in 1..k |-> IF i = 1 THEN 0 ELSE h[i - 1] + LinkLength[{path[i - 1], path[i]}]]
    <2>1. \A i \in 1..k : (IF i = 1 THEN 0 ELSE step(i)) =
                          (IF i = 1 THEN 0 ELSE h[i - 1] + LinkLength[{path[i - 1], path[i]}])
        BY <1>5
    <2> QED
        BY <2>1
<1> HIDE DEF h
<1> QED
    BY <1>3, <1>6 DEF IsLengths

\* The length of a path is a number.
LEMMA PathLenIsNat ==
    ASSUME NEW path, IsPath(path)
    PROVE  FindPathLen(path) \in Nat
<1>1. Len(path) \in Nat /\ Len(path) >= 2
    BY DEF IsPath
<1>2. PICK g : g = (CHOOSE h : IsLengths(h, path, Len(path))) /\ IsLengths(g, path, Len(path))
    BY <1>1, LengthsExist
<1>3. FindPathLen(path) = g[Len(path)]
    BY <1>2 DEF FindPathLen, IsLengths
<1>4. ASSUME NEW i \in 1..Len(path)
      PROVE  g[i] = IF i = 1 THEN 0 ELSE g[i - 1] + LinkLength[{path[i - 1], path[i]}]
    BY <1>2 DEF IsLengths
<1>5. ASSUME NEW i \in 1..Len(path), i # 1
      PROVE  LinkLength[{path[i - 1], path[i]}] \in Nat
    <2>1. i - 1 \in 1..(Len(path) - 1) /\ (i - 1) + 1 = i
        BY <1>1, <1>5
    <2>2. {path[i - 1], path[i]} \in LinksOf(path)
        BY <2>1 DEF LinksOf
    <2> QED
        BY <2>2, RoutingAssumption DEF IsPath
<1> DEFINE Bad == {i \in 1..Len(path) : g[i] \notin Nat}
<1>6. Bad = {}
    <2> SUFFICES ASSUME Bad # {} PROVE FALSE
        OBVIOUS
    <2>1. PICK i \in Bad : \A m \in Bad : i <= m
        <3>1. Bad \subseteq Nat
            BY <1>1
        <3> HIDE DEF Bad
        <3> QED
            BY <3>1, LeastNatural
    <2>2. i \in 1..Len(path) /\ g[i] \notin Nat
        OBVIOUS
    <2>3. i # 1
        <3>1. i = 1 => g[i] = 0
            BY <1>4, <2>2
        <3> QED
            BY <2>2, <3>1
    <2>4. g[i - 1] \in Nat
        BY <1>1, <2>1, <2>2, <2>3
    <2>5. PICK x \in Nat : x = LinkLength[{path[i - 1], path[i]}]
        BY <1>5, <2>2, <2>3
    <2>6. g[i] = g[i - 1] + x
        BY <1>4, <2>2, <2>3, <2>5
    <2> QED
        BY <2>2, <2>4, <2>6
<1> QED
    BY <1>1, <1>3, <1>6

\* A path is known from its nodes by their places, so a finite topology has finitely many.
LEMMA SimplePathsAreFinite ==
    ASSUME IsFiniteSet(Node), NEW source, NEW dest
    PROVE  IsFiniteSet(SimplePaths(source, dest))
<1> DEFINE Places == SUBSET ((1..Cardinality(Node)) \X Node)
           S == SimplePaths(source, dest)
           f == [p \in S |-> {<<i, p[i]>> : i \in DOMAIN p}]
<1>1. Cardinality(Node) \in Nat
    BY FS_CardinalityType
<1>2. IsFiniteSet(Places)
    <2>1. IsFiniteSet(1..Cardinality(Node))
        BY <1>1, FS_Interval
    <2>2. IsFiniteSet((1..Cardinality(Node)) \X Node)
        BY <2>1, FS_Product
    <2> QED
        BY <2>2, FS_SUBSET
<1>3. ASSUME NEW p \in S
      PROVE  \E n \in 2..Cardinality(Node) : p \in [1..n -> Node]
    BY DEF SimplePaths
<1>4. ASSUME NEW p \in S
      PROVE  f[p] \in Places
    <2>1. PICK n \in 2..Cardinality(Node) : p \in [1..n -> Node]
        BY <1>3
    <2>2. \A i \in DOMAIN p : <<i, p[i]>> \in (1..Cardinality(Node)) \X Node
        BY <1>1, <2>1
    <2> QED
        BY <2>2
<1>5. ASSUME NEW p \in S, NEW q \in S, f[p] = f[q]
      PROVE  p = q
    <2>1. PICK n \in 2..Cardinality(Node) : p \in [1..n -> Node]
        BY <1>3
    <2>2. PICK m \in 2..Cardinality(Node) : q \in [1..m -> Node]
        BY <1>3
    <2>3. \A i \in DOMAIN p : i \in DOMAIN q /\ q[i] = p[i]
        <3> SUFFICES ASSUME NEW i \in DOMAIN p
                     PROVE  i \in DOMAIN q /\ q[i] = p[i]
            OBVIOUS
        <3>1. <<i, p[i]>> \in f[q]
            BY <1>5
        <3> QED
            BY <3>1
    <2>4. \A i \in DOMAIN q : i \in DOMAIN p
        <3> SUFFICES ASSUME NEW i \in DOMAIN q
                     PROVE  i \in DOMAIN p
            OBVIOUS
        <3>1. <<i, q[i]>> \in f[p]
            BY <1>5
        <3> QED
            BY <3>1
    <2> QED
        BY <2>1, <2>2, <2>3, <2>4
<1>6. f \in Injection(S, Places)
    <2>1. f \in [S -> Places]
        BY <1>4
    <2> HIDE DEF f, Places, S
    <2> QED
        BY <1>5, <2>1 DEF Injection, IsInjective
<1> HIDE DEF f, Places
<1> QED
    BY <1>2, <1>6, FS_Injection

\* The first n routes, each the shortest path that is left, and how many there are.
IsRoutes(g, paths, n) ==
    g = [i \in 1..n |->
            LET rest == paths \ {g[j] : j \in 1..(i - 1)}
            IN  CHOOSE p \in rest : \A q \in rest : FindPathLen(p) <= FindPathLen(q)]

RoutesFound(paths, k) == IF Cardinality(paths) < k THEN Cardinality(paths) ELSE k

\* There are such, for every n.
LEMMA RoutesExist ==
    ASSUME NEW paths, NEW n \in Nat
    PROVE  \E g : IsRoutes(g, paths, n)
<1> DEFINE Bad == {k \in Nat : ~\E g : IsRoutes(g, paths, k)}
<1>1. SUFFICES ASSUME Bad # {} PROVE FALSE
    OBVIOUS
<1>2. PICK k \in Bad : \A m \in Bad : k <= m
    <2>1. Bad \subseteq Nat
        OBVIOUS
    <2> HIDE DEF Bad
    <2> QED
        BY <1>1, <2>1, LeastNatural
<1>3. k \in Nat /\ ~\E g : IsRoutes(g, paths, k)
    BY <1>2
<1>4. PICK g : k # 0 => IsRoutes(g, paths, k - 1)
    BY <1>2
<1> DEFINE rest(t, i) == paths \ {t[j] : j \in 1..(i - 1)}
           shortest(R) == CHOOSE p \in R : \A q \in R : FindPathLen(p) <= FindPathLen(q)
           h == [i \in 1..k |-> shortest(rest(g, i))]
<1>5. \A j \in 1..(k - 1) : h[j] = g[j]
    <2> SUFFICES ASSUME NEW j \in 1..(k - 1)
                 PROVE  h[j] = g[j]
        OBVIOUS
    <2>1. k # 0
        BY <1>3
    <2>2. g = [i \in 1..(k - 1) |-> shortest(rest(g, i))]
        BY <1>4, <2>1 DEF IsRoutes
    <2>4. j \in 1..k
        BY <1>3
    <2> HIDE DEF shortest, rest
    <2>3. h[j] = shortest(rest(g, j))
        BY <2>4
    <2> HIDE DEF h
    <2> QED
        BY <2>2, <2>3
<1>6. h = [i \in 1..k |-> shortest(rest(h, i))]
    <2>1. ASSUME NEW i \in 1..k
          PROVE  rest(g, i) = rest(h, i)
        <3> HIDE DEF h
        <3>1. \A j \in 1..(i - 1) : j \in 1..(k - 1) /\ h[j] = g[j]
            BY <1>3, <1>5
        <3> QED
            BY <3>1
    <2> HIDE DEF shortest, rest
    <2> QED
        BY <2>1
<1> HIDE DEF h
<1> QED
    BY <1>3, <1>6 DEF IsRoutes

\* Of some paths there is a shortest.
LEMMA ShortestExists ==
    ASSUME NEW R, R # {}, \A p \in R : IsPath(p)
    PROVE  \E p \in R : \A q \in R : FindPathLen(p) <= FindPathLen(q)
<1> DEFINE T == {FindPathLen(p) : p \in R}
<1>1. T # {} /\ T \subseteq Nat
    BY PathLenIsNat
<1>2. PICK m \in T : \A k \in T : m <= k
    <2> HIDE DEF T
    <2> QED
        BY <1>1, LeastNatural
<1> QED
    BY <1>2

\* find_k_shortest gives as many simple paths as it is asked for and there are, each of
\* them once, from the shortest on, and leaves out none that is shorter.
THEOREM RoutesAreShortest ==
    ASSUME IsFiniteSet(Node), NEW source, NEW dest, NEW k \in Nat
    PROVE  LET routes == FindKShortest(source, dest, k)
               paths  == SimplePaths(source, dest)
           IN  /\ RoutesFound(paths, k) \in Nat /\ DOMAIN routes = 1..RoutesFound(paths, k)
               /\ \A i \in DOMAIN routes :
                     /\ routes[i] \in paths
                     /\ \A p \in paths : \/ FindPathLen(routes[i]) <= FindPathLen(p)
                                          \/ \E j \in 1..(i - 1) : p = routes[j]
                     /\ \A j \in 1..(i - 1) : /\ routes[j] # routes[i]
                                             /\ FindPathLen(routes[j]) <= FindPathLen(routes[i])
<1> DEFINE paths == SimplePaths(source, dest)
           size == RoutesFound(paths, k)
           rest(t, i) == paths \ {t[j] : j \in 1..(i - 1)}
<1>1. IsFiniteSet(paths) /\ Cardinality(paths) \in Nat /\ size \in Nat /\ size <= Cardinality(paths)
    BY SimplePathsAreFinite, FS_CardinalityType DEF RoutesFound
<1>2. \A p \in paths : IsPath(p)
    BY DEF SimplePaths
<1>3. PICK g : g = (CHOOSE h : IsRoutes(h, paths, size)) /\ IsRoutes(g, paths, size)
    BY <1>1, RoutesExist
<1>4. FindKShortest(source, dest, k) = [i \in 1..size |-> g[i]]
    BY <1>3 DEF FindKShortest, IsRoutes, RoutesFound
<1>5. ASSUME NEW i \in 1..size
      PROVE  /\ g[i] \in rest(g, i)
             /\ \A q \in rest(g, i) : FindPathLen(g[i]) <= FindPathLen(q)
    <2>1. g[i] = CHOOSE p \in rest(g, i) : \A q \in rest(g, i) : FindPathLen(p) <= FindPathLen(q)
        BY <1>3 DEF IsRoutes
    <2>2. rest(g, i) # {}
        <3>1. PICK n \in Nat : n = i - 1 /\ n < Cardinality(paths)
            BY <1>1
        <3>2. PICK t : t = [j \in 1..n |-> g[j]]
            OBVIOUS
        <3>3. t \in Surjection(1..n, {g[j] : j \in 1..n})
            BY <3>2 DEF Surjection
        <3>4. IsFiniteSet(1..n) /\ Cardinality(1..n) = n
            BY <3>1, FS_Interval
        <3>5. IsFiniteSet({g[j] : j \in 1..n}) /\ Cardinality({g[j] : j \in 1..n}) <= n
            BY <3>3, <3>4, FS_Surjection
        <3>6. rest(g, i) = {} => paths \subseteq {g[j] : j \in 1..n}
            BY <3>1
        <3>7. paths \subseteq {g[j] : j \in 1..n} => Cardinality(paths) <= Cardinality({g[j] : j \in 1..n})
            <4> HIDE DEF paths
            <4> QED
                BY <3>5, FS_Subset
        <3>8. Cardinality({g[j] : j \in 1..n}) \in Nat
            BY <3>5, FS_CardinalityType
        <3> QED
            BY <1>1, <3>1, <3>5, <3>6, <3>7, <3>8
    <2>3. \E p \in rest(g, i) : \A q \in rest(g, i) : FindPathLen(p) <= FindPathLen(q)
        <3>1. \A p \in rest(g, i) : IsPath(p)
            BY <1>2
        <3> HIDE DEF rest
        <3> QED
            BY <2>2, <3>1, ShortestExists
    <2> HIDE DEF rest
    <2> QED
        BY <2>1, <2>3
<1>6. ASSUME NEW i \in 1..size, NEW j \in 1..(i - 1)
      PROVE  g[j] # g[i] /\ FindPathLen(g[j]) <= FindPathLen(g[i])
    <2>1. j \in 1..size /\ \A l \in 1..(j - 1) : l \in 1..(i - 1)
        BY <1>1
    <2>2. g[i] \in rest(g, i)
        BY <1>5
    <2>3. g[i] \in rest(g, j)
        BY <2>1, <2>2
    <2> QED
        BY <1>5, <2>1, <2>2, <2>3
<1>7. ASSUME NEW i \in 1..size, NEW p \in paths
      PROVE  FindPathLen(g[i]) <= FindPathLen(p) \/ \E j \in 1..(i - 1) : p = g[j]
    BY <1>5
<1>8. \A i \in 1..size : g[i] \in paths
    BY <1>5
<1>9. \A i \in 1..size : \A j \in 1..(i - 1) : j \in 1..size
    BY <1>1
<1> HIDE DEF paths, size
<1>10. PICK routes : /\ routes = FindKShortest(source, dest, k) /\ DOMAIN routes = 1..size
                     /\ \A i \in 1..size : routes[i] = g[i]
    BY <1>4
<1>11. /\ size \in Nat /\ DOMAIN routes = 1..size
       /\ \A i \in DOMAIN routes :
             /\ routes[i] \in paths
             /\ \A p \in paths : FindPathLen(routes[i]) <= FindPathLen(p) \/ \E j \in 1..(i - 1) : p = routes[j]
             /\ \A j \in 1..(i - 1) : routes[j] # routes[i] /\ FindPathLen(routes[j]) <= FindPathLen(routes[i])
    BY <1>1, <1>6, <1>7, <1>8, <1>9, <1>10
<1> QED
    BY <1>10, <1>11 DEF paths, size

\* So the routes of all pairs are paths, and a path is a route of one pair by one arm.
LEMMA RoutesDiffer ==
    ASSUME NEW p \in Pairs, NEW k \in Arm
    PROVE  /\ IsPath(Routes[p][k])
           /\ \A q \in Pairs, j \in Arm : Routes[p][k] = Routes[q][j] => p = q /\ k = j
<1>1. KPaths \in Nat /\ IsFiniteSet(Node)
    BY AgentsAssumption, EnvAssumption
<1>2. ASSUME NEW q \in Pairs, NEW j \in Arm
      PROVE  /\ Routes[q][j] \in SimplePaths(q[1], q[2])
             /\ \A i \in 1..(j - 1) : Routes[q][i] # Routes[q][j]
    <2>1. PICK routes : routes = Routes[q] /\ routes = FindKShortest(q[1], q[2], KPaths) /\ Len(routes) = KPaths
        BY EnvAssumption
    <2>2. PICK n \in Nat : n = RoutesFound(SimplePaths(q[1], q[2]), KPaths) /\ DOMAIN routes = 1..n
        BY <1>1, <2>1, RoutesAreShortest
    <2>3. Len(routes) = n
        BY <2>2
    <2>4. j \in DOMAIN routes
        BY <2>1, <2>2, <2>3 DEF Arm
    <2>5. /\ routes[j] \in SimplePaths(q[1], q[2])
          /\ \A i \in 1..(j - 1) : routes[i] # routes[j]
        BY <1>1, <2>1, <2>4, RoutesAreShortest
    <2> QED
        BY <2>1, <2>5
<1>3. \A q \in Pairs : q = <<q[1], q[2]>>
    BY EnvAssumption
<1>4. ASSUME NEW q \in Pairs, NEW j \in Arm, Routes[p][k] = Routes[q][j]
      PROVE  p = q
    <2>1. p[1] = q[1] /\ p[2] = q[2]
        BY <1>2, <1>4 DEF SimplePaths
    <2> QED
        BY <1>3, <2>1
<1>5. ASSUME NEW j \in Arm, Routes[p][k] = Routes[p][j]
      PROVE  k = j
    <2>1. k \notin 1..(j - 1) /\ j \notin 1..(k - 1)
        BY <1>2, <1>5
    <2> QED
        BY <1>1, <2>1 DEF Arm
<1>6. IsPath(Routes[p][k])
    BY <1>2 DEF SimplePaths
<1> QED
    BY <1>4, <1>5, <1>6

-----------------------------------------------------------------------------
(* What handle_releases gives back. *)

\* The requests that have departed when request n arrives.
DepartedBy(n) == {r \in ReqId : reqs[r].due <= n}

\* The table that the fold over the releases is the last entry of.
IsSpectra(g, S) ==
    g = [s \in SUBSET S |-> IF s = {} THEN net
                            ELSE Release(g[s \ {Pick(s)}], Pick(s), reqs_status[Pick(s)])]

\* The cells a release of one of the requests frees.
FreedBy(S, x) == \E r \in S : x[1] \in LinksOf(reqs_status[r]) /\ net[x] \in {r, -r}

\* The fold is the last entry of such a table.
LEMMA ReleasedIs ==
    ASSUME NEW S, S = {r \in Departed : Position(r) > last_processed /\ reqs_status[r] # None}
    PROVE  Released = (CHOOSE g : IsSpectra(g, S))[S]
BY DEF Released, FoldSet, MapThenFoldSet, IsSpectra, Pick

\* Releasing some requests frees their cells on their paths, in whatever order.
LEMMA TableFrees ==
    ASSUME net \in [Cell -> Int], NEW S, IsFiniteSet(S), S \subseteq Nat \ {0}, NEW g, IsSpectra(g, S)
    PROVE  \A s \in SUBSET S : g[s] = [x \in Cell |-> IF FreedBy(s, x) THEN 0 ELSE net[x]]
<1> DEFINE Freed(s) == [x \in Cell |-> IF FreedBy(s, x) THEN 0 ELSE net[x]]
           Bad == {s \in SUBSET S : g[s] # Freed(s)}
<1>1. SUFFICES ASSUME Bad # {} PROVE FALSE
    OBVIOUS
<1>2. PICK s \in Bad : \A t \in Bad : t \subseteq s => t = s
    <2>1. Bad \subseteq SUBSET S
        OBVIOUS
    <2> HIDE DEF Bad
    <2> QED
        BY <1>1, <2>1, SmallestSubset
<1>3. s # {}
    <2>1. g[{}] = net
        BY DEF IsSpectra
    <2>2. Freed({}) = net
        BY DEF FreedBy
    <2> QED
        BY <2>1, <2>2
<1> DEFINE r == Pick(s)
           t == s \ {r}
<1>4. r \in s /\ r \in Nat \ {0} /\ t \in SUBSET S /\ t # s
    BY <1>3, PickIn
<1>5. g[s] = Release(g[t], r, reqs_status[r])
    BY <1>3 DEF IsSpectra
<1>6. g[t] = Freed(t)
    BY <1>2, <1>4
<1> HIDE DEF r, Bad
<1>7. ASSUME NEW x \in Cell
      PROVE  g[s][x] = Freed(s)[x]
    <2>1. g[t][x] = IF FreedBy(t, x) THEN 0 ELSE net[x]
        BY <1>6
    <2>2. g[s][x] = IF x[1] \in LinksOf(reqs_status[r]) /\ g[t][x] \in {r, -r} THEN 0 ELSE g[t][x]
        BY <1>5 DEF Release
    <2>3. FreedBy(s, x) <=> FreedBy(t, x) \/ (x[1] \in LinksOf(reqs_status[r]) /\ net[x] \in {r, -r})
        BY <1>4 DEF FreedBy
    <2>4. 0 \notin {r, -r} /\ net[x] \in Int
        BY <1>4
    <2>5. Freed(s)[x] = IF FreedBy(s, x) THEN 0 ELSE net[x]
        OBVIOUS
    <2> HIDE DEF Freed
    <2> QED
        BY <2>1, <2>2, <2>3, <2>4, <2>5
<1>8. g[s] = [x \in Cell |-> g[s][x]]
    BY <1>5 DEF Release
<1>9. Freed(s) = [x \in Cell |-> Freed(s)[x]]
    OBVIOUS
<1>10. g[s] = Freed(s)
    <2> HIDE DEF Freed
    <2> QED
        BY <1>7, <1>8, <1>9
<1> QED
    BY <1>2, <1>10 DEF Bad

\* handle_releases frees the cells of those leaving.
LEMMA ReleasedFrees ==
    ASSUME net \in [Cell -> Int], NumRequests \in Nat, NEW S,
           S = {r \in Departed : Position(r) > last_processed /\ reqs_status[r] # None}
    PROVE  Released = [x \in Cell |-> IF FreedBy(S, x) THEN 0 ELSE net[x]]
<1>1. IsFiniteSet(S) /\ S \subseteq Nat \ {0}
    <2>1. S \subseteq 1..NumRequests
        BY DEF Departed, ReqId
    <2>2. IsFiniteSet(1..NumRequests)
        BY FS_Interval
    <2>3. IsFiniteSet(S)
        BY <2>1, <2>2, FS_Subset
    <2> QED
        BY <2>1, <2>3
<1> DEFINE Freed(s) == [x \in Cell |-> IF FreedBy(s, x) THEN 0 ELSE net[x]]
           table == [s \in SUBSET S |-> Freed(s)]
<1>2. IsSpectra(table, S)
    <2>1. ASSUME NEW s \in SUBSET S, s # {}
          PROVE  Freed(s) = Release(table[s \ {Pick(s)}], Pick(s), reqs_status[Pick(s)])
        <3>1. PICK r : r = Pick(s) /\ r \in s /\ r \in Nat \ {0}
            BY <1>1, <2>1, PickIn
        <3>2. table[s \ {r}] = Freed(s \ {r})
            OBVIOUS
        <3>3. ASSUME NEW x \in Cell
              PROVE  Freed(s)[x] = Release(Freed(s \ {r}), r, reqs_status[r])[x]
            <4>1. FreedBy(s, x) <=> FreedBy(s \ {r}, x)
                                     \/ (x[1] \in LinksOf(reqs_status[r]) /\ net[x] \in {r, -r})
                BY <3>1 DEF FreedBy
            <4>2. Freed(s)[x] = (IF FreedBy(s, x) THEN 0 ELSE net[x])
                  /\ Freed(s \ {r})[x] = (IF FreedBy(s \ {r}, x) THEN 0 ELSE net[x])
                OBVIOUS
            <4>3. 0 \notin {r, -r} /\ net[x] \in Int
                BY <3>1
            <4> HIDE DEF Freed
            <4>4. Release(Freed(s \ {r}), r, reqs_status[r])[x] =
                      IF x[1] \in LinksOf(reqs_status[r]) /\ Freed(s \ {r})[x] \in {r, -r} THEN 0
                      ELSE Freed(s \ {r})[x]
                BY DEF Release
            <4> QED
                BY <4>1, <4>2, <4>3, <4>4
        <3>4. /\ Freed(s) = [x \in Cell |-> Freed(s)[x]]
              /\ Release(Freed(s \ {r}), r, reqs_status[r]) =
                     [x \in Cell |-> Release(Freed(s \ {r}), r, reqs_status[r])[x]]
            BY DEF Release
        <3> HIDE DEF Freed
        <3> QED
            BY <3>1, <3>2, <3>3, <3>4
    <2>2. Freed({}) = net
        BY DEF FreedBy
    <2>3. table = [s \in SUBSET S |-> table[s]]
        OBVIOUS
    <2>4. \A s \in SUBSET S : table[s] = Freed(s)
        OBVIOUS
    <2> HIDE DEF table, Freed
    <2> QED
        BY <2>1, <2>2, <2>3, <2>4 DEF IsSpectra
<1>3. PICK g : g = (CHOOSE h : IsSpectra(h, S)) /\ IsSpectra(g, S)
    BY <1>2
<1>4. g[S] = Freed(S)
    BY <1>1, <1>3, TableFrees
<1> QED
    BY <1>3, <1>4, ReleasedIs

-----------------------------------------------------------------------------
(* The index into depart_list. *)

RequestsOk ==
    /\ NumRequests \in Nat
    /\ \A r \in ReqId : /\ reqs[r].pair \in Pairs /\ reqs[r].bandwidth \in Bandwidth
                         /\ reqs[r].due \in Nat /\ reqs[r].due > r

\* A training starts with requests that are in order.
LEMMA StartIsInOrder ==
    ASSUME Init
    PROVE  /\ RequestsOk
           /\ chosen.pair \in Pairs /\ chosen.arm \in Arm /\ chosen.level = 0
<1>1. NumRequests \in Nat /\ NumRequests >= 2 /\ KPaths \in Nat /\ KPaths >= 1
    BY AgentsAssumption
<1>2. /\ reqs \in [ReqId -> [pair : Pairs, bandwidth : Bandwidth, due : 1..(NumRequests + 1)]]
      /\ \A r \in ReqId : reqs[r].due > r
    BY DEF Init
<1>3. RequestsOk
    BY ONLY <1>1, <1>2 DEF RequestsOk
<1>4. 1 \in ReqId /\ 1 \in Arm
    BY ONLY <1>1 DEF ReqId, Arm
<1>5. chosen = [pair |-> reqs[1].pair, arm |-> 1, level |-> 0]
    BY DEF Init
<1>6. reqs[1].pair \in Pairs
    BY ONLY <1>2, <1>4
<1> QED
    BY ONLY <1>3, <1>4, <1>5, <1>6

\* Departures are finitely many, and the more the later.
LEMMA DepartedGrow ==
    ASSUME RequestsOk, NEW m \in Int, NEW n \in Int, m <= n
    PROVE  /\ DepartedBy(m) \subseteq DepartedBy(n) /\ IsFiniteSet(DepartedBy(n))
           /\ Cardinality(DepartedBy(m)) \in Nat /\ Cardinality(DepartedBy(n)) \in Nat
           /\ Cardinality(DepartedBy(m)) <= Cardinality(DepartedBy(n))
<1>1. DepartedBy(m) \subseteq DepartedBy(n)
    BY DEF DepartedBy, RequestsOk
<1>2. DepartedBy(n) \subseteq 1..NumRequests
    BY DEF DepartedBy, ReqId
<1>3. IsFiniteSet(1..NumRequests)
    BY FS_Interval DEF RequestsOk
<1>4. IsFiniteSet(DepartedBy(n)) /\ IsFiniteSet(DepartedBy(m))
    BY <1>1, <1>2, <1>3, FS_Subset
<1> QED
    BY <1>1, <1>4, FS_Subset, FS_CardinalityType

\* A release is beyond the departures by some time exactly when it is not one of them.
LEMMA PositionTells ==
    ASSUME RequestsOk, NEW n \in Int, NEW r \in ReqId
    PROVE  Position(r) > Cardinality(DepartedBy(n)) <=> r \notin DepartedBy(n)
<1> DEFINE upTo == {q \in ReqId : reqs[q].due < reqs[r].due \/ (reqs[q].due = reqs[r].due /\ q <= r)}
<1>0. r \in Nat /\ reqs[r].due \in Nat /\ \A q \in ReqId : q \in Nat /\ reqs[q].due \in Nat
    BY DEF RequestsOk, ReqId
<1>1. Position(r) = Cardinality(upTo) /\ r \in upTo
    BY <1>0 DEF Position
<1>2. IsFiniteSet(upTo) /\ Cardinality(upTo) \in Nat
    <2>1. IsFiniteSet(1..NumRequests) /\ upTo \subseteq 1..NumRequests
        BY FS_Interval DEF RequestsOk, ReqId
    <2> QED
        BY <2>1, FS_Subset, FS_CardinalityType
<1>3. IsFiniteSet(DepartedBy(n)) /\ Cardinality(DepartedBy(n)) \in Nat
    BY DepartedGrow
<1>4. CASE r \in DepartedBy(n)
    <2>1. upTo \subseteq DepartedBy(n)
        <3>1. ASSUME NEW q \in upTo
              PROVE  q \in DepartedBy(n)
            <4>1. q \in ReqId /\ reqs[q].due <= reqs[r].due /\ reqs[r].due <= n
                BY <1>0, <1>4 DEF DepartedBy
            <4> QED
                BY <1>0, <4>1 DEF DepartedBy
        <3> QED
            BY <3>1
    <2>2. Cardinality(upTo) <= Cardinality(DepartedBy(n))
        BY <1>3, <2>1, FS_Subset
    <2> QED
        BY <1>1, <1>2, <1>3, <1>4, <2>2
<1>5. CASE r \notin DepartedBy(n)
    <2>1. DepartedBy(n) \subseteq upTo /\ DepartedBy(n) # upTo
        <3>1. ASSUME NEW q \in DepartedBy(n)
              PROVE  q \in upTo
            <4>1. q \in ReqId /\ reqs[q].due <= n /\ reqs[r].due > n
                BY <1>0, <1>5 DEF DepartedBy
            <4>2. reqs[q].due < reqs[r].due
                BY <1>0, <4>1
            <4> QED
                BY <4>1, <4>2
        <3> HIDE DEF upTo
        <3> QED
            BY <1>1, <1>5, <3>1
    <2>2. Cardinality(DepartedBy(n)) < Cardinality(upTo)
        <3> HIDE DEF upTo
        <3> QED
            BY <1>2, <1>3, <2>1, FS_Subset
    <2> QED
        BY <1>1, <1>2, <1>3, <1>5, <2>2
<1> QED
    BY <1>4, <1>5

-----------------------------------------------------------------------------
(* The lightpaths of an episode. *)

Offered == {Routes[x[1]][x[2]] : x \in Pairs \X Arm}

ServedType == [iteration : Nat, id : ReqId, path : Offered, allocated : BOOLEAN]

\* The entries of the requests that were allocated in the present episode.
InEpisode == {i \in DOMAIN served : served[i].iteration = iteration /\ served[i].allocated}

\* A spectrum holds the lightpaths of this episode that are due to leave after time n, each
\* on all links of its path, and nothing else.
Due(nt, n) ==
    /\ \A i \in InEpisode : reqs[served[i].id].due > n =>
          {x[1] : x \in CellsOf(nt, served[i].id)} = LinksOf(served[i].path)
    /\ \A x \in Cell : nt[x] # 0 =>
          \E i \in InEpisode : reqs[served[i].id].due > n /\ nt[x] \in {served[i].id, -served[i].id}

\* The arrival up to which departures are processed.
Clock == IF pc = "observe_reset" THEN 0 ELSE IF pc = "observe_step" THEN arrival_count ELSE Current

\* The last request served in the present episode.
LastServed ==
    IF pc = "learn" THEN arrival_count + 1
    ELSE IF arrival_count = NumRequests THEN 0 ELSE arrival_count

HeldTypes ==
    /\ RequestsOk
    /\ net \in [Cell -> Int]
    /\ reqs_status \in [ReqId -> Offered \union {None}]
    /\ served \in Seq(ServedType)
    /\ chosen.pair \in Pairs /\ chosen.arm \in Arm
    /\ iteration \in Nat /\ arrival_count \in 0..NumRequests
    /\ pc \in {"reset", "observe_reset", "observe_step", "step", "learn", "loop", "done"}
    /\ pc = "reset" => arrival_count \in {0, NumRequests}
    /\ pc = "observe_reset" => arrival_count = 0
    /\ pc \in {"step", "learn"} => arrival_count < NumRequests
    /\ pc = "observe_step" => arrival_count > 0

\* The entries of the present episode are those of the requests served so far.
EntriesInv ==
    \A i \in DOMAIN served :
        /\ served[i].iteration <= iteration
        /\ served[i].iteration = iteration => served[i].id \in 1..LastServed

\* Within an episode the index into depart_list and the spectrum follow the clock; the
\* entries of the episode say where its lightpaths are, whatever reqs_status_dict keeps
\* of earlier ones.
EpisodeInv ==
    /\ last_processed = Cardinality(DepartedBy(Clock))
    /\ \A i \in InEpisode : reqs_status[served[i].id] = served[i].path
    /\ Due(net, Clock)

HeldInv ==
    /\ HeldTypes
    /\ EntriesInv
    /\ pc # "reset" /\ arrival_count < NumRequests => EpisodeInv

-----------------------------------------------------------------------------
(* Releases and arrivals follow the clock. *)

\* The lesser and the greater of two numbers.
LEMMA MinMaxOfTwo ==
    ASSUME NEW a \in Int, NEW b \in Int
    PROVE  /\ Min({a, b}) = (IF a <= b THEN a ELSE b)
           /\ Max({a, b}) = (IF a <= b THEN b ELSE a)
<1>1. \A x \in {a, b} : (\A y \in {a, b} : x <= y) => x = (IF a <= b THEN a ELSE b)
    OBVIOUS
<1>2. \A x \in {a, b} : (\A y \in {a, b} : x >= y) => x = (IF a <= b THEN b ELSE a)
    OBVIOUS
<1>3. \E x \in {a, b} : \A y \in {a, b} : x <= y
    OBVIOUS
<1>4. \E x \in {a, b} : \A y \in {a, b} : x >= y
    OBVIOUS
<1> QED
    BY <1>1, <1>2, <1>3, <1>4 DEF Min, Max

\* The request an observation is about: the next, or the last.
LEMMA CurrentIs ==
    ASSUME arrival_count \in 0..NumRequests
    PROVE  /\ Current = (IF arrival_count = NumRequests THEN arrival_count ELSE arrival_count + 1)
           /\ Current \in ReqId
<1>1. NumRequests \in Nat /\ NumRequests >= 2
    BY AgentsAssumption
<1>2. Min({arrival_count, NumRequests - 1}) =
          (IF arrival_count <= NumRequests - 1 THEN arrival_count ELSE NumRequests - 1)
    BY <1>1, MinMaxOfTwo
<1> QED
    BY <1>1, <1>2 DEF Current, ReqId

\* The entries of served.
LEMMA EntryIs ==
    ASSUME served \in Seq(ServedType), NEW i \in DOMAIN served
    PROVE  /\ served[i].id \in ReqId /\ served[i].path \in Offered
           /\ served[i].iteration \in Nat
<1>1. served[i] \in ServedType
    BY ElementOfSeq
<1> QED
    BY <1>1 DEF ServedType

\* The paths offered are paths.
LEMMA OfferedArePaths ==
    ASSUME NEW path \in Offered
    PROVE  IsPath(path) /\ path # None
BY EnvAssumption, RoutesDiffer DEF Offered

\* handle_releases from the clock to the present request.
LEMMA ReleasedIsDue ==
    ASSUME HeldTypes, NEW m \in Int, m <= Current, last_processed = Cardinality(DepartedBy(m)),
           \A i \in InEpisode : reqs_status[served[i].id] = served[i].path,
           Due(net, m)
    PROVE  /\ Due(Released, Current)
           /\ Processed = Cardinality(DepartedBy(Current))
<1>1. /\ RequestsOk /\ net \in [Cell -> Int] /\ NumRequests \in Nat
      /\ served \in Seq(ServedType) /\ Current \in ReqId /\ Current \in Nat
    BY CurrentIs DEF HeldTypes, RequestsOk, ReqId
<1>2. Departed = DepartedBy(Current)
    BY DEF Departed, DepartedBy
<1>3. PICK S : S = {r \in Departed : Position(r) > last_processed /\ reqs_status[r] # None}
    OBVIOUS
<1>4. ASSUME NEW r
      PROVE  r \in S <=> /\ r \in DepartedBy(Current) /\ r \notin DepartedBy(m)
                         /\ reqs_status[r] # None
    <2>1. r \in DepartedBy(Current) => r \in ReqId
        BY DEF DepartedBy
    <2>2. r \in ReqId => (Position(r) > last_processed <=> r \notin DepartedBy(m))
        BY <1>1, PositionTells
    <2> QED
        BY <1>2, <1>3, <2>1, <2>2
<1>5. Released = [x \in Cell |-> IF FreedBy(S, x) THEN 0 ELSE net[x]]
    BY <1>1, <1>3, ReleasedFrees
<1>6. Processed = Cardinality(DepartedBy(Current))
    <2>1. /\ Cardinality(DepartedBy(m)) \in Nat /\ Cardinality(DepartedBy(Current)) \in Nat
          /\ Cardinality(DepartedBy(m)) <= Cardinality(DepartedBy(Current))
        BY <1>1, DepartedGrow
    <2>2. PICK a, b : a = Cardinality(DepartedBy(m)) /\ b = Cardinality(DepartedBy(Current))
        OBVIOUS
    <2>3. Processed = Max({a, b})
        BY <1>2, <2>2 DEF Processed
    <2>4. a \in Int /\ b \in Int /\ a <= b
        BY <2>1, <2>2
    <2>5. Max({a, b}) = IF a <= b THEN b ELSE a
        BY <2>4, MinMaxOfTwo
    <2>6. Processed = b
        BY <2>3, <2>4, <2>5
    <2> QED
        BY <2>2, <2>6
<1>7. ASSUME NEW i \in InEpisode, reqs[served[i].id].due > Current
      PROVE  {x[1] : x \in CellsOf(Released, served[i].id)} = LinksOf(served[i].path)
    <2>1. PICK id \in ReqId : id = served[i].id
        BY <1>1, EntryIs DEF InEpisode
    <2>2. id \in Nat \ {0} /\ id \notin DepartedBy(Current) /\ reqs[id].due \in Nat
        BY <1>1, <1>7, <2>1 DEF DepartedBy, ReqId, RequestsOk
    <2>3. id \notin S /\ S \subseteq Nat \ {0}
        BY <1>1, <1>4, <2>2 DEF DepartedBy, ReqId
    <2>4. ASSUME NEW x \in Cell
          PROVE  Released[x] \in {id, -id} <=> net[x] \in {id, -id}
        <3>1. net[x] \in {id, -id} => ~FreedBy(S, x)
            BY <2>2, <2>3 DEF FreedBy
        <3> QED
            BY <1>5, <2>2, <3>1
    <2>5. CellsOf(Released, id) = CellsOf(net, id)
        BY <2>4 DEF CellsOf
    <2>6. reqs[id].due > m
        BY <1>1, <1>7, <2>1, <2>2
    <2> QED
        BY <2>1, <2>5, <2>6 DEF Due
<1>8. ASSUME NEW x \in Cell, Released[x] # 0
      PROVE  \E i \in InEpisode : /\ reqs[served[i].id].due > Current
                                  /\ Released[x] \in {served[i].id, -served[i].id}
    <2>1. Released[x] = net[x] /\ net[x] # 0 /\ ~FreedBy(S, x)
        BY <1>5, <1>8
    <2>2. PICK i \in InEpisode : reqs[served[i].id].due > m /\ net[x] \in {served[i].id, -served[i].id}
        BY <2>1 DEF Due
    <2>3. PICK id \in ReqId : id = served[i].id
        BY <1>1, EntryIs DEF InEpisode
    <2>4. reqs[id].due \in Nat
        BY <1>1, <2>3 DEF RequestsOk
    <2>5. ASSUME ~(reqs[id].due > Current)
          PROVE  FALSE
        <3>1. id \in DepartedBy(Current) /\ id \notin DepartedBy(m)
            BY <1>1, <2>2, <2>3, <2>4, <2>5 DEF DepartedBy
        <3>2. reqs_status[id] = served[i].path /\ served[i].path # None
            BY <1>1, <2>2, <2>3, EntryIs, OfferedArePaths DEF InEpisode
        <3>3. id \in S
            BY <1>4, <3>1, <3>2
        <3>4. x \in CellsOf(net, id)
            BY <2>2, <2>3 DEF CellsOf
        <3>5. x[1] \in LinksOf(served[i].path)
            BY <2>2, <2>3, <3>4 DEF Due
        <3> QED
            BY <2>1, <2>2, <2>3, <3>2, <3>3, <3>5 DEF FreedBy
    <2> QED
        BY <2>1, <2>2, <2>3, <2>5
<1> QED
    BY <1>6, <1>7, <1>8 DEF Due

\* allocate gives a request a cell on every link of its path, and no other cell.
LEMMA AllocatedOnPath ==
    ASSUME SearchFits, NEW nt \in [Cell -> Int], NEW r \in Nat \ {0}, NEW path, IsPath(path),
           NEW n \in Nat \ {0}, NEW w, Fits(nt, path, n, w), \A x \in Cell : nt[x] \notin {r, -r}
    PROVE  {x[1] : x \in CellsOf(Allocate(nt, r, path, w), r)} = LinksOf(path)
<1>1. CanAllocate(nt, path, w)
    BY SpectrumAssumption, FitsIsWritten DEF SearchFits
<1>2. PICK new : new = Allocate(nt, r, path, w)
    OBVIOUS
<1>3. ASSUME NEW x \in CellsOf(new, r)
      PROVE  x[1] \in LinksOf(path)
    BY <1>1, <1>2, <1>3, AllocateCell DEF CellsOf
<1>4. ASSUME NEW l \in LinksOf(path)
      PROVE  \E x \in CellsOf(new, r) : x[1] = l
    <2>1. PICK b \in Band, c \in Core, s \in Int :
              b = w.curr_band /\ c = w.core_num /\ s = w.start_slot /\ s \in Slot(b)
        BY DEF Fits, Slot
    <2>2. DataStop(w) = s + n
        BY <2>1 DEF Fits
    <2>3. l \in Link
        BY DEF IsPath
    <2>4. PICK x \in Cell : x = <<l, b, c, s>>
        BY <2>1, <2>3, TupleIsCell
    <2>5. OnChannel(x, path, w) /\ x[4] \in DataSlots(w)
        BY <2>1, <2>2, <2>4 DEF OnChannel, DataSlots
    <2>6. new[x] = r
        BY <1>2, <2>5 DEF Allocate
    <2> QED
        BY <2>4, <2>6 DEF CellsOf
<1> QED
    BY <1>2, <1>3, <1>4

\* allocate leaves the cells of other requests to them.
LEMMA AllocatedLeaves ==
    ASSUME SearchFits, NEW nt \in [Cell -> Int], NEW r \in Nat \ {0}, NEW path,
           NEW n \in Nat \ {0}, NEW w, Fits(nt, path, n, w), NEW q \in Nat \ {0}, q # r
    PROVE  CellsOf(Allocate(nt, r, path, w), q) = CellsOf(nt, q)
<1>1. CanAllocate(nt, path, w)
    BY SpectrumAssumption, FitsIsWritten DEF SearchFits
<1>2. PICK new : new = Allocate(nt, r, path, w)
    OBVIOUS
<1>3. ASSUME NEW x \in Cell
      PROVE  new[x] \in {q, -q} <=> nt[x] \in {q, -q}
    <2>1. new[x] = nt[x] \/ (nt[x] = 0 /\ new[x] \in {r, -r})
        BY <1>1, <1>2, AllocateCell
    <2> QED
        BY <2>1
<1> QED
    BY <1>2, <1>3 DEF CellsOf

-----------------------------------------------------------------------------
(* The spectrum follows the clock through an episode. *)

\* get_route chooses one of the arms.
LEMMA GetRouteIsArm ==
    ASSUME NEW a, NEW p, NEW levels
    PROVE  GetRoute(a, p, levels) \subseteq Arm
BY Zenon DEF GetRoute, BanditRoute, QlRoute, UcbArms, ArgMax, Explored

\* The path that was chosen is one of those offered.
LEMMA ChosenIsOffered ==
    ASSUME HeldTypes
    PROVE  ChosenPath \in Offered
<1>1. <<chosen.pair, chosen.arm>> \in Pairs \X Arm
    BY DEF HeldTypes
<1> QED
    BY <1>1 DEF Offered, ChosenPath

\* The window of an arrival fits the path that was chosen.
LEMMA WindowFits ==
    ASSUME SearchFits, HeldTypes, NEW nt, NEW r \in ReqId, NEW w \in Assignments(nt, r)
    PROVE  /\ ChosenPath \in Offered
           /\ \E n \in Nat \ {0} : Fits(nt, ChosenPath, n, w)
<1>1. ChosenPath \in Offered /\ IsPath(ChosenPath)
    BY ChosenIsOffered, OfferedArePaths
<1>2. ForcedMod(r) # NoMod /\ IsFree(nt, Forced(r)) /\ w = Assigned(nt, Forced(r))
    BY DEF Assignments
<1>3. ForcedMod(r) \in Mod
    BY <1>2 DEF ForcedMod, GetPathMod, Mod
<1>4. PICK n : n = ModPerBw[reqs[r].bandwidth][ForcedMod(r)].slots_needed
    OBVIOUS
<1>5. n \in Nat \ {0}
    <2>1. PICK bw \in Bandwidth : bw = reqs[r].bandwidth
        BY DEF HeldTypes, RequestsOk
    <2>2. PICK m \in Mod : m = ForcedMod(r)
        BY <1>3
    <2>3. ModPerBw[bw][m].slots_needed \in Nat \ {0}
        BY RoutingAssumption
    <2> QED
        BY <1>4, <2>1, <2>2, <2>3
<1>6. /\ Forced(r).path_list = ChosenPath /\ Forced(r).slots_needed = n
      /\ Forced(r).forced_core = None /\ Forced(r).forced_index = None
    BY <1>4 DEF Forced
<1>7. PICK props : props = Forced(r)
    OBVIOUS
<1>8. PropsOk(props)
    BY <1>1, <1>5, <1>6, <1>7 DEF PropsOk
<1>9. Fits(nt, ChosenPath, n, w)
    BY <1>2, <1>6, <1>7, <1>8, AssignedFits, SpectrumAssumption, SearchAssumption
<1> QED
    BY <1>1, <1>5, <1>9

\* handle_releases leaves a spectrum.
LEMMA ReleasedType ==
    ASSUME HeldTypes
    PROVE  Released \in [Cell -> Int]
<1>1. PICK S : S = {r \in Departed : Position(r) > last_processed /\ reqs_status[r] # None}
    OBVIOUS
<1>2. net \in [Cell -> Int] /\ NumRequests \in Nat
    BY DEF HeldTypes, RequestsOk
<1>3. Released = [x \in Cell |-> IF FreedBy(S, x) THEN 0 ELSE net[x]]
    BY <1>1, <1>2, ReleasedFrees
<1> QED
    BY <1>2, <1>3

\* One more entry.
LEMMA ServedGrows ==
    ASSUME served \in Seq(ServedType), NEW e \in ServedType, served' = Append(served, e),
           iteration' = iteration, e.iteration = iteration
    PROVE  /\ served' \in Seq(ServedType)
           /\ DOMAIN served' = DOMAIN served \union {Len(served) + 1}
           /\ \A i \in DOMAIN served : served'[i] = served[i]
           /\ served'[Len(served) + 1] = e
           /\ InEpisode' = InEpisode \union (IF e.allocated THEN {Len(served) + 1} ELSE {})
<1>1. /\ served' \in Seq(ServedType)
      /\ DOMAIN served' = DOMAIN served \union {Len(served) + 1}
      /\ \A i \in DOMAIN served : served'[i] = served[i]
      /\ served'[Len(served) + 1] = e
      /\ Len(served) + 1 \notin DOMAIN served
    OBVIOUS
<1> QED
    BY <1>1 DEF InEpisode

\* An arrival, allocated or blocked.
LEMMA ServeKeepsHeld ==
    ASSUME SearchFits, HeldInv, Serve, pc' # "raised"
    PROVE  HeldInv'
<1>1. /\ pc = "step" /\ pc' = "learn" /\ arrival_count < NumRequests
      /\ last_processed' = Processed
      /\ reqs' = reqs /\ iteration' = iteration /\ arrival_count' = arrival_count /\ chosen' = chosen
    BY ServeIs DEF Serve
<1>2. HeldTypes /\ EntriesInv /\ EpisodeInv
    BY <1>1 DEF HeldInv
<1>3. /\ arrival_count \in Nat /\ arrival_count \in 0..NumRequests /\ NumRequests \in Nat
      /\ served \in Seq(ServedType) /\ iteration \in Nat /\ RequestsOk
      /\ reqs_status \in [ReqId -> Offered \union {None}]
    BY <1>2 DEF HeldTypes, RequestsOk
<1>4. PICK nt, r, e :
          /\ nt = Released /\ r = arrival_count + 1
          /\ e = [iteration |-> iteration, id |-> r, path |-> ChosenPath,
                  allocated |-> Assignments(nt, r) # {}]
          /\ served' = Append(served, e)
          /\ IF Assignments(nt, r) = {} THEN net' = nt /\ reqs_status' = reqs_status
             ELSE \E w \in Assignments(nt, r) :
                     /\ net' = Allocate(nt, r, ChosenPath, w)
                     /\ reqs_status' = [reqs_status EXCEPT ![r] = ChosenPath]
    BY ServeIs
<1>5. /\ r \in ReqId /\ r \in Nat \ {0} /\ Current = r /\ Clock = r /\ Clock' = r
      /\ LastServed = arrival_count /\ LastServed' = r
    BY <1>1, <1>3, <1>4, CurrentIs DEF Clock, LastServed, Current, ReqId
<1>6. Due(nt, r) /\ Processed = Cardinality(DepartedBy(r))
    BY <1>2, <1>3, <1>4, <1>5, ReleasedIsDue DEF EpisodeInv
<1>7. nt \in [Cell -> Int]
    BY <1>2, <1>4, ReleasedType
<1>8. ChosenPath \in Offered
    BY <1>2, ChosenIsOffered
<1>9. e \in ServedType /\ e.iteration = iteration /\ e.id = r /\ e.path = ChosenPath
      /\ (e.allocated <=> Assignments(nt, r) # {})
    BY <1>3, <1>4, <1>5, <1>8 DEF ServedType
<1>10. PICK z : z = Len(served) + 1
    OBVIOUS
<1>11. /\ served' \in Seq(ServedType)
       /\ DOMAIN served' = DOMAIN served \union {z}
       /\ \A i \in DOMAIN served : served'[i] = served[i]
       /\ served'[z] = e
       /\ InEpisode' = InEpisode \union (IF e.allocated THEN {z} ELSE {})
    BY <1>1, <1>3, <1>4, <1>9, <1>10, ServedGrows
<1>12. ASSUME NEW i \in InEpisode
       PROVE  /\ served[i].id \in 1..arrival_count /\ served[i].id # r /\ served[i].id \in Nat \ {0}
              /\ i \in DOMAIN served
    BY <1>2, <1>3, <1>4, <1>5 DEF InEpisode, EntriesInv
<1>13. EntriesInv'
    <2>1. ASSUME NEW i \in DOMAIN served'
          PROVE  /\ served'[i].iteration <= iteration
                 /\ served'[i].iteration = iteration => served'[i].id \in 1..r
        <3>1. CASE i = z
            BY <1>3, <1>5, <1>9, <1>11, <3>1
        <3>2. CASE i \in DOMAIN served
            BY <1>2, <1>3, <1>4, <1>5, <1>11, <3>2 DEF EntriesInv
        <3> QED
            BY <1>11, <2>1, <3>1, <3>2
    <2> QED
        BY <1>1, <1>5, <2>1 DEF EntriesInv
<1>14. (\A q \in Int : DepartedBy(q)' = DepartedBy(q)) /\ RequestsOk'
    BY <1>1, <1>3 DEF DepartedBy, RequestsOk
<1>15. last_processed' = Cardinality(DepartedBy(Clock))'
    BY <1>1, <1>5, <1>6, <1>14 DEF DepartedBy
<1>16. CASE Assignments(nt, r) = {}
    <2>1. net' = nt /\ reqs_status' = reqs_status /\ InEpisode' = InEpisode
        BY <1>4, <1>9, <1>11, <1>16
    <2>2. HeldTypes'
        BY <1>1, <1>2, <1>3, <1>7, <1>11, <1>14, <2>1 DEF HeldTypes
    <2>3. \A i \in InEpisode' : reqs_status'[served'[i].id] = served'[i].path
        BY <1>2, <1>11, <1>12, <2>1 DEF EpisodeInv
    <2>4. Due(net, Clock)'
        BY <1>1, <1>5, <1>6, <1>11, <1>12, <2>1 DEF Due
    <2> QED
        BY <1>13, <1>15, <2>2, <2>3, <2>4 DEF HeldInv, EpisodeInv
<1>17. CASE Assignments(nt, r) # {}
    <2>1. PICK w \in Assignments(nt, r) :
              /\ net' = Allocate(nt, r, ChosenPath, w)
              /\ reqs_status' = [reqs_status EXCEPT ![r] = ChosenPath]
        BY <1>4, <1>17
    <2>2. InEpisode' = InEpisode \union {z}
        BY <1>9, <1>11, <1>17
    <2>3. PICK n \in Nat \ {0} : Fits(nt, ChosenPath, n, w)
        BY <1>2, <1>5, WindowFits
    <2>4. CanAllocate(nt, ChosenPath, w) /\ IsPath(ChosenPath)
        BY <1>8, <2>3, SpectrumAssumption, FitsIsWritten, OfferedArePaths DEF SearchFits
    <2>5. \A x \in Cell : nt[x] \notin {r, -r}
        <3>1. ASSUME NEW x \in Cell, nt[x] \in {r, -r}
              PROVE  FALSE
            <4>1. nt[x] # 0
                BY <1>5, <3>1
            <4>2. PICK i \in InEpisode : nt[x] \in {served[i].id, -served[i].id}
                BY <1>6, <4>1 DEF Due
            <4> QED
                BY <1>5, <1>12, <3>1, <4>2
        <3> QED
            BY <3>1
    <2>6. HeldTypes'
        <3>1. net' \in [Cell -> Int]
            BY <1>5, <1>7, <2>1, AllocateType
        <3>2. reqs_status' \in [ReqId -> Offered \union {None}]
            BY <1>3, <1>8, <2>1
        <3> QED
            BY <1>1, <1>2, <1>3, <1>11, <1>14, <3>1, <3>2 DEF HeldTypes
    <2>7. ASSUME NEW i \in InEpisode'
          PROVE  reqs_status'[served'[i].id] = served'[i].path
        <3>1. CASE i = z
            BY <1>3, <1>5, <1>9, <1>11, <2>1, <3>1
        <3>2. CASE i \in InEpisode
            BY <1>2, <1>3, <1>11, <1>12, <2>1, <3>2 DEF EpisodeInv
        <3> QED
            BY <2>2, <2>7, <3>1, <3>2
    <2>8. ASSUME NEW i \in InEpisode', reqs[served'[i].id].due > r
          PROVE  {x[1] : x \in CellsOf(net', served'[i].id)} = LinksOf(served'[i].path)
        <3>1. CASE i = z
            BY <1>5, <1>7, <1>9, <1>11, <2>1, <2>3, <2>4, <2>5, <3>1, AllocatedOnPath
        <3>2. CASE i \in InEpisode
            <4>1. CellsOf(net', served[i].id) = CellsOf(nt, served[i].id)
                BY <1>5, <1>7, <1>12, <2>1, <2>3, <3>2, AllocatedLeaves
            <4> QED
                BY <1>6, <1>11, <1>12, <2>8, <3>2, <4>1 DEF Due
        <3> QED
            BY <2>2, <2>8, <3>1, <3>2
    <2>9. ASSUME NEW x \in Cell, net'[x] # 0
          PROVE  \E i \in InEpisode' : /\ reqs[served'[i].id].due > r
                                       /\ net'[x] \in {served'[i].id, -served'[i].id}
        <3>1. CASE net'[x] = nt[x]
            <4>1. PICK i \in InEpisode : /\ reqs[served[i].id].due > r
                                         /\ nt[x] \in {served[i].id, -served[i].id}
                BY <1>6, <2>9, <3>1 DEF Due
            <4> QED
                BY <1>11, <1>12, <2>2, <3>1, <4>1
        <3>2. CASE net'[x] # nt[x]
            <4>1. net'[x] \in {r, -r}
                BY <2>1, <2>4, <3>2, AllocateCell
            <4>2. z \in InEpisode' /\ served'[z].id = r /\ reqs[r].due > r
                BY <1>3, <1>5, <1>9, <1>11, <2>2 DEF RequestsOk
            <4> QED
                BY <4>1, <4>2
        <3> QED
            BY <3>1, <3>2
    <2>10. Due(net, Clock)'
        BY <1>1, <1>5, <2>8, <2>9 DEF Due
    <2> QED
        BY <1>13, <1>15, <2>6, <2>7, <2>10 DEF HeldInv, EpisodeInv
<1> QED
    BY <1>16, <1>17

\* An observation, of the reset or of a step.
LEMMA ObserveKeepsHeld ==
    ASSUME HeldInv, Observe
    PROVE  HeldInv'
<1>1. /\ pc \in {"observe_reset", "observe_step"}
      /\ pc' = IF pc = "observe_step" THEN "loop" ELSE IF constructed THEN "step" ELSE "reset"
      /\ last_processed' = Processed /\ net' = Released
      /\ reqs' = reqs /\ reqs_status' = reqs_status /\ served' = served
      /\ iteration' = iteration /\ arrival_count' = arrival_count
    BY DEF Observe
<1>2. HeldTypes /\ EntriesInv /\ (arrival_count < NumRequests => EpisodeInv)
    BY <1>1 DEF HeldInv
<1>3. /\ arrival_count \in Nat /\ arrival_count \in 0..NumRequests /\ NumRequests \in Nat
      /\ NumRequests >= 2 /\ (pc = "observe_reset" => arrival_count = 0)
    BY <1>2, AgentsAssumption DEF HeldTypes
<1>4. HeldTypes'
    <2>1. chosen'.pair \in Pairs /\ chosen'.arm \in Arm
        <3>1. PICK p, levels : /\ p = reqs[Current].pair
                               /\ \E k \in GetRoute(agent, p, levels) :
                                     chosen' = [pair |-> p, arm |-> k, level |-> levels[k]]
            BY DEF Observe
        <3>2. PICK k \in Arm : chosen' = [pair |-> p, arm |-> k, level |-> levels[k]]
            BY <3>1, GetRouteIsArm
        <3>3. p \in Pairs
            BY <1>2, <1>3, <3>1, CurrentIs DEF HeldTypes, RequestsOk
        <3> QED
            BY <3>2, <3>3
    <2>2. net' \in [Cell -> Int]
        BY <1>1, <1>2, ReleasedType
    <2> QED
        BY <1>1, <1>2, <1>3, <2>1, <2>2 DEF HeldTypes, RequestsOk
<1>5. EntriesInv'
    BY <1>1, <1>2, <1>3 DEF EntriesInv, LastServed
<1>6. ASSUME arrival_count < NumRequests, pc' # "reset"
      PROVE  EpisodeInv'
    <2>1. /\ Clock \in Int /\ Clock <= Current /\ Clock' = Current
        BY <1>1, <1>3, <1>6, CurrentIs DEF Clock, Current
    <2>2. Due(Released, Current) /\ Processed = Cardinality(DepartedBy(Current))
        BY <1>2, <1>6, <2>1, ReleasedIsDue DEF EpisodeInv
    <2> QED
        BY <1>1, <1>2, <1>6, <2>1, <2>2 DEF EpisodeInv, InEpisode, Due, DepartedBy
<1> QED
    BY <1>1, <1>4, <1>5, <1>6 DEF HeldInv

\* reset starts with nothing allocated and nothing departed.
LEMMA ResetKeepsHeld ==
    ASSUME HeldInv, Reset
    PROVE  HeldInv'
<1>1. /\ pc = "reset" /\ pc' = "observe_reset"
      /\ arrival_count' = 0 /\ last_processed' = 0 /\ net' = EmptyNet
      /\ reqs' = reqs /\ reqs_status' = reqs_status /\ served' = served
      /\ iteration' = iteration /\ chosen' = chosen
    BY DEF Reset
<1>2. HeldTypes /\ EntriesInv
    BY DEF HeldInv
<1>3. /\ arrival_count \in {0, NumRequests} /\ NumRequests \in Nat /\ NumRequests >= 2
    BY <1>1, <1>2, AgentsAssumption DEF HeldTypes
<1>4. HeldTypes'
    <2>1. net' \in [Cell -> Int]
        BY <1>1 DEF EmptyNet
    <2> QED
        BY <1>1, <1>2, <1>3, <2>1 DEF HeldTypes, RequestsOk
<1>5. LastServed = 0 /\ LastServed' = 0 /\ Clock' = 0
    BY <1>1, <1>3 DEF LastServed, Clock
<1>6. EntriesInv'
    BY <1>1, <1>2, <1>5 DEF EntriesInv
<1>7. InEpisode' = {}
    BY <1>1, <1>2, <1>5 DEF EntriesInv, InEpisode
<1>8. Cardinality(DepartedBy(0))' = 0
    <2>1. DepartedBy(0)' = {}
        BY <1>1, <1>2 DEF HeldTypes, RequestsOk, DepartedBy, ReqId
    <2> QED
        BY <2>1, FS_EmptySet
<1>9. EpisodeInv'
    BY <1>1, <1>5, <1>7, <1>8 DEF EpisodeInv, Due, EmptyNet, DepartedBy
<1> QED
    BY <1>4, <1>6, <1>9 DEF HeldInv

\* A request is counted; with the last one the episode is over.
LEMMA LearnKeepsHeld ==
    ASSUME HeldInv, Learn, pc' # "raised"
    PROVE  HeldInv'
<1>1. /\ pc = "learn" /\ arrival_count' = arrival_count + 1
      /\ iteration' = IF Terminated(arrival_count + 1) THEN iteration + 1 ELSE iteration
      /\ reqs' = reqs /\ reqs_status' = reqs_status /\ served' = served /\ net' = net
      /\ last_processed' = last_processed /\ chosen' = chosen
    BY LearnIs DEF Learn
<1>2. pc' = "observe_step"
    BY LearnIs
<1>3. HeldTypes /\ EntriesInv /\ (arrival_count < NumRequests => EpisodeInv)
    BY <1>1 DEF HeldInv
<1>4. /\ arrival_count \in Nat /\ arrival_count < NumRequests /\ NumRequests \in Nat
      /\ arrival_count \in 0..NumRequests
      /\ iteration \in Nat /\ served \in Seq(ServedType)
    BY <1>1, <1>3, AgentsAssumption DEF HeldTypes
<1>5. HeldTypes'
    <2>1. iteration' \in Nat /\ arrival_count' \in 0..NumRequests /\ arrival_count' > 0
        BY <1>1, <1>4
    <2>2. RequestsOk'
        BY <1>1, <1>3 DEF HeldTypes, RequestsOk
    <2> QED
        BY <1>1, <1>2, <1>3, <2>1, <2>2 DEF HeldTypes
<1>6. CASE arrival_count + 1 = NumRequests
    <2>1. iteration' = iteration + 1 /\ ~(arrival_count' < NumRequests)
        BY <1>1, <1>4, <1>6 DEF Terminated
    <2>2. ASSUME NEW i \in DOMAIN served
          PROVE  served[i].iteration \in Nat /\ served[i].iteration <= iteration
        BY <1>3, <1>4, EntryIs DEF EntriesInv
    <2>3. EntriesInv'
        BY <1>1, <1>4, <2>1, <2>2 DEF EntriesInv
    <2> QED
        BY <1>5, <2>1, <2>3 DEF HeldInv
<1>7. CASE arrival_count + 1 # NumRequests
    <2>1. iteration' = iteration /\ arrival_count' < NumRequests
        BY <1>1, <1>4, <1>7 DEF Terminated
    <2>2. LastServed' = LastServed /\ Clock' = Clock
        BY <1>1, <1>2, <1>4, <1>7, CurrentIs DEF LastServed, Clock
    <2>3. EntriesInv'
        BY <1>1, <1>3, <2>1, <2>2 DEF EntriesInv
    <2>4. EpisodeInv'
        BY <1>1, <1>3, <1>4, <2>1, <2>2 DEF EpisodeInv, InEpisode, Due, DepartedBy
    <2> QED
        BY <1>5, <2>3, <2>4 DEF HeldInv
<1> QED
    BY <1>6, <1>7

\* Every step.
LEMMA HeldNext ==
    ASSUME SearchFits, HeldInv, [Next]_vars, pc' # "raised"
    PROVE  HeldInv'
<1>1. CASE Loop
    <2>1. /\ pc = "loop" /\ pc' \in {"done", "reset", "step"}
          /\ pc' = "reset" => arrival_count = NumRequests
          /\ pc' = "step" => arrival_count # NumRequests
          /\ reqs' = reqs /\ reqs_status' = reqs_status /\ served' = served /\ net' = net
          /\ last_processed' = last_processed /\ chosen' = chosen
          /\ iteration' = iteration /\ arrival_count' = arrival_count
        BY <1>1 DEF Loop, Terminated
    <2>2. HeldTypes /\ EntriesInv /\ (arrival_count < NumRequests => EpisodeInv)
        BY <2>1 DEF HeldInv
    <2>3. arrival_count \in 0..NumRequests /\ NumRequests \in Nat
        BY <2>2, AgentsAssumption DEF HeldTypes
    <2>4. HeldTypes'
        BY <2>1, <2>2, <2>3 DEF HeldTypes, RequestsOk
    <2>5. LastServed' = LastServed /\ Clock' = Clock
        BY <2>1 DEF LastServed, Clock, Current
    <2>6. EntriesInv'
        BY <2>1, <2>2, <2>5 DEF EntriesInv
    <2>7. arrival_count < NumRequests => EpisodeInv'
        BY <2>1, <2>2, <2>5 DEF EpisodeInv, InEpisode, Due, DepartedBy
    <2> QED
        BY <2>1, <2>4, <2>6, <2>7 DEF HeldInv
<1>2. CASE UNCHANGED vars
    BY <1>2 DEF vars, HeldInv, EntriesInv, EpisodeInv, HeldTypes, RequestsOk, LastServed, Clock, Current, InEpisode, Due,
                DepartedBy
<1> QED
    BY <1>1, <1>2, ResetKeepsHeld, ObserveKeepsHeld, ServeKeepsHeld, LearnKeepsHeld DEF Next, Ended

\* It holds at the start, and so until a step raises.
LEMMA HeldAlways ==
    ASSUME SearchFits
    PROVE  Spec => [](pc # "raised" => HeldInv)
<1>1. Init => HeldInv
    <2> SUFFICES ASSUME Init PROVE HeldInv
        OBVIOUS
    <2>1. RequestsOk
        BY StartIsInOrder
    <2>2. net \in [Cell -> Int] /\ served = <<>> /\ arrival_count = 0 /\ pc = "reset" /\ iteration = 0
        BY DEF Init, EmptyNet
    <2>3. chosen.pair \in Pairs /\ chosen.arm \in Arm
        BY StartIsInOrder
    <2>4. HeldTypes
        BY <2>1, <2>2, <2>3, AgentsAssumption DEF Init, HeldTypes
    <2> QED
        BY <2>2, <2>4 DEF HeldInv, EntriesInv
<1>2. ASSUME pc # "raised" => HeldInv, [Next]_vars
      PROVE  (pc # "raised" => HeldInv)'
    BY <1>2, HeldNext, RaisedStays DEF vars
<1> QED
    BY <1>1, <1>2, PTL DEF Spec

\* When a request is about to be served the spectrum holds the lightpaths that are in
\* service at its arrival and nothing else.
THEOREM TrainingHoldsWhatIsDue ==
    ASSUME SearchFits
    PROVE  Spec => []HeldAreDue
<1>1. (pc # "raised" => HeldInv) => HeldAreDue
    <2> SUFFICES ASSUME HeldInv, pc = "step" PROVE HeldAreDue
        BY DEF HeldAreDue
    <2>1. HeldTypes /\ arrival_count < NumRequests /\ EpisodeInv
        BY DEF HeldInv, HeldTypes
    <2>2. Clock = arrival_count + 1
        BY <2>1, CurrentIs DEF Clock, HeldTypes
    <2>3. Due(net, arrival_count + 1)
        BY <2>1, <2>2 DEF EpisodeInv
    <2> QED
        BY <2>3 DEF HeldAreDue, Due, InEpisode
<1> QED
    BY <1>1, HeldAlways, PTL

\* The search finds a window that can be allocated, so a step that serves does not raise.
LEMMA ServeSucceeds ==
    ASSUME SearchFits, HeldInv, Serve
    PROVE  pc' = "learn"
<1>1. HeldTypes /\ arrival_count + 1 \in ReqId
    <2>1. pc = "step" /\ HeldTypes
        BY DEF Serve, HeldInv
    <2>2. arrival_count \in 0..NumRequests /\ arrival_count < NumRequests /\ NumRequests \in Nat
        BY <2>1, AgentsAssumption DEF HeldTypes
    <2> QED
        BY <2>1, <2>2 DEF ReqId
<1>2. ASSUME NEW window \in Assignments(Released, arrival_count + 1)
      PROVE  CanAllocate(Released, ChosenPath, window)
    <2>1. ChosenPath \in Offered /\ \E n \in Nat \ {0} : Fits(Released, ChosenPath, n, window)
        BY <1>1, <1>2, WindowFits
    <2> QED
        BY <2>1, SpectrumAssumption, FitsIsWritten, OfferedArePaths DEF SearchFits
<1> QED
    BY <1>2 DEF Serve

\* A step of the training raises for a due snapshot only: the search never hands allocate
\* a window that is not free, and PathAgent.update neither runs past its list of rewards
\* nor averages rows of different lengths.
THEOREM OnlySnapshotsEndTraining ==
    ASSUME SearchFits
    PROVE  Spec => []OnlySnapshotsRaise
<1>1. Init => OnlySnapshotsRaise
    BY DEF Init, OnlySnapshotsRaise
<1>2. ASSUME OnlySnapshotsRaise, pc # "raised" => ProgressInv, pc # "raised" => HeldInv, [Next]_vars
      PROVE  OnlySnapshotsRaise'
    <2>1. CASE Serve
        <3>1. pc # "raised"
            BY <2>1 DEF Serve
        <3> QED
            BY <1>2, <2>1, <3>1, ServeSucceeds DEF OnlySnapshotsRaise
    <2>2. CASE Learn
        <3>1. pc = "learn" /\ config' = config
            BY <2>2 DEF Learn
        <3>2. PICK reward : /\ reward = GetReward(WasAllocated(arrival_count + 1))
                            /\ LET raises == UpdateRaises(agent, iteration, reward) \/ SnapshotDue
                               IN  /\ pc' = IF raises THEN "raised" ELSE "observe_step"
                                   /\ arrival_count' = IF raises THEN arrival_count ELSE arrival_count + 1
            BY <2>2 DEF Learn
        <3>3. reward \in Int
            BY <3>2, AgentsAssumption DEF GetReward
        <3>4. ~UpdateRaises(agent, iteration, reward)
            BY <1>2, <3>1, <3>3, UpdateSucceeds
        <3> QED
            BY <3>1, <3>2, <3>4 DEF OnlySnapshotsRaise, SnapshotDue
    <2>3. CASE Reset \/ Observe \/ Loop
        BY <2>3 DEF Reset, Observe, Loop, OnlySnapshotsRaise
    <2>4. CASE UNCHANGED vars
        BY <1>2, <2>4 DEF vars, OnlySnapshotsRaise, SnapshotDue
    <2> QED
        BY <1>2, <2>1, <2>2, <2>3, <2>4 DEF Next, Ended
<1> QED
    BY <1>1, <1>2, ProgressAlways, HeldAlways, PTL DEF Spec

-----------------------------------------------------------------------------
(* The schedules. *)

\* The table of powers.
IsPowers(g, base, n) == g = [i \in 0..n |-> IF i = 0 THEN 1 ELSE base * g[i - 1]]

\* There is one for every exponent: none is the first without.
LEMMA PowersExist ==
    ASSUME NEW base \in Nat, NEW n \in Nat
    PROVE  \E g : IsPowers(g, base, n)
<1> DEFINE Bad == {k \in Nat : ~\E g : IsPowers(g, base, k)}
<1>1. SUFFICES ASSUME Bad # {} PROVE FALSE
    OBVIOUS
<1>2. PICK k \in Bad : \A m \in Bad : k <= m
    <2>1. Bad \subseteq Nat
        OBVIOUS
    <2> HIDE DEF Bad
    <2> QED
        BY <1>1, <2>1, LeastNatural
<1>3. k \in Nat /\ ~\E g : IsPowers(g, base, k)
    BY <1>2
<1>4. CASE k = 0
    <2> DEFINE g == [i \in 0..0 |-> 1]
    <2>1. g = [i \in 0..0 |-> IF i = 0 THEN 1 ELSE base * g[i - 1]]
        OBVIOUS
    <2> HIDE DEF g
    <2> QED
        BY <1>3, <1>4, <2>1 DEF IsPowers
<1>5. CASE k # 0
    <2>1. k - 1 \in Nat /\ \E g : IsPowers(g, base, k - 1)
        BY <1>2, <1>3, <1>5
    <2>2. PICK g : IsPowers(g, base, k - 1)
        BY <2>1
    <2> DEFINE h == [i \in 0..k |-> IF i = 0 THEN 1 ELSE base * g[i - 1]]
    <2>3. \A i \in 0..k : i # 0 => h[i - 1] = g[i - 1]
        <3> SUFFICES ASSUME NEW i \in 0..k, i # 0
                     PROVE  h[i - 1] = g[i - 1]
            OBVIOUS
        <3>1. PICK j \in 0..(k - 1) : j = i - 1
            BY <1>3
        <3>2. h[j] = IF j = 0 THEN 1 ELSE base * g[j - 1]
            BY <1>3, <3>1
        <3>3. g[j] = IF j = 0 THEN 1 ELSE base * g[j - 1]
            BY <2>2, <3>1 DEF IsPowers
        <3> QED
            BY <3>1, <3>2, <3>3
    <2>4. h = [i \in 0..k |-> IF i = 0 THEN 1 ELSE base * h[i - 1]]
        <3>1. \A i \in 0..k : (IF i = 0 THEN 1 ELSE base * g[i - 1]) = (IF i = 0 THEN 1 ELSE base * h[i - 1])
            BY <2>3
        <3> QED
            BY <3>1
    <2> HIDE DEF h
    <2> QED
        BY <1>3, <2>4 DEF IsPowers
<1> QED
    BY <1>4, <1>5

\* What Power takes the last entry of.
LEMMA PowerIs ==
    ASSUME NEW base \in Nat, NEW n \in Nat
    PROVE  \E g : /\ Power(base, n) = g[n]
                  /\ g[0] = 1
                  /\ \A i \in 1..n : g[i] = base * g[i - 1]
<1>1. PICK g : g = (CHOOSE h : IsPowers(h, base, n)) /\ IsPowers(g, base, n)
    BY PowersExist
<1>2. Power(base, n) = g[n]
    BY <1>1 DEF Power, IsPowers
<1>3. \A i \in 0..n : g[i] = IF i = 0 THEN 1 ELSE base * g[i - 1]
    BY <1>1 DEF IsPowers
<1>4. 0 \in 0..n /\ \A i \in 1..n : i \in 0..n /\ i # 0
    OBVIOUS
<1> QED
    BY <1>2, <1>3, <1>4

\* Products of natural numbers.
LEMMA Products ==
    /\ \A x, y \in Nat : x * y \in Nat /\ (x > 0 /\ y > 0 => x * y > 0)
    /\ \A x, y, u, v \in Nat : x <= y /\ u <= v => x * u <= y * v
    /\ \A x, y, z \in Int : x <= y /\ z >= 0 => x * z <= y * z
    /\ \A x, y, z \in Int : z > 0 /\ x * z <= y * z => x <= y
<1>1. \A x, y \in Nat : x * y \in Nat /\ (x > 0 /\ y > 0 => x * y > 0)
    OBVIOUS
<1>3. \A x, y, z \in Int : x <= y /\ z >= 0 => x * z <= y * z
    OBVIOUS
<1>2. ASSUME NEW x \in Nat, NEW y \in Nat, NEW u \in Nat, NEW v \in Nat, x <= y, u <= v
      PROVE  x * u <= y * v
    <2>1. x * u <= y * u
        BY <1>2, <1>3
    <2>2. u * y <= v * y
        BY <1>2, <1>3
    <2> QED
        BY <2>1, <2>2
<1>4. ASSUME NEW x \in Int, NEW y \in Int, NEW z \in Int, z > 0, x * z <= y * z, y < x
      PROVE  FALSE
    <2>1. y + 1 <= x
        BY <1>4
    <2>2. (y + 1) * z <= x * z
        BY <1>3, <1>4, <2>1
    <2> QED
        BY <1>4, <2>2
<1> QED
    BY <1>1, <1>2, <1>3, <1>4

\* A power of the lesser base is the lesser, and none is zero but those of zero: the first
\* exponent for which this failed would have one before it.
LEMMA PowersAre ==
    ASSUME NEW b \in Nat, NEW c \in Nat \ {0}, b <= c, NEW n \in Nat
    PROVE  /\ Power(b, n) \in Nat /\ Power(c, n) \in Nat \ {0}
           /\ Power(b, n) <= Power(c, n)
           /\ b > 0 => Power(b, n) > 0
<1>1. PICK g : Power(b, n) = g[n] /\ g[0] = 1 /\ \A i \in 1..n : g[i] = b * g[i - 1]
    BY PowerIs
<1>2. PICK h : Power(c, n) = h[n] /\ h[0] = 1 /\ \A i \in 1..n : h[i] = c * h[i - 1]
    BY PowerIs
<1> DEFINE Good(i) == /\ g[i] \in Nat /\ h[i] \in Nat \ {0} /\ g[i] <= h[i]
                      /\ b > 0 => g[i] > 0
           Bad == {i \in 0..n : ~Good(i)}
<1>3. Good(0)
    BY <1>1, <1>2
<1>4. ASSUME NEW i \in 1..n, Good(i - 1)
      PROVE  Good(i)
    <2>1. PICK x \in Nat, y \in Nat \ {0} : x = g[i - 1] /\ y = h[i - 1] /\ x <= y /\ (b > 0 => x > 0)
        BY <1>4
    <2>2. g[i] = b * x /\ h[i] = c * y
        BY <1>1, <1>2, <2>1
    <2>3. b * x \in Nat /\ c * y \in Nat /\ c * y > 0 /\ b * x <= c * y /\ (b > 0 => b * x > 0)
        BY <2>1, Products
    <2> QED
        BY <2>2, <2>3
<1>5. Bad = {}
    <2> SUFFICES ASSUME Bad # {} PROVE FALSE
        OBVIOUS
    <2>1. Bad \subseteq Nat /\ Bad \subseteq 0..n /\ \A i \in 0..n : i \notin Bad <=> Good(i)
        OBVIOUS
    <2> HIDE DEF Bad, Good
    <2>2. PICK k \in Bad : \A m \in Bad : k <= m
        BY <2>1, LeastNatural
    <2>3. k # 0
        BY <1>3, <2>1, <2>2
    <2>4. k \in 1..n /\ k - 1 \in 0..n /\ k - 1 \notin Bad
        BY <2>1, <2>2, <2>3
    <2> QED
        BY <1>4, <2>1, <2>4, <2>2
<1>6. Good(n)
    <2>1. n \in 0..n /\ (n \notin Bad => Good(n))
        OBVIOUS
    <2> HIDE DEF Bad, Good
    <2> QED
        BY <1>5, <2>1
<1> QED
    BY <1>1, <1>2, <1>6

\* A value of a schedule, as a fraction: at most start, in units of 1 / Unit.
AtMost(x, start) == x[1] \in Nat /\ x[2] \in Nat \ {0} /\ x[1] * Unit <= start * x[2]

\* Both decays go down from start.
LEMMA DecayedIs ==
    ASSUME DecayRate[1] <= DecayRate[2], NEW strategy, NEW start \in Nat, NEW end \in Nat, end <= start,
           NEW i \in 0..MaxIters
    PROVE  LET d == Decayed(strategy, start, end, i)
           IN  AtMost(d, start)
<1>1. Unit \in Nat \ {0} /\ MaxIters \in Nat \ {0}
    BY AgentsAssumption
<1>2. CASE strategy = "exp_decay"
    <2>1. PICK x \in Nat, y \in Nat \ {0} :
              /\ x = Power(DecayRate[1], i) /\ y = Power(DecayRate[2], i) /\ x <= y
              /\ DecayRate[1] > 0 => x > 0
        <3>1. DecayRate[1] \in Nat /\ DecayRate[2] \in Nat \ {0} /\ i \in Nat
            BY <1>1, AgentsAssumption
        <3>2. PICK b \in Nat, c \in Nat \ {0} : b = DecayRate[1] /\ c = DecayRate[2] /\ b <= c
            BY <3>1
        <3>3. /\ Power(b, i) \in Nat /\ Power(c, i) \in Nat \ {0} /\ Power(b, i) <= Power(c, i)
              /\ b > 0 => Power(b, i) > 0
            BY <3>1, <3>2, PowersAre
        <3> QED
            BY <3>2, <3>3
    <2>2. Decayed(strategy, start, end, i) = <<start * x, Unit * y>>
        BY <1>2, <2>1 DEF Decayed
    <2>3. PICK a \in Nat : a = start * x /\ (start > 0 /\ x > 0 => a > 0)
        BY Products
    <2>4. PICK e \in Nat : e = Unit * y /\ e > 0
        BY <1>1, <2>1, Products
    <2>5. a * Unit <= start * e
        <3>1. start * x <= start * y
            BY <2>1, Products
        <3>2. PICK z \in Nat : z = start * y
            BY Products
        <3>3. a * Unit <= z * Unit
            BY <1>1, <2>3, <3>1, <3>2, Products
        <3>4. start * e = z * Unit
            BY <1>1, <2>4, <3>2
        <3> QED
            BY <3>3, <3>4
    <2>6. Decayed(strategy, start, end, i)[1] = a /\ Decayed(strategy, start, end, i)[2] = e
        BY <2>2, <2>3, <2>4
    <2> QED
        BY <1>2, <2>4, <2>5, <2>6 DEF AtMost
<1>3. CASE strategy # "exp_decay"
    <2>1. PICK left \in Nat : left = MaxIters - i /\ left <= MaxIters
        BY <1>1
    <2>2. PICK drop \in Nat : drop = start - end
        OBVIOUS
    <2>3. PICK z \in Nat : z = drop * left /\ z <= drop * MaxIters
        BY <1>1, <2>1, Products
    <2>4. PICK low \in Nat : low = end * MaxIters /\ (end > 0 => low > 0)
        BY <1>1, Products
    <2>5. PICK e \in Nat : e = Unit * MaxIters /\ e > 0
        BY <1>1, Products
    <2>6. Decayed(strategy, start, end, i) = <<low + z, e>>
        BY <1>3, <2>1, <2>2, <2>3, <2>4, <2>5 DEF Decayed
    <2>7. low + z <= start * MaxIters
        <3>1. drop * MaxIters = start * MaxIters - low
            BY <1>1, <2>2, <2>4
        <3> QED
            BY <1>1, <2>3, <3>1
    <2>8. (low + z) * Unit <= start * e
        <3>1. PICK t \in Nat : t = start * MaxIters
            BY <1>1, Products
        <3>2. (low + z) * Unit <= t * Unit
            BY <1>1, <2>7, <3>1, Products
        <3>3. t * Unit = start * e
            BY <1>1, <2>5, <3>1
        <3> QED
            BY <3>2, <3>3
    <2>10. Decayed(strategy, start, end, i)[1] = low + z /\ Decayed(strategy, start, end, i)[2] = e
        BY <2>6
    <2> QED
        BY <2>4, <2>5, <2>8, <2>10 DEF AtMost
<1> QED
    BY <1>2, <1>3

-----------------------------------------------------------------------------
(* Alpha. *)

ParamTypes(a) ==
    /\ DOMAIN a = Fields
    /\ a.visits \in [Pairs \X Arm -> Nat]
    /\ a.reward_list \in Seq({Reward, Penalty})

\* Alpha is a part of the whole.
AlphaOk(a) == a.alpha[1] \in Nat /\ a.alpha[2] \in Nat \ {0} /\ a.alpha[1] <= a.alpha[2]

\* Options a training is run with: alpha starts as a part of 1, and what decays is multiplied
\* by one (the ranges of get_optuna_hyperparams).
AlphaDecays == AlphaStart <= Unit /\ DecayRate[1] <= DecayRate[2]

\* What an operation on the agent keeps.
KeepsParams(a, b) ==
    /\ ParamTypes(b)
    /\ AlphaDecays /\ AlphaOk(a) => AlphaOk(b)

\* The start of a schedule is in its range.
LEMMA StartIsOk ==
    ASSUME NEW start \in Nat, NEW n \in Nat \ {0}
    PROVE  AtMost(<<start, Unit * n>>, start)
<1>1. Unit \in Nat \ {0}
    BY AgentsAssumption
<1>2. PICK e \in Nat \ {0} : e = Unit * n
    BY <1>1, Products
<1>3. start * Unit <= start * e
    <2>1. Unit * 1 <= Unit * n
        BY <1>1, Products
    <2> QED
        BY <1>1, <1>2, <2>1, Products
<1> QED
    BY <1>2, <1>3 DEF AtMost

\* A fraction that is at most start is at most 1 if start is.
LEMMA AtMostOne ==
    ASSUME NEW start \in Nat, start <= Unit, NEW x, AtMost(x, start)
    PROVE  x[1] <= x[2]
<1>1. Unit \in Nat \ {0}
    BY AgentsAssumption
<1>2. PICK n \in Nat, d \in Nat : n = x[1] /\ d = x[2] /\ n * Unit <= start * d
    BY DEF AtMost
<1>3. start * d <= Unit * d
    BY <1>1, <1>2, Products
<1>4. n * Unit <= d * Unit
    BY <1>1, <1>2, <1>3, Products
<1> QED
    BY <1>1, <1>2, <1>4, Products

\* A new agent.
LEMMA SetupParams ==
    ASSUME NEW c
    PROVE  LET a == SetupEnv(c)
           IN  ParamTypes(a) /\ (AlphaDecays => AlphaOk(a))
<1> DEFINE a == SetupEnv(c)
<1>1. /\ DOMAIN a = Fields
      /\ a.alpha = <<AlphaStart, Unit>>
      /\ a.reward_list = <<>> /\ a.visits = [x \in Pairs \X Arm |-> 0]
    BY DEF SetupEnv, HyperparamConfig, Fields
<1>2. Unit \in Nat \ {0} /\ AlphaStart \in Nat
    BY AgentsAssumption
<1> HIDE DEF a
<1>3. ParamTypes(a)
    BY <1>1 DEF ParamTypes
<1>5. AlphaDecays => AlphaOk(a)
    BY <1>1, <1>2 DEF AlphaOk, AlphaDecays
<1> QED
    BY <1>3, <1>5 DEF a

\* A reward is remembered.
LEMMA TimestepParams ==
    ASSUME NEW a, ParamTypes(a), NEW reward \in {Reward, Penalty}
    PROVE  KeepsParams(a, UpdateTimestepData(a, reward))
<1> DEFINE b == UpdateTimestepData(a, reward)
<1>1. PICK old \in Seq({Reward, Penalty}) : old = a.reward_list
    BY DEF ParamTypes
<1>2. PICK new : new = <<reward>> \o (IF old = <<>> THEN old ELSE <<Head(old)>>)
    OBVIOUS
<1>3. new \in Seq({Reward, Penalty})
    <2>1. <<reward>> \in Seq({Reward, Penalty})
        OBVIOUS
    <2>2. CASE old = <<>>
        BY <1>2, <2>1, <2>2
    <2>3. CASE old # <<>>
        <3>1. Head(old) \in {Reward, Penalty}
            BY <2>3, HeadTailProperties
        <3>2. <<Head(old)>> \in Seq({Reward, Penalty})
            BY <3>1
        <3> QED
            BY <1>2, <2>1, <2>3, <3>2, ConcatProperties
    <2> QED
        BY <2>2, <2>3
<1>4. b = [a EXCEPT !.reward_list = new]
    BY <1>1, <1>2 DEF UpdateTimestepData
<1>5. DOMAIN b = Fields /\ b.reward_list = new /\ b.visits = a.visits /\ b.alpha = a.alpha
    BY <1>4 DEF ParamTypes, Fields
<1> HIDE DEF b
<1>6. ParamTypes(b)
    BY <1>3, <1>5 DEF ParamTypes
<1>7. AlphaOk(a) => AlphaOk(b)
    BY <1>5 DEF AlphaOk
<1> QED
    BY <1>6, <1>7 DEF KeepsParams, b

\* Parameters by the difference of two rewards.
LEMMA ByRewardIs ==
    ASSUME NEW old, NEW start \in Nat, NEW rewards \in Seq({Reward, Penalty})
    PROVE  \/ ByReward(old, start, rewards) = old
           \/ \E n \in Nat \ {0} : ByReward(old, start, rewards) = <<start, Unit * n>>
<1>1. CASE Len(rewards) # 2
    BY <1>1 DEF ByReward
<1>2. CASE Len(rewards) = 2
    <2>1. rewards[1] \in {Reward, Penalty} /\ rewards[2] \in {Reward, Penalty}
        BY <1>2
    <2>2. PICK x \in Int, y \in Int : x = rewards[1] /\ y = rewards[2]
        BY <2>1, AgentsAssumption
    <2>3. PICK n : n = 1 + (IF x < y THEN y - x ELSE x - y)
        OBVIOUS
    <2>4. n \in Nat \ {0}
        BY <2>2, <2>3
    <2>5. ByReward(old, start, rewards) = <<start, Unit * n>>
        BY <1>2, <2>2, <2>3 DEF ByReward
    <2> QED
        BY <2>4, <2>5
<1> QED
    BY <1>1, <1>2

\* update_alpha.
LEMMA AdaptAlphaParams ==
    ASSUME NEW a, ParamTypes(a), NEW p \in Pairs, NEW k \in Arm
    PROVE  KeepsParams(a, AdaptAlpha(a, p, k))
<1> DEFINE b == AdaptAlpha(a, p, k)
<1>1. Unit \in Nat \ {0} /\ AlphaStart \in Nat
    BY AgentsAssumption
<1>2. CASE b = a
    BY <1>2 DEF KeepsParams
<1>3. CASE b = VisitAlpha(a, p, k)
    <2>1. <<p, k>> \in Pairs \X Arm
        OBVIOUS
    <2>2. PICK n \in Nat \ {0} : n = a.visits[<<p, k>>] + 1
        BY <2>1 DEF ParamTypes
    <2>3. b = [a EXCEPT !.visits[<<p, k>>] = n, !.alpha = <<1, 1 + n>>]
        BY <1>3, <2>2 DEF VisitAlpha
    <2>4. /\ DOMAIN b = Fields /\ b.reward_list = a.reward_list
          /\ b.alpha = <<1, 1 + n>> /\ b.visits = [a.visits EXCEPT ![<<p, k>>] = n]
        BY <2>3 DEF ParamTypes, Fields
    <2> HIDE DEF b
    <2>5. b.visits \in [Pairs \X Arm -> Nat]
        BY <2>1, <2>4 DEF ParamTypes
    <2>6. ParamTypes(b)
        BY <2>4, <2>5 DEF ParamTypes
    <2>7. AlphaOk(b)
        BY <2>4 DEF AlphaOk
    <2> QED
        BY <2>6, <2>7 DEF KeepsParams, b
<1>4. CASE b = [a EXCEPT !.alpha = ByReward(a.alpha, AlphaStart, a.reward_list)]
    <2>1. /\ DOMAIN b = Fields /\ b.reward_list = a.reward_list /\ b.visits = a.visits
          /\ b.alpha = ByReward(a.alpha, AlphaStart, a.reward_list)
        BY <1>4 DEF ParamTypes, Fields
    <2> HIDE DEF b
    <2>2. ParamTypes(b)
        BY <2>1 DEF ParamTypes
    <2>3. b.alpha = a.alpha \/ \E n \in Nat \ {0} : b.alpha = <<AlphaStart, Unit * n>>
        <3>1. PICK rewards \in Seq({Reward, Penalty}) : rewards = a.reward_list
            BY DEF ParamTypes
        <3>2. b.alpha = ByReward(a.alpha, AlphaStart, rewards)
            BY <2>1, <3>1
        <3> QED
            BY <1>1, <3>2, ByRewardIs
    <2>4. ASSUME AlphaDecays, NEW n \in Nat \ {0}, b.alpha = <<AlphaStart, Unit * n>>
          PROVE  AlphaOk(b)
        <3>1. AtMost(b.alpha, AlphaStart)
            BY <1>1, <2>4, StartIsOk
        <3> QED
            BY <1>1, <2>4, <3>1, AtMostOne DEF AtMost, AlphaOk, AlphaDecays
    <2> QED
        BY <2>2, <2>3, <2>4 DEF KeepsParams, AlphaOk, b
<1> QED
    BY <1>2, <1>3, <1>4 DEF AdaptAlpha

\* update_eps.
LEMMA AdaptEpsParams ==
    ASSUME NEW a, ParamTypes(a), NEW p \in Pairs, NEW k \in Arm
    PROVE  KeepsParams(a, AdaptEps(a, p, k))
<1> DEFINE b == AdaptEps(a, p, k)
<1>1. CASE b = a
    BY <1>1 DEF KeepsParams
<1>2. CASE b = VisitEps(a, p, k)
    <2>1. <<p, k>> \in Pairs \X Arm
        OBVIOUS
    <2>2. PICK n \in Nat \ {0} : n = a.visits[<<p, k>>] + 1
        BY <2>1 DEF ParamTypes
    <2>3. b = [a EXCEPT !.visits[<<p, k>>] = n, !.epsilon = <<EpsilonStart, Unit * (1 + n)>>]
        BY <1>2, <2>2 DEF VisitEps
    <2>4. /\ DOMAIN b = Fields /\ b.reward_list = a.reward_list
          /\ b.alpha = a.alpha /\ b.visits = [a.visits EXCEPT ![<<p, k>>] = n]
        BY <2>3 DEF ParamTypes, Fields
    <2> HIDE DEF b
    <2>5. b.visits \in [Pairs \X Arm -> Nat]
        BY <2>1, <2>4 DEF ParamTypes
    <2> QED
        BY <2>4, <2>5 DEF ParamTypes, AlphaOk, KeepsParams, b
<1>3. CASE b = [a EXCEPT !.epsilon = ByReward(a.epsilon, EpsilonStart, a.reward_list)]
    <2>1. /\ DOMAIN b = Fields /\ b.reward_list = a.reward_list /\ b.visits = a.visits
          /\ b.alpha = a.alpha
        BY <1>3 DEF ParamTypes, Fields
    <2> HIDE DEF b
    <2> QED
        BY <2>1 DEF ParamTypes, AlphaOk, KeepsParams, b
<1> QED
    BY <1>1, <1>2, <1>3 DEF AdaptEps

\* _handle_hyperparams.
LEMMA HandleParams ==
    ASSUME NEW a, ParamTypes(a), NEW p \in Pairs, NEW k \in Arm, NEW reward \in {Reward, Penalty}
    PROVE  KeepsParams(a, HandleHyperparams(a, p, k, reward))
<1>1. PICK b : b = (IF FullyEpisodic(a) THEN a ELSE UpdateTimestepData(a, reward)) /\ KeepsParams(a, b)
    BY TimestepParams DEF KeepsParams
<1>2. PICK c : c = AdaptAlpha(b, p, k) /\ KeepsParams(b, c)
    BY <1>1, AdaptAlphaParams DEF KeepsParams
<1>3. KeepsParams(c, AdaptEps(c, p, k))
    BY <1>2, AdaptEpsParams DEF KeepsParams
<1>4. HandleHyperparams(a, p, k, reward) = AdaptEps(c, p, k)
    BY <1>1, <1>2 DEF HandleHyperparams
<1> QED
    BY <1>1, <1>2, <1>3, <1>4 DEF KeepsParams

\* PathAgent.update.
LEMMA UpdateParams ==
    ASSUME NEW a, ParamTypes(a), NEW p \in Pairs, NEW k \in Arm, NEW level, NEW next, NEW episode,
           NEW reward \in {Reward, Penalty}
    PROVE  KeepsParams(a, UpdateAgent(a, p, k, level, next, episode, reward))
<1>1. PICK h : h = HandleHyperparams(a, p, k, reward) /\ KeepsParams(a, h)
    BY HandleParams
<1>2. ASSUME NEW b, DOMAIN b = DOMAIN h, b.visits = h.visits, b.reward_list = h.reward_list, b.alpha = h.alpha
      PROVE  KeepsParams(a, b)
    BY <1>1, <1>2 DEF KeepsParams, ParamTypes, AlphaOk
<1>3. DOMAIN h = Fields
    BY <1>1 DEF KeepsParams, ParamTypes
<1>4. KeepsParams(a, UpdateBandit(h, p, k, episode, reward))
    <2>1. PICK b : b = UpdateBandit(h, p, k, episode, reward)
        OBVIOUS
    <2>2. /\ DOMAIN b = DOMAIN h /\ b.visits = h.visits /\ b.reward_list = h.reward_list
          /\ b.alpha = h.alpha
        BY <1>3, <2>1 DEF UpdateBandit, Fields
    <2> QED
        BY <1>2, <2>1, <2>2
<1>5. KeepsParams(a, UpdateRoutesMatrix(h, p, k, level, next, episode, reward))
    <2>1. PICK b : b = UpdateRoutesMatrix(h, p, k, level, next, episode, reward)
        OBVIOUS
    <2>2. /\ DOMAIN b = DOMAIN h /\ b.visits = h.visits /\ b.reward_list = h.reward_list
          /\ b.alpha = h.alpha
        BY <1>3, <2>1 DEF UpdateRoutesMatrix, Fields
    <2> QED
        BY <1>2, <2>1, <2>2
<1>6. KeepsParams(a, a)
    BY DEF KeepsParams
<1> QED
    BY <1>1, <1>4, <1>5, <1>6 DEF UpdateAgent

\* end_iter.
LEMMA EndIterParams ==
    ASSUME NEW a, ParamTypes(a), a.iteration \in Nat, a.iteration < MaxIters
    PROVE  KeepsParams(a, EndAgentIter(a))
<1>1. PICK i \in 1..MaxIters : i = a.iteration + 1
    BY AgentsAssumption
<1>2. /\ AlphaStart \in Nat /\ AlphaEnd \in Nat /\ AlphaEnd <= AlphaStart /\ MaxIters \in Nat
    BY AgentsAssumption
<1>3. PICK b : b = [a EXCEPT !.iteration = i]
    OBVIOUS
<1>4. /\ DOMAIN b = Fields /\ b.iteration = i /\ b.visits = a.visits /\ b.reward_list = a.reward_list
      /\ b.alpha = a.alpha /\ b.alpha_update = a.alpha_update
    BY <1>3 DEF ParamTypes, Fields
<1>5. PICK c : c = IF b.alpha_update \in EpisodicStrategies /\ ~IsBandit(b) THEN [b EXCEPT !.alpha = DecayAlpha(b)] ELSE b
    OBVIOUS
<1>6. /\ DOMAIN c = Fields /\ c.visits = a.visits /\ c.reward_list = a.reward_list
      /\ c.alpha = a.alpha \/ c.alpha = DecayAlpha(b)
    BY <1>4, <1>5 DEF Fields
<1>7. PICK d : d = IF c.epsilon_update \in EpisodicStrategies THEN [c EXCEPT !.epsilon = DecayEps(c)] ELSE c
    OBVIOUS
<1>8. /\ DOMAIN d = Fields /\ d.visits = a.visits /\ d.reward_list = a.reward_list
      /\ d.alpha = c.alpha
    BY <1>6, <1>7 DEF Fields
<1>9. EndAgentIter(a) = d
    BY <1>1, <1>3, <1>5, <1>7 DEF EndAgentIter
<1>10. ParamTypes(d)
    BY <1>8 DEF ParamTypes
<1>12. ASSUME AlphaDecays, AlphaOk(a)
       PROVE  AlphaOk(d)
    <2>1. CASE d.alpha = a.alpha
        BY <1>12, <2>1 DEF AlphaOk
    <2>2. CASE d.alpha = DecayAlpha(b)
        <3>1. PICK x : x = Decayed(b.alpha_update, AlphaStart, AlphaEnd, i) /\ d.alpha = x
            BY <1>4, <2>2 DEF DecayAlpha
        <3>2. AtMost(x, AlphaStart)
            BY <1>1, <1>2, <1>12, <3>1, DecayedIs DEF AlphaDecays
        <3> QED
            BY <1>2, <1>12, <3>1, <3>2, AtMostOne DEF AlphaOk, AlphaDecays, AtMost
    <2> QED
        BY <1>6, <1>8, <2>1, <2>2
<1> QED
    BY <1>9, <1>10, <1>12 DEF KeepsParams

-----------------------------------------------------------------------------
(* How far the training is. *)

\* The agent has counted one episode more than _run_iters between the last request of an
\* episode and the loop's look at it; after the last episode one request is served.
PlaceInv ==
    /\ completed_episodes \in Nat /\ constructed \in BOOLEAN
    /\ iteration = completed_episodes +
                       (IF arrival_count = NumRequests /\ pc \in {"observe_step", "loop"} THEN 1 ELSE 0)
    /\ iteration <= MaxIters
    /\ iteration = MaxIters => \/ pc \in {"reset", "observe_reset", "done"}
                               \/ pc \in {"step", "learn"} /\ arrival_count = 0
                               \/ pc \in {"observe_step", "loop"} /\ arrival_count \in {1, NumRequests}
    /\ pc = "done" => completed_episodes = MaxIters
    /\ ~constructed => iteration = 0 /\ pc \in {"reset", "observe_reset"}

\* Every step.
LEMMA PlaceNext ==
    ASSUME ProgressInv, ProgressInv', PlaceInv, [Next]_vars
    PROVE  PlaceInv'
<1>1. NumRequests \in Nat /\ NumRequests >= 2 /\ MaxIters \in Nat \ {0}
    BY AgentsAssumption
<1>2. /\ iteration \in Nat /\ arrival_count \in 0..NumRequests
      /\ pc = "observe_reset" => arrival_count = 0
      /\ pc = "learn" => arrival_count < NumRequests
      /\ pc = "reset" => arrival_count \in {0, NumRequests}
      /\ pc' \in {"reset", "observe_reset", "observe_step", "step", "learn", "loop", "done"}
    BY DEF ProgressInv
<1>3. CASE Reset
    <2>1. /\ pc = "reset" /\ pc' = "observe_reset" /\ arrival_count' = 0 /\ iteration' = iteration
          /\ completed_episodes' = completed_episodes /\ constructed' = constructed
        BY <1>3 DEF Reset
    <2> QED
        BY <1>1, <1>2, <2>1 DEF PlaceInv
<1>4. CASE Observe
    <2>1. /\ pc \in {"observe_reset", "observe_step"}
          /\ pc' = IF pc = "observe_step" THEN "loop" ELSE IF constructed THEN "step" ELSE "reset"
          /\ arrival_count' = arrival_count /\ iteration' = iteration
          /\ completed_episodes' = completed_episodes /\ constructed' = TRUE
        BY <1>4 DEF Observe
    <2> QED
        BY <1>1, <1>2, <2>1 DEF PlaceInv
<1>5. CASE Serve
    <2>1. /\ pc = "step" /\ pc' = "learn" /\ arrival_count < NumRequests
          /\ arrival_count' = arrival_count /\ iteration' = iteration
          /\ completed_episodes' = completed_episodes /\ constructed' = constructed
        BY <1>2, <1>5, ServeIs DEF Serve
    <2> QED
        BY <1>1, <1>2, <2>1 DEF PlaceInv
<1>6. CASE Learn
    <2>1. /\ pc = "learn" /\ pc' = "observe_step" /\ arrival_count' = arrival_count + 1
          /\ iteration' = IF arrival_count + 1 = NumRequests THEN iteration + 1 ELSE iteration
          /\ completed_episodes' = completed_episodes /\ constructed' = constructed
        BY <1>2, <1>6, LearnIs DEF Learn, Terminated
    <2> QED
        BY <1>1, <1>2, <2>1 DEF PlaceInv
<1>7. CASE Loop
    <2>1. /\ pc = "loop"
          /\ IF completed_episodes >= MaxIters THEN pc' = "done" /\ completed_episodes' = completed_episodes
             ELSE IF arrival_count = NumRequests
             THEN pc' = "reset" /\ completed_episodes' = completed_episodes + 1
             ELSE pc' = "step" /\ completed_episodes' = completed_episodes
          /\ arrival_count' = arrival_count /\ iteration' = iteration /\ constructed' = constructed
        BY <1>7 DEF Loop, Terminated
    <2> QED
        BY <1>1, <1>2, <2>1 DEF PlaceInv
<1>8. CASE UNCHANGED vars
    BY <1>8 DEF vars, PlaceInv
<1> QED
    BY <1>3, <1>4, <1>5, <1>6, <1>7, <1>8 DEF Next, Ended

\* It holds at the start and so always.
LEMMA PlaceAlways == Spec => [](pc # "raised" => PlaceInv)
<1>1. Init => PlaceInv
    <2> SUFFICES ASSUME Init PROVE PlaceInv
        OBVIOUS
    <2>1. /\ completed_episodes = 0 /\ constructed = FALSE /\ iteration = 0 /\ arrival_count = 0
          /\ pc = "reset"
        BY DEF Init
    <2>2. NumRequests \in Nat /\ NumRequests >= 2 /\ MaxIters \in Nat \ {0}
        BY AgentsAssumption
    <2>3. constructed \in BOOLEAN /\ pc \in {"reset", "observe_reset"} /\ pc # "done"
        BY <2>1
    <2>4. /\ iteration = completed_episodes +
                (IF arrival_count = NumRequests /\ pc \in {"observe_step", "loop"} THEN 1 ELSE 0)
          /\ iteration <= MaxIters /\ iteration # MaxIters /\ completed_episodes \in Nat
        BY <2>1, <2>2
    <2> QED
        BY <2>1, <2>3, <2>4, Zenon DEF PlaceInv
<1>2. ASSUME pc # "raised" => ProgressInv, (pc # "raised" => ProgressInv)', pc # "raised" => PlaceInv, [Next]_vars
      PROVE  (pc # "raised" => PlaceInv)'
    BY <1>2, PlaceNext, RaisedStays DEF vars
<1> QED
    BY <1>1, <1>2, ProgressAlways, PTL DEF Spec

-----------------------------------------------------------------------------
(* Alpha stays in range. *)

ChosenTypes == chosen.pair \in Pairs /\ chosen.arm \in Arm /\ chosen.level \in Level

ParamsInv ==
    /\ RequestsOk /\ ChosenTypes /\ ParamTypes(agent)
    /\ AlphaDecays => AlphaOk(agent)

\* A level of congestion.
LEMMA CongIsLevel ==
    ASSUME NEW cong
    PROVE  ClassifyCong(cong) \in Level
BY EnvAssumption DEF ClassifyCong, Level, EnvAssumption

\* An observation chooses an arm of the pair that is asked for, at its level.
LEMMA ObserveChooses ==
    ASSUME RequestsOk, arrival_count \in 0..NumRequests, Observe
    PROVE  ChosenTypes'
<1>1. PICK p, levels : /\ p = reqs[Current].pair
                       /\ levels = [k \in Arm |-> ClassifyCong(FindPathCong(net', Routes[p][k]))]
                       /\ \E k \in GetRoute(agent, p, levels) :
                             chosen' = [pair |-> p, arm |-> k, level |-> levels[k]]
    BY DEF Observe
<1>2. PICK k \in Arm : chosen' = [pair |-> p, arm |-> k, level |-> levels[k]]
    BY <1>1, GetRouteIsArm
<1>3. p \in Pairs
    BY <1>1, CurrentIs DEF RequestsOk
<1>4. levels[k] \in Level
    BY <1>1, CongIsLevel
<1> QED
    BY <1>2, <1>3, <1>4 DEF ChosenTypes

\* The agent that has learned, at the end of an episode too.
LEMMA LearnParams ==
    ASSUME ProgressInv, PlaceInv, ParamsInv, Learn, pc' # "raised"
    PROVE  KeepsParams(agent, agent')
<1>1. PICK reward, next, a :
          /\ reward = GetReward(WasAllocated(arrival_count + 1))
          /\ a = UpdateAgent(agent, chosen.pair, chosen.arm, chosen.level, next, iteration, reward)
          /\ agent' = IF Terminated(arrival_count + 1) THEN EndAgentIter(a) ELSE a
    BY LearnIs
<1>2. reward \in {Reward, Penalty}
    BY <1>1 DEF GetReward
<1>3. PICK p \in Pairs, k \in Arm : p = chosen.pair /\ k = chosen.arm
    BY DEF ParamsInv, ChosenTypes
<1>4. ParamTypes(agent) /\ agent.iteration = iteration /\ iteration \in Nat
    BY DEF ParamsInv, ProgressInv
<1>5. KeepsParams(agent, a)
    BY <1>1, <1>2, <1>3, <1>4, UpdateParams
<1>6. CASE Terminated(arrival_count + 1)
    <2>1. iteration < MaxIters
        <3>1. pc = "learn" /\ arrival_count + 1 = NumRequests /\ NumRequests >= 2 /\ MaxIters \in Nat
            BY <1>6, AgentsAssumption DEF Learn, Terminated
        <3>2. arrival_count # 0
            BY <3>1
        <3> QED
            BY <1>4, <3>1, <3>2 DEF PlaceInv
    <2>2. a.iteration = iteration
        <3>1. Trains(agent)
            BY <1>4, <2>1 DEF Trains
        <3>2. ~agent.completed_sim
            BY <2>1 DEF ProgressInv
        <3> QED
            BY <1>1, <1>4, <3>1, <3>2, UpdateRecords DEF ParamTypes
    <2>3. KeepsParams(a, EndAgentIter(a))
        BY <1>4, <1>5, <2>1, <2>2, EndIterParams DEF KeepsParams
    <2> QED
        BY <1>1, <1>5, <1>6, <2>3 DEF KeepsParams
<1>7. CASE ~Terminated(arrival_count + 1)
    BY <1>1, <1>5, <1>7
<1> QED
    BY <1>6, <1>7

\* Every step.
LEMMA ParamsNext ==
    ASSUME ProgressInv, PlaceInv, ParamsInv, [Next]_vars, pc' # "raised"
    PROVE  ParamsInv'
<1>1. CASE Reset
    <2>1. agent' \in {SetupEnv(config), agent} /\ chosen' = chosen /\ reqs' = reqs
        BY <1>1 DEF Reset
    <2>2. RequestsOk' /\ ChosenTypes'
        BY <2>1 DEF ParamsInv, RequestsOk, ChosenTypes
    <2>3. CASE agent' = agent
        BY <2>2, <2>3 DEF ParamsInv
    <2>4. CASE agent' = SetupEnv(config)
        <3>1. PICK a : a = SetupEnv(config)
            OBVIOUS
        <3>2. ParamTypes(a) /\ (AlphaDecays => AlphaOk(a))
            BY <3>1, SetupParams
        <3>3. agent' = a
            BY <2>4, <3>1
        <3> QED
            BY <2>2, <3>2, <3>3 DEF ParamsInv
    <2> QED
        BY <2>1, <2>3, <2>4
<1>2. CASE Observe
    <2>1. agent' = agent /\ reqs' = reqs
        BY <1>2 DEF Observe
    <2>2. RequestsOk'
        BY <2>1 DEF ParamsInv, RequestsOk
    <2>3. ChosenTypes'
        BY <1>2, ObserveChooses DEF ParamsInv, ProgressInv
    <2> QED
        BY <2>1, <2>2, <2>3 DEF ParamsInv
<1>3. CASE Learn
    <2>1. chosen' = chosen /\ reqs' = reqs
        BY <1>3 DEF Learn
    <2>2. RequestsOk' /\ ChosenTypes'
        BY <2>1 DEF ParamsInv, RequestsOk, ChosenTypes
    <2>3. KeepsParams(agent, agent')
        BY <1>3, LearnParams
    <2> QED
        BY <2>2, <2>3 DEF ParamsInv, KeepsParams
<1>4. ASSUME agent' = agent, chosen' = chosen, reqs' = reqs
      PROVE  ParamsInv'
    BY <1>4 DEF ParamsInv, RequestsOk, ChosenTypes
<1> QED
    BY <1>1, <1>2, <1>3, <1>4 DEF Next, Ended, Serve, Loop, vars

\* It holds at the start and so always.
LEMMA ParamsAlways == Spec => [](pc # "raised" => ParamsInv)
<1>1. Init => ParamsInv
    <2> SUFFICES ASSUME Init PROVE ParamsInv
        OBVIOUS
    <2>1. RequestsOk
        BY StartIsInOrder
    <2>2. ChosenTypes
        BY StartIsInOrder, EnvAssumption DEF ChosenTypes, Level
    <2>3. agent = SetupEnv(config)
        BY DEF Init
    <2> QED
        BY <2>1, <2>2, <2>3, SetupParams DEF ParamsInv
<1>2. ASSUME pc # "raised" => ProgressInv /\ PlaceInv, pc # "raised" => ParamsInv, [Next]_vars
      PROVE  (pc # "raised" => ParamsInv)'
    BY <1>2, ParamsNext, RaisedStays DEF vars
<1> QED
    BY <1>1, <1>2, ProgressAlways, PlaceAlways, PTL DEF Spec

-----------------------------------------------------------------------------
(* Means and q-values. *)

\* A whole quotient lies between whole bounds of the fraction, and is exact when the
\* fraction is.
LEMMA QuotientIs ==
    ASSUME NEW x \in Int, NEW y \in Nat \ {0}
    PROVE  /\ x \div y \in Int
           /\ \A low \in Int : low * y <= x => low <= x \div y
           /\ \A high \in Int : x <= high * y => x \div y <= high
<1>1. PICK q \in Int : q = x \div y
    OBVIOUS
<1>2. q * y <= x /\ x < (q + 1) * y
    BY <1>1
<1>3. ASSUME NEW low \in Int, low * y <= x, q < low
      PROVE  FALSE
    <2>1. (q + 1) * y <= low * y
        BY <1>3, Products
    <2>2. PICK a \in Int, b \in Int : a = (q + 1) * y /\ b = low * y
        OBVIOUS
    <2> QED
        BY <1>2, <1>3, <2>1, <2>2
<1>4. ASSUME NEW high \in Int, x <= high * y, high < q
      PROVE  FALSE
    <2>1. (high + 1) * y <= q * y
        BY <1>4, Products
    <2>2. PICK a \in Int, b \in Int : a = high * y /\ b = q * y
        OBVIOUS
    <2>3. (high + 1) * y = a + y
        BY <2>2
    <2> QED
        BY <1>2, <1>4, <2>1, <2>2, <2>3
<1> QED
    BY <1>1, <1>3, <1>4

\* update_routes_matrix keeps a q-value between what rewards and their discounted sum
\* allow.
LEMMA QStays ==
    ASSUME NEW u \in Nat, NEW d1 \in Nat, NEW d2 \in Nat \ {0}, d1 <= d2, Scale = u * (d2 - d1),
           NEW low \in Int, NEW high \in Int, NEW r \in Int, low <= r, r <= high,
           NEW q \in Int, u * low * d2 <= q, q <= u * high * d2,
           NEW next \in Int, u * low * d2 <= next, next <= u * high * d2,
           NEW a1 \in Nat, NEW a2 \in Nat \ {0}, a1 <= a2
    PROVE  LET delta == Scale * r + (d1 * next) \div d2
               new   == ((a2 - a1) * q + a1 * delta) \div a2
           IN  new \in Int /\ u * low * d2 <= new /\ new <= u * high * d2
<1>1. PICK ul \in Int, uh \in Int, ur \in Int : ul = u * low /\ uh = u * high /\ ur = u * r
    OBVIOUS
<1>2. ul <= ur /\ ur <= uh
    <2>1. low * u <= r * u /\ r * u <= high * u
        BY Products
    <2> QED
        BY <1>1, <2>1
<1>3. PICK x \in Int : x = d1 * next
    OBVIOUS
<1>4. PICK z \in Int : z = x \div d2 /\ ul * d1 <= z /\ z <= uh * d1
    <2>1. (ul * d1) * d2 <= x
        <3>1. (ul * d2) * d1 <= next * d1
            BY <1>1, Products
        <3> QED
            BY <1>3, <3>1
    <2>2. x <= (uh * d1) * d2
        <3>1. next * d1 <= (uh * d2) * d1
            BY <1>1, Products
        <3> QED
            BY <1>3, <3>1
    <2>3. ul * d1 \in Int /\ uh * d1 \in Int
        OBVIOUS
    <2> QED
        BY <2>1, <2>2, <2>3, QuotientIs
<1>5. PICK d \in Nat : d = d2 - d1
    OBVIOUS
<1>6. PICK delta \in Int : delta = Scale * r + z /\ ul * d2 <= delta /\ delta <= uh * d2
    <2>1. Scale * r = ur * d
        BY <1>1, <1>5
    <2>2. ul * d <= ur * d /\ ur * d <= uh * d
        BY <1>2, Products
    <2>3. ul * d2 = ul * d + ul * d1 /\ uh * d2 = uh * d + uh * d1
        BY <1>5
    <2>4. PICK e \in Int : e = ur * d
        OBVIOUS
    <2> QED
        BY <1>4, <2>1, <2>2, <2>3, <2>4
<1>7. PICK A \in Int, B \in Int : /\ A = ul * d2 /\ B = uh * d2 /\ A <= q /\ q <= B
                                  /\ A <= delta /\ delta <= B
    BY <1>1, <1>6
<1>8. PICK b \in Nat : b = a2 - a1
    OBVIOUS
<1>9. PICK y \in Int : y = b * q + a1 * delta
    OBVIOUS
<1>10. A * a2 <= y /\ y <= B * a2
    <2>1. A * b <= q * b /\ q * b <= B * b /\ A * a1 <= delta * a1 /\ delta * a1 <= B * a1
        BY <1>7, Products
    <2>2. A * a2 = A * b + A * a1 /\ B * a2 = B * b + B * a1
        BY <1>8
    <2> QED
        BY <1>9, <2>1, <2>2
<1>11. y \div a2 \in Int /\ A <= y \div a2 /\ y \div a2 <= B
    BY <1>10, QuotientIs
<1> QED
    BY <1>1, <1>3, <1>4, <1>6, <1>7, <1>8, <1>9, <1>11

\* What a bandit and a Q-learner have learned.
AgentTables(a) ==
    /\ a.counts \in [Pairs \X Arm -> Nat]
    /\ a.values \in [Pairs \X Arm -> Int]
    /\ a.q_value \in [Pairs \X Arm \X Level -> Int]

SameTables(a, b) ==
    /\ DOMAIN b = DOMAIN a /\ b.path_algorithm = a.path_algorithm
    /\ b.counts = a.counts /\ b.values = a.values /\ b.q_value = a.q_value

\* A new agent has learned nothing.
LEMMA SetupTables ==
    ASSUME NEW c
    PROVE  LET a == SetupEnv(c)
           IN  /\ a.counts = [x \in Pairs \X Arm |-> 0]
               /\ a.values = [x \in Pairs \X Arm |-> 0]
               /\ a.q_value = [x \in Pairs \X Arm \X Level |-> 0]
BY DEF SetupEnv, GetQTable, RoutesMatrix

\* The parameters apart, an update changes one entry.
LEMMA HyperparamsKeepTables ==
    ASSUME NEW a, DOMAIN a = Fields, NEW p, NEW k, NEW reward
    PROVE  SameTables(a, HandleHyperparams(a, p, k, reward))
<1>1. ASSUME NEW b, DOMAIN b = Fields
      PROVE  SameTables(b, UpdateTimestepData(b, reward))
    BY <1>1 DEF UpdateTimestepData, SameTables, Fields
<1>2. ASSUME NEW b, DOMAIN b = Fields
      PROVE  SameTables(b, AdaptAlpha(b, p, k))
    BY <1>2 DEF AdaptAlpha, VisitAlpha, SameTables, Fields
<1>3. ASSUME NEW b, DOMAIN b = Fields
      PROVE  SameTables(b, AdaptEps(b, p, k))
    BY <1>3 DEF AdaptEps, VisitEps, SameTables, Fields
<1> QED
    BY <1>1, <1>2, <1>3 DEF HandleHyperparams, SameTables

\* end_iter leaves them.
LEMMA EndIterKeepsTables ==
    ASSUME NEW a, DOMAIN a = Fields
    PROVE  SameTables(a, EndAgentIter(a))
BY DEF EndAgentIter, SameTables, Fields

\* What PathAgent.update does to them while there are episodes to come.
LEMMA UpdateIsOf ==
    ASSUME NEW a, DOMAIN a = Fields, Trains(a), NEW p, NEW k, NEW level, NEW next, NEW episode, NEW reward
    PROVE  LET b == UpdateAgent(a, p, k, level, next, episode, reward)
               h == HandleHyperparams(a, p, k, reward)
               n == a.counts[<<p, k>>] + 1
           IN  /\ DOMAIN b = Fields /\ b.path_algorithm = a.path_algorithm
               /\ IF IsBandit(a)
                  THEN /\ b.q_value = a.q_value
                       /\ b.counts = [a.counts EXCEPT ![<<p, k>>] = n]
                       /\ b.values = [a.values EXCEPT ![<<p, k>>] = @ + (Scale * reward - @) \div n]
                  ELSE /\ b.counts = a.counts /\ b.values = a.values
                       /\ b.q_value = [a.q_value EXCEPT ![<<p, k, level>>] = NewQ(h, p, k, level, next, reward)]
<1> DEFINE h == HandleHyperparams(a, p, k, reward)
           n == a.counts[<<p, k>>] + 1
<1>1. SameTables(a, h)
    BY HyperparamsKeepTables
<1>2. UpdateAgent(a, p, k, level, next, episode, reward) =
          IF IsBandit(a) THEN UpdateBandit(h, p, k, episode, reward)
          ELSE UpdateRoutesMatrix(h, p, k, level, next, episode, reward)
    BY DEF UpdateAgent
<1> HIDE DEF h
<1>3. DOMAIN h = Fields
    BY <1>1 DEF SameTables
<1>4. LET b == UpdateBandit(h, p, k, episode, reward)
      IN  /\ DOMAIN b = Fields /\ b.path_algorithm = h.path_algorithm /\ b.q_value = h.q_value
          /\ b.counts = [h.counts EXCEPT ![<<p, k>>] = h.counts[<<p, k>>] + 1]
          /\ b.values = [h.values EXCEPT ![<<p, k>>] =
                             @ + (Scale * reward - @) \div (h.counts[<<p, k>>] + 1)]
    BY <1>3 DEF UpdateBandit, Fields
<1>5. LET b == UpdateRoutesMatrix(h, p, k, level, next, episode, reward)
      IN  /\ DOMAIN b = Fields /\ b.path_algorithm = h.path_algorithm
          /\ b.counts = h.counts /\ b.values = h.values
          /\ b.q_value = [h.q_value EXCEPT ![<<p, k, level>>] = NewQ(h, p, k, level, next, reward)]
    BY <1>3 DEF UpdateRoutesMatrix, Fields
<1>6. CASE IsBandit(a)
    BY <1>1, <1>2, <1>4, <1>6 DEF SameTables, h
<1>7. CASE ~IsBandit(a)
    BY <1>1, <1>2, <1>5, <1>7 DEF SameTables, h
<1> QED
    BY <1>6, <1>7

-----------------------------------------------------------------------------
(* What has been learned is what was given. *)

\* Every served request has been given its reward, the one in progress apart.
GivenInv ==
    /\ served \in Seq(ServedType) /\ given \in Seq({Reward, Penalty})
    /\ Len(served) = Len(given) + (IF pc = "learn" THEN 1 ELSE 0)
    /\ Len(given) = iteration * NumRequests + (IF arrival_count = NumRequests THEN 0 ELSE arrival_count)
    /\ pc = "learn" => /\ served[Len(served)].iteration = iteration
                       /\ served[Len(served)].path = ChosenPath

Total(p, k) == Cardinality(GivenFor(p, k))
Rewarded(p, k) == Cardinality({i \in GivenFor(p, k) : given[i] = Reward})

\* The bounds of a q-value, and being within them.
Within(q) ==
    LET x == q * (DiscountFactor[2] - DiscountFactor[1])
    IN  /\ x <= Scale * Max({Reward, 0}) * DiscountFactor[2]
        /\ x >= Scale * Min({Penalty, 0}) * DiscountFactor[2]

BanditLearned(a, p, k) ==
    /\ a.counts[<<p, k>>] = Total(p, k)
    /\ a.values[<<p, k>>] * Total(p, k) =
           Scale * (Reward * Rewarded(p, k) + Penalty * (Total(p, k) - Rewarded(p, k)))

QLearned(a) == \A x \in Pairs \X Arm \X Level : Within(a.q_value[x])

LearnedInv ==
    /\ AgentTables(agent)
    /\ IF IsBandit(agent) THEN \A p \in Pairs, k \in Arm : BanditLearned(agent, p, k)
                          ELSE QLearned(agent)

\* The unit of the values is a multiple of what they are divided by, so that no mean is
\* rounded; the discount is a part of 1.
ScaleIsExact ==
    /\ \A n \in 1..(MaxIters * NumRequests) : \E c \in Nat : Scale = n * c
    /\ DiscountFactor[1] <= DiscountFactor[2]
    /\ DiscountFactor[1] < DiscountFactor[2] =>
          \E u \in Nat : Scale = u * (DiscountFactor[2] - DiscountFactor[1])

\* The invariant says what the property says.
LEMMA LearnedInvSays == LearnedInv => LearnedFromRewards
<1> SUFFICES ASSUME LearnedInv, NEW p \in Pairs, NEW k \in Arm
             PROVE  IF IsBandit(agent) THEN BanditLearned(agent, p, k)
                    ELSE \A i \in Level : Within(agent.q_value[<<p, k, i>>])
    BY Zenon DEF LearnedFromRewards, BanditLearned, Within, Total, Rewarded
<1>1. CASE IsBandit(agent)
    BY <1>1 DEF LearnedInv
<1>2. CASE ~IsBandit(agent)
    <2> SUFFICES ASSUME NEW i \in Level PROVE Within(agent.q_value[<<p, k, i>>])
        BY <1>2
    <2>1. <<p, k, i>> \in Pairs \X Arm \X Level
        OBVIOUS
    <2> QED
        BY <1>2, <2>1 DEF LearnedInv, QLearned
<1> QED
    BY <1>1, <1>2

\* Zero is within the bounds.
LEMMA ZeroIsWithin == Within(0)
<1>1. PICK high \in Int, low \in Int : /\ high = Max({Reward, 0}) /\ high >= 0
                                       /\ low = Min({Penalty, 0}) /\ low <= 0
    <2>1. Reward \in Int /\ Penalty \in Int
        BY AgentsAssumption
    <2> QED
        BY <2>1, MinMaxOfTwo
<1>2. PICK s \in Nat, d \in Nat : s = Scale /\ d = DiscountFactor[2]
    BY AgentsAssumption
<1>3. PICK a \in Nat : a = s * high /\ a * d >= 0
    BY <1>1, Products
<1>4. PICK b \in Nat : b = s * (0 - low) /\ b * d >= 0
    BY <1>1, Products
<1>5. (s * low) * d = 0 - b * d
    BY <1>4
<1>6. 0 * (DiscountFactor[2] - DiscountFactor[1]) = 0
    BY AgentsAssumption
<1> QED
    BY <1>1, <1>2, <1>3, <1>4, <1>5, <1>6 DEF Within

\* With a discount below 1, the bounds as q-values.
LEMMA WithinIs ==
    ASSUME NEW u \in Nat, Scale = u * (DiscountFactor[2] - DiscountFactor[1]),
           DiscountFactor[1] < DiscountFactor[2], NEW q \in Int
    PROVE  Within(q) <=> /\ u * Min({Penalty, 0}) * DiscountFactor[2] <= q
                         /\ q <= u * Max({Reward, 0}) * DiscountFactor[2]
<1>1. PICK high \in Int, low \in Int : high = Max({Reward, 0}) /\ low = Min({Penalty, 0})
    <2>1. Reward \in Int /\ Penalty \in Int /\ 0 \in Int
        BY AgentsAssumption
    <2>2. /\ Max({Reward, 0}) = (IF Reward <= 0 THEN 0 ELSE Reward)
          /\ Min({Penalty, 0}) = (IF Penalty <= 0 THEN Penalty ELSE 0)
        BY <2>1, MinMaxOfTwo
    <2>3. Max({Reward, 0}) \in Int /\ Min({Penalty, 0}) \in Int
        BY <2>1, <2>2
    <2> QED
        BY <2>3
<1>2. PICK d2 \in Nat : d2 = DiscountFactor[2]
    BY AgentsAssumption
<1>3. PICK d \in Nat : d = DiscountFactor[2] - DiscountFactor[1] /\ d > 0
    BY AgentsAssumption
<1>4. PICK a \in Int, b \in Int : a = u * low * d2 /\ b = u * high * d2
    OBVIOUS
<1>5. (u * d) * low * d2 = a * d /\ (u * d) * high * d2 = b * d
    BY <1>4
<1>6. Within(q) <=> q * d <= b * d /\ q * d >= a * d
    BY <1>1, <1>2, <1>3, <1>5 DEF Within
<1>7. (q * d <= b * d <=> q <= b) /\ (a * d <= q * d <=> a <= q)
    BY <1>3, Products
<1> QED
    BY <1>1, <1>2, <1>4, <1>6, <1>7

\* What was given for a path, after a reward more.
LEMMA GivenForGrows ==
    ASSUME GivenInv, iteration \in Nat, pc = "learn", ChosenTypes,
           NEW reward, given' = Append(given, reward), served' = served,
           NEW p \in Pairs, NEW k \in Arm
    PROVE  LET n     == Len(given) + 1
               added == IF iteration < MaxIters /\ p = chosen.pair /\ k = chosen.arm THEN {n} ELSE {}
           IN  /\ GivenFor(p, k)' = GivenFor(p, k) \union added
               /\ n \notin GivenFor(p, k) /\ given'[n] = reward
               /\ \A i \in GivenFor(p, k) : given'[i] = given[i]
<1>1. PICK n \in Nat \ {0} : /\ n = Len(given) + 1 /\ n = Len(served) /\ DOMAIN given = 1..(n - 1)
                             /\ DOMAIN given' = 1..n
    BY DEF GivenInv
<1>2. given'[n] = reward /\ \A i \in 1..(n - 1) : given'[i] = given[i]
    BY <1>1 DEF GivenInv
<1>3. served[n].iteration = iteration /\ served[n].path = Routes[chosen.pair][chosen.arm]
    BY <1>1 DEF GivenInv, ChosenPath
<1>4. Routes[chosen.pair][chosen.arm] = Routes[p][k] <=> p = chosen.pair /\ k = chosen.arm
    BY RoutesDiffer DEF ChosenTypes
<1>5. GivenFor(p, k)' = {i \in 1..n : served[i].iteration < MaxIters /\ served[i].path = Routes[p][k]}
    BY <1>1 DEF GivenFor
<1>6. GivenFor(p, k) = {i \in 1..(n - 1) : served[i].iteration < MaxIters /\ served[i].path = Routes[p][k]}
    BY <1>1 DEF GivenFor
<1>7. n \notin GivenFor(p, k) /\ \A i \in GivenFor(p, k) : given'[i] = given[i]
    BY <1>1, <1>2, <1>6
<1>8. n \in GivenFor(p, k)' <=> iteration < MaxIters /\ p = chosen.pair /\ k = chosen.arm
    BY <1>1, <1>3, <1>4, <1>5
<1>9. ASSUME NEW i, i # n
      PROVE  i \in GivenFor(p, k)' <=> i \in GivenFor(p, k)
    BY <1>1, <1>5, <1>6, <1>9
<1>10. GivenFor(p, k)' = GivenFor(p, k) \union
           (IF iteration < MaxIters /\ p = chosen.pair /\ k = chosen.arm THEN {n} ELSE {})
    BY <1>1, <1>7, <1>8, <1>9
<1> QED
    BY <1>1, <1>2, <1>7, <1>10

\* Its numbers.
LEMMA NumbersAre ==
    ASSUME GivenInv, NEW p, NEW k
    PROVE  /\ IsFiniteSet(GivenFor(p, k)) /\ Total(p, k) \in Nat /\ Total(p, k) <= Len(given)
           /\ IsFiniteSet({i \in GivenFor(p, k) : given[i] = Reward}) /\ Rewarded(p, k) \in Nat
<1>1. PICK n \in Nat : n = Len(given) /\ DOMAIN given = 1..n
    BY DEF GivenInv
<1>2. IsFiniteSet(1..n) /\ Cardinality(1..n) = n
    <2>1. IsFiniteSet(1..n) /\ Cardinality(1..n) = IF 1 > n THEN 0 ELSE n - 1 + 1
        BY FS_Interval
    <2> QED
        BY <2>1
<1>3. GivenFor(p, k) \subseteq 1..n
    BY <1>1 DEF GivenFor
<1>4. IsFiniteSet(GivenFor(p, k)) /\ Cardinality(GivenFor(p, k)) <= n
    BY <1>2, <1>3, FS_Subset
<1>5. {i \in GivenFor(p, k) : given[i] = Reward} \subseteq GivenFor(p, k)
    OBVIOUS
<1>6. IsFiniteSet({i \in GivenFor(p, k) : given[i] = Reward})
    BY <1>4, <1>5, FS_Subset
<1> QED
    BY <1>1, <1>4, <1>6, FS_CardinalityType DEF Total, Rewarded

\* A reward adds one to the number of its path, and to no other.
LEMMA NumbersGrow ==
    ASSUME GivenInv, iteration \in Nat, pc = "learn", ChosenTypes,
           NEW reward, given' = Append(given, reward), served' = served,
           NEW p \in Pairs, NEW k \in Arm
    PROVE  IF iteration < MaxIters /\ p = chosen.pair /\ k = chosen.arm
           THEN /\ Total(p, k)' = Total(p, k) + 1
                /\ Rewarded(p, k)' = Rewarded(p, k) + (IF reward = Reward THEN 1 ELSE 0)
           ELSE Total(p, k)' = Total(p, k) /\ Rewarded(p, k)' = Rewarded(p, k)
<1>1. PICK n : n = Len(given) + 1
    OBVIOUS
<1>2. PICK G, H, R, S : /\ G = GivenFor(p, k) /\ H = GivenFor(p, k)'
                        /\ R = {i \in GivenFor(p, k) : given[i] = Reward}
                        /\ S = {i \in GivenFor(p, k)' : given'[i] = Reward}
    OBVIOUS
<1>3. /\ Total(p, k) = Cardinality(G) /\ Total(p, k)' = Cardinality(H)
      /\ Rewarded(p, k) = Cardinality(R) /\ Rewarded(p, k)' = Cardinality(S)
    BY <1>2 DEF Total, Rewarded
<1>4. IsFiniteSet(G) /\ IsFiniteSet(R)
    BY <1>2, NumbersAre
<1>5. /\ H = G \union (IF iteration < MaxIters /\ p = chosen.pair /\ k = chosen.arm THEN {n} ELSE {})
      /\ n \notin G /\ given'[n] = reward /\ \A i \in G : given'[i] = given[i]
    BY <1>1, <1>2, GivenForGrows
<1>6. CASE iteration < MaxIters /\ p = chosen.pair /\ k = chosen.arm
    <2>1. H = G \union {n} /\ n \notin R
        BY <1>2, <1>5, <1>6
    <2>2. Cardinality(H) = Cardinality(G) + 1
        BY <1>4, <1>5, <2>1, FS_AddElement
    <2>3. CASE reward = Reward
        <3>1. S = R \union {n}
            BY <1>2, <1>5, <2>1, <2>3
        <3>2. Cardinality(S) = Cardinality(R) + 1
            BY <1>4, <2>1, <3>1, FS_AddElement
        <3> QED
            BY <1>3, <1>6, <2>2, <2>3, <3>2
    <2>4. CASE reward # Reward
        <3>1. S = R
            BY <1>2, <1>5, <2>1, <2>4
        <3>2. Cardinality(R) \in Nat
            BY <1>4, FS_CardinalityType
        <3> QED
            BY <1>3, <1>6, <2>2, <2>4, <3>1, <3>2
    <2> QED
        BY <2>3, <2>4
<1>7. CASE ~(iteration < MaxIters /\ p = chosen.pair /\ k = chosen.arm)
    <2>1. H = G
        BY <1>5, <1>7
    <2>2. S = R
        BY <1>2, <1>5, <2>1
    <2> QED
        BY <1>3, <1>7, <2>1, <2>2
<1> QED
    BY <1>6, <1>7


\* Serving and rewarding, request after request.
LEMMA GivenNext ==
    ASSUME ProgressInv, ProgressInv', ParamsInv, GivenInv, [Next]_vars
    PROVE  GivenInv'
<1>0. /\ NumRequests \in Nat /\ NumRequests >= 2
      /\ iteration \in Nat /\ arrival_count \in 0..NumRequests /\ arrival_count \in Nat
      /\ pc = "reset" => arrival_count \in {0, NumRequests}
      /\ pc = "learn" => arrival_count < NumRequests
      /\ pc' # "raised"
    BY AgentsAssumption DEF ProgressInv
<1>1. /\ served \in Seq(ServedType) /\ given \in Seq({Reward, Penalty})
      /\ Len(served) \in Nat /\ Len(given) \in Nat
      /\ Len(served) = Len(given) + (IF pc = "learn" THEN 1 ELSE 0)
      /\ Len(given) = iteration * NumRequests + (IF arrival_count = NumRequests THEN 0 ELSE arrival_count)
    BY DEF GivenInv
<1>2. ASSUME served' = served, given' = given, iteration' = iteration, pc # "learn", pc' # "learn",
             (IF arrival_count' = NumRequests THEN 0 ELSE arrival_count') =
                 (IF arrival_count = NumRequests THEN 0 ELSE arrival_count)
      PROVE  GivenInv'
    BY <1>1, <1>2 DEF GivenInv
<1>3. CASE Reset
    <2>1. /\ pc = "reset" /\ pc' = "observe_reset" /\ arrival_count' = 0 /\ iteration' = iteration
          /\ served' = served /\ given' = given
        BY <1>3 DEF Reset
    <2> QED
        BY <1>0, <1>2, <2>1
<1>4. CASE Observe
    <2>1. /\ pc \in {"observe_reset", "observe_step"} /\ pc' \in {"loop", "step", "reset"}
          /\ arrival_count' = arrival_count /\ iteration' = iteration
          /\ served' = served /\ given' = given
        BY <1>4 DEF Observe
    <2> QED
        BY <1>2, <2>1
<1>5. CASE Loop
    <2>1. /\ pc = "loop" /\ pc' \in {"done", "step", "reset"}
          /\ arrival_count' = arrival_count /\ iteration' = iteration
          /\ served' = served /\ given' = given
        BY <1>5 DEF Loop
    <2> QED
        BY <1>2, <2>1
<1>6. CASE Serve
    <2>1. /\ pc = "step" /\ pc' = "learn" /\ arrival_count < NumRequests
          /\ arrival_count' = arrival_count /\ iteration' = iteration
          /\ given' = given /\ chosen' = chosen
        BY <1>0, <1>6, ServeIs DEF Serve
    <2>2. PICK e : /\ served' = Append(served, e)
                   /\ \E assignments : e = [iteration |-> iteration, id |-> arrival_count + 1, path |-> ChosenPath,
                                            allocated |-> assignments # {}]
        BY <1>0, <1>6, ServeIs
    <2>3. ChosenPath \in Offered /\ ChosenPath' = ChosenPath
        <3>1. <<chosen.pair, chosen.arm>> \in Pairs \X Arm
            BY DEF ParamsInv, ChosenTypes
        <3> QED
            BY <2>1, <3>1 DEF Offered, ChosenPath
    <2>4. arrival_count + 1 \in ReqId
        BY <1>0, <2>1 DEF ReqId
    <2>5. e \in ServedType /\ e.iteration = iteration /\ e.path = ChosenPath
        BY <1>0, <2>2, <2>3, <2>4 DEF ServedType
    <2>6. /\ served' \in Seq(ServedType) /\ Len(served') = Len(served) + 1
          /\ served'[Len(served')] = e
        BY <1>1, <2>2, <2>5
    <2> QED
        BY <1>1, <2>1, <2>3, <2>5, <2>6 DEF GivenInv
<1>7. CASE Learn
    <2>1. /\ pc = "learn" /\ arrival_count' = arrival_count + 1 /\ served' = served
          /\ iteration' = IF arrival_count + 1 = NumRequests THEN iteration + 1 ELSE iteration
          /\ pc' = "observe_step"
          /\ \E reward \in {Reward, Penalty} : given' = Append(given, reward)
        BY <1>0, <1>7, LearnIs DEF Learn, Terminated, GetReward
    <2>2. PICK reward \in {Reward, Penalty} : given' = Append(given, reward)
        BY <2>1
    <2>3. given' \in Seq({Reward, Penalty}) /\ Len(given') = Len(given) + 1
        BY <1>1, <2>2
    <2>4. (iteration + 1) * NumRequests = iteration * NumRequests + NumRequests
        BY <1>0
    <2>5. PICK x \in Nat : x = iteration * NumRequests
        BY <1>0, Products
    <2>6. Len(given') = iteration' * NumRequests +
                            (IF arrival_count' = NumRequests THEN 0 ELSE arrival_count')
        <3>1. CASE arrival_count + 1 = NumRequests
            BY <1>0, <1>1, <2>1, <2>3, <2>4, <2>5, <3>1
        <3>2. CASE arrival_count + 1 # NumRequests
            BY <1>0, <1>1, <2>1, <2>3, <2>5, <3>2
        <3> QED
            BY <3>1, <3>2
    <2> QED
        BY <1>1, <2>1, <2>3, <2>6 DEF GivenInv
<1>8. CASE UNCHANGED vars
    BY <1>8 DEF vars, GivenInv, ChosenPath
<1> QED
    BY <1>3, <1>4, <1>5, <1>6, <1>7, <1>8 DEF Next, Ended

\* It holds at the start, and so until a step raises.
LEMMA GivenAlways == Spec => [](pc # "raised" => GivenInv)
<1>1. Init => GivenInv
    <2> SUFFICES ASSUME Init PROVE GivenInv
        OBVIOUS
    <2>1. served = <<>> /\ given = <<>> /\ pc = "reset" /\ iteration = 0 /\ arrival_count = 0
        BY DEF Init
    <2>2. NumRequests \in Nat /\ NumRequests >= 2 /\ 0 * NumRequests = 0
        BY AgentsAssumption
    <2> QED
        BY <2>1, <2>2 DEF GivenInv
<1>2. ASSUME pc # "raised" => ProgressInv, (pc # "raised" => ProgressInv)', pc # "raised" => ParamsInv,
             pc # "raised" => GivenInv, [Next]_vars
      PROVE  (pc # "raised" => GivenInv)'
    BY <1>2, GivenNext, RaisedStays DEF vars
<1> QED
    BY <1>1, <1>2, ProgressAlways, ParamsAlways, PTL DEF Spec

-----------------------------------------------------------------------------
(* Epsilon follows what was learned. *)

\* The number of rewards learned from: what is given after the last episode is not.
LearnedNo == IF iteration < MaxIters THEN Len(given) ELSE MaxIters * NumRequests

\* The requests of the episodes of the training are the first.
RankInv == \A i \in DOMAIN served : served[i].iteration < MaxIters <=> i <= MaxIters * NumRequests

\* As how many visits a step counts.
Times(a) == IF a.alpha_update = "state_based" /\ ~IsBandit(a) THEN 2 ELSE 1

SameOptions(a, c) ==
    /\ a.path_algorithm = c.path_algorithm
    /\ a.epsilon_update = c.epsilon_update /\ a.alpha_update = c.alpha_update

\* The difference of two rewards.
Gap(x, y) == IF x < y THEN y - x ELSE x - y

EpisodicEps ==
    agent.epsilon = IF iteration = 0 THEN <<EpsilonStart, Unit>>
                    ELSE Decayed(config.epsilon_update, EpsilonStart, EpsilonEnd, iteration)

VisitsEps ==
    /\ \A p \in Pairs, k \in Arm : agent.visits[<<p, k>>] = Times(config) * Total(p, k)
    /\ LearnedNo = 0 => agent.epsilon = <<EpsilonStart, Unit>>
    /\ LearnedNo > 0 => \E p \in Pairs, k \in Arm :
                           /\ served[LearnedNo].path = Routes[p][k]
                           /\ agent.epsilon = <<EpsilonStart, Unit * (1 + Times(config) * Total(p, k))>>

RewardsEps ==
    /\ agent.reward_list = IF LearnedNo = 0 THEN <<>> ELSE IF LearnedNo = 1 THEN <<given[1]>>
                           ELSE <<given[LearnedNo], given[LearnedNo - 1]>>
    /\ LearnedNo < 2 => agent.epsilon = <<EpsilonStart, Unit>>
    /\ LearnedNo >= 2 =>
          agent.epsilon = <<EpsilonStart, Unit * (1 + Gap(given[LearnedNo], given[LearnedNo - 1]))>>

EpsInv ==
    /\ SameOptions(agent, config) /\ RankInv
    /\ config.epsilon_update \in EpisodicStrategies => EpisodicEps
    /\ config.epsilon_update = "state_based" => VisitsEps
    /\ config.epsilon_update = "reward_based" => RewardsEps

\* What an update of the parameters does to epsilon and what epsilon is made from.
EpsStep(a, b, p, k, reward) ==
    /\ SameOptions(b, a)
    /\ a.epsilon_update \in EpisodicStrategies => b.epsilon = a.epsilon
    /\ a.epsilon_update = "state_based" =>
          /\ b.visits = [a.visits EXCEPT ![<<p, k>>] = @ + Times(a)]
          /\ b.epsilon = <<EpsilonStart, Unit * (1 + (a.visits[<<p, k>>] + Times(a)))>>
    /\ a.epsilon_update = "reward_based" =>
          /\ b.reward_list = <<reward>> \o (IF a.reward_list = <<>> THEN <<>> ELSE <<Head(a.reward_list)>>)
          /\ b.epsilon = ByReward(a.epsilon, EpsilonStart, b.reward_list)

\* A new agent.
LEMMA SetupEps ==
    ASSUME NEW c
    PROVE  LET a == SetupEnv(c)
           IN  /\ SameOptions(a, c) /\ a.epsilon = <<EpsilonStart, Unit>> /\ a.reward_list = <<>>
               /\ a.visits = [x \in Pairs \X Arm |-> 0]
BY DEF SetupEnv, HyperparamConfig, SameOptions

\* _handle_hyperparams.
LEMMA HandleEps ==
    ASSUME NEW a, ParamTypes(a), NEW p \in Pairs, NEW k \in Arm, NEW reward
    PROVE  EpsStep(a, HandleHyperparams(a, p, k, reward), p, k, reward)
<1>1. DOMAIN a = Fields /\ a.visits \in [Pairs \X Arm -> Nat]
    BY DEF ParamTypes
<1>2. PICK b : b = IF FullyEpisodic(a) THEN a ELSE UpdateTimestepData(a, reward)
    OBVIOUS
<1>3. PICK c : c = AdaptAlpha(b, p, k)
    OBVIOUS
<1>4. PICK d : d = AdaptEps(c, p, k)
    OBVIOUS
<1>5. HandleHyperparams(a, p, k, reward) = d
    BY <1>2, <1>3, <1>4 DEF HandleHyperparams
<1>6. /\ DOMAIN b = Fields /\ SameOptions(b, a) /\ b.epsilon = a.epsilon /\ b.visits = a.visits
      /\ ~FullyEpisodic(a) =>
            b.reward_list = <<reward>> \o (IF a.reward_list = <<>> THEN <<>> ELSE <<Head(a.reward_list)>>)
    <2>1. CASE FullyEpisodic(a)
        BY <1>1, <1>2, <2>1 DEF SameOptions
    <2>2. CASE ~FullyEpisodic(a)
        <3>1. PICK new : new = <<reward>> \o (IF a.reward_list = <<>> THEN a.reward_list ELSE <<Head(a.reward_list)>>)
            OBVIOUS
        <3>2. b = [a EXCEPT !.reward_list = new]
            BY <1>2, <2>2, <3>1 DEF UpdateTimestepData
        <3>3. new = <<reward>> \o (IF a.reward_list = <<>> THEN <<>> ELSE <<Head(a.reward_list)>>)
            BY <3>1
        <3> QED
            BY <1>1, <3>2, <3>3 DEF SameOptions, Fields
    <2> QED
        BY <2>1, <2>2
<1>7. <<p, k>> \in Pairs \X Arm
    OBVIOUS
<1>8. /\ DOMAIN c = Fields /\ SameOptions(c, b) /\ c.epsilon = b.epsilon /\ c.reward_list = b.reward_list
      /\ c.visits = IF Times(a) = 2 THEN [a.visits EXCEPT ![<<p, k>>] = @ + 1] ELSE a.visits
    <2>1. CASE a.alpha_update \in EpisodicStrategies \/ IsBandit(a)
        <3>1. c = b
            BY <1>3, <1>6, <2>1 DEF AdaptAlpha, SameOptions, IsBandit
        <3>2. Times(a) = 1
            BY <2>1 DEF Times, EpisodicStrategies
        <3> QED
            BY <1>6, <3>1, <3>2 DEF SameOptions
    <2>2. CASE ~(a.alpha_update \in EpisodicStrategies \/ IsBandit(a)) /\ a.alpha_update = "state_based"
        <3>1. c = VisitAlpha(b, p, k)
            BY <1>3, <1>6, <2>2 DEF AdaptAlpha, SameOptions, IsBandit
        <3>2. PICK n : n = a.visits[<<p, k>>] + 1
            OBVIOUS
        <3>3. c = [b EXCEPT !.visits[<<p, k>>] = n, !.alpha = <<1, 1 + n>>]
            BY <1>6, <3>1, <3>2 DEF VisitAlpha
        <3>4. /\ DOMAIN c = Fields /\ SameOptions(c, b) /\ c.epsilon = b.epsilon
              /\ c.reward_list = b.reward_list /\ c.visits = [b.visits EXCEPT ![<<p, k>>] = n]
            BY <1>6, <3>3 DEF SameOptions, Fields
        <3>5. Times(a) = 2
            BY <2>2 DEF Times
        <3> QED
            BY <1>6, <3>2, <3>4, <3>5
    <2>3. CASE ~(a.alpha_update \in EpisodicStrategies \/ IsBandit(a)) /\ a.alpha_update # "state_based"
        <3>1. c = [b EXCEPT !.alpha = ByReward(b.alpha, AlphaStart, b.reward_list)]
            BY <1>3, <1>6, <2>3 DEF AdaptAlpha, SameOptions, IsBandit
        <3>2. Times(a) = 1
            BY <2>3 DEF Times
        <3> QED
            BY <1>6, <3>1, <3>2 DEF SameOptions, Fields
    <2> QED
        BY <2>1, <2>2, <2>3
<1>9. SameOptions(c, a)
    BY <1>6, <1>8 DEF SameOptions
<1>10. CASE a.epsilon_update \in EpisodicStrategies
    <2>1. d = c
        BY <1>4, <1>9, <1>10 DEF AdaptEps, SameOptions
    <2> QED
        BY <1>5, <1>6, <1>8, <1>9, <1>10, <2>1 DEF EpsStep, EpisodicStrategies
<1>11. CASE a.epsilon_update = "state_based"
    <2>1. PICK n : n = c.visits[<<p, k>>] + 1
        OBVIOUS
    <2>2. d = [c EXCEPT !.visits[<<p, k>>] = n, !.epsilon = <<EpsilonStart, Unit * (1 + n)>>]
        BY <1>4, <1>9, <1>11, <2>1 DEF AdaptEps, VisitEps, SameOptions, EpisodicStrategies
    <2>3. /\ SameOptions(d, c) /\ d.visits = [c.visits EXCEPT ![<<p, k>>] = n]
          /\ d.epsilon = <<EpsilonStart, Unit * (1 + n)>>
        BY <1>8, <2>2 DEF SameOptions, Fields
    <2>4. PICK v \in Nat : v = a.visits[<<p, k>>]
        BY <1>1, <1>7
    <2>5. n = v + Times(a) /\ d.visits = [a.visits EXCEPT ![<<p, k>>] = v + Times(a)]
        <3>1. CASE Times(a) = 2
            <4>1. c.visits = [a.visits EXCEPT ![<<p, k>>] = v + 1]
                BY <1>8, <2>4, <3>1
            <4>2. n = v + 2
                BY <1>1, <1>7, <2>1, <2>4, <4>1
            <4> QED
                BY <1>1, <1>7, <2>3, <3>1, <4>1, <4>2
        <3>2. CASE Times(a) = 1
            <4>1. c.visits = a.visits
                BY <1>8, <3>2
            <4> QED
                BY <2>1, <2>3, <2>4, <3>2, <4>1
        <3> QED
            BY <3>1, <3>2 DEF Times
    <2>6. SameOptions(d, a)
        BY <1>9, <2>3 DEF SameOptions
    <2> QED
        BY <1>5, <1>11, <2>3, <2>4, <2>5, <2>6 DEF EpsStep, EpisodicStrategies
<1>12. CASE ~(a.epsilon_update \in EpisodicStrategies) /\ a.epsilon_update # "state_based"
    <2>1. d = [c EXCEPT !.epsilon = ByReward(c.epsilon, EpsilonStart, c.reward_list)]
        BY <1>4, <1>9, <1>12 DEF AdaptEps, SameOptions
    <2>2. /\ SameOptions(d, c) /\ d.reward_list = c.reward_list
          /\ d.epsilon = ByReward(c.epsilon, EpsilonStart, c.reward_list)
        BY <1>8, <2>1 DEF SameOptions, Fields
    <2>3. ~FullyEpisodic(a)
        BY <1>12 DEF FullyEpisodic
    <2>4. SameOptions(d, a)
        BY <1>9, <2>2 DEF SameOptions
    <2>5. /\ d.reward_list = <<reward>> \o (IF a.reward_list = <<>> THEN <<>> ELSE <<Head(a.reward_list)>>)
          /\ d.epsilon = ByReward(a.epsilon, EpsilonStart, d.reward_list)
        BY <1>6, <1>8, <2>2, <2>3
    <2> QED
        BY <1>5, <1>12, <2>4, <2>5 DEF EpsStep
<1> QED
    BY <1>10, <1>11, <1>12

\* PathAgent.update while there are episodes to come.
LEMMA UpdateEps ==
    ASSUME NEW a, ParamTypes(a), Trains(a), NEW p \in Pairs, NEW k \in Arm, NEW level, NEW next,
           NEW episode, NEW reward
    PROVE  EpsStep(a, UpdateAgent(a, p, k, level, next, episode, reward), p, k, reward)
<1>1. PICK h : h = HandleHyperparams(a, p, k, reward)
    OBVIOUS
<1>2. EpsStep(a, h, p, k, reward)
    BY <1>1, HandleEps
<1>3. DOMAIN h = Fields
    BY <1>1, HyperparamsKeep DEF ParamTypes, SameProgress
<1>4. PICK b : b = UpdateAgent(a, p, k, level, next, episode, reward)
    OBVIOUS
<1>5. b = IF IsBandit(a) THEN UpdateBandit(h, p, k, episode, reward)
          ELSE UpdateRoutesMatrix(h, p, k, level, next, episode, reward)
    BY <1>1, <1>4 DEF UpdateAgent
<1>6. /\ SameOptions(b, h) /\ b.epsilon = h.epsilon /\ b.visits = h.visits
      /\ b.reward_list = h.reward_list
    BY <1>3, <1>5 DEF UpdateBandit, UpdateRoutesMatrix, SameOptions, Fields
<1> QED
    BY <1>2, <1>4, <1>6 DEF EpsStep, SameOptions

\* end_iter.
LEMMA EndIterEps ==
    ASSUME NEW a, DOMAIN a = Fields
    PROVE  LET b == EndAgentIter(a)
           IN  /\ SameOptions(b, a) /\ b.visits = a.visits /\ b.reward_list = a.reward_list
               /\ b.epsilon = IF a.epsilon_update \in EpisodicStrategies
                              THEN Decayed(a.epsilon_update, EpsilonStart, EpsilonEnd, a.iteration + 1)
                              ELSE a.epsilon
<1>1. PICK b : b = [a EXCEPT !.iteration = a.iteration + 1]
    OBVIOUS
<1>2. /\ DOMAIN b = Fields /\ SameOptions(b, a) /\ b.visits = a.visits /\ b.reward_list = a.reward_list
      /\ b.epsilon = a.epsilon /\ b.iteration = a.iteration + 1
    BY <1>1 DEF SameOptions, Fields
<1>3. PICK c : c = IF b.alpha_update \in EpisodicStrategies /\ ~IsBandit(b)
                   THEN [b EXCEPT !.alpha = DecayAlpha(b)] ELSE b
    OBVIOUS
<1>4. /\ DOMAIN c = Fields /\ SameOptions(c, a) /\ c.visits = a.visits /\ c.reward_list = a.reward_list
      /\ c.epsilon = a.epsilon /\ c.iteration = a.iteration + 1
    BY <1>2, <1>3 DEF SameOptions, Fields
<1>5. EndAgentIter(a) = IF c.epsilon_update \in EpisodicStrategies THEN [c EXCEPT !.epsilon = DecayEps(c)] ELSE c
    BY <1>1, <1>3 DEF EndAgentIter
<1>6. DecayEps(c) = Decayed(a.epsilon_update, EpsilonStart, EpsilonEnd, a.iteration + 1)
    BY <1>4 DEF DecayEps, SameOptions
<1>7. PICK d : d = Decayed(a.epsilon_update, EpsilonStart, EpsilonEnd, a.iteration + 1)
    OBVIOUS
<1> QED
    BY <1>4, <1>5, <1>6, <1>7 DEF SameOptions, Fields
\* A quotient lies between its neighbours.
LEMMA QuotientBetween ==
    ASSUME NEW x \in Nat, NEW n \in Nat \ {0}, NEW i \in Nat, i * n <= x, x < (i + 1) * n
    PROVE  x \div n = i
<1>1. PICK q \in Int : q = x \div n
    OBVIOUS
<1>2. q * n <= x /\ x < (q + 1) * n
    BY <1>1
<1>3. ASSUME q < i PROVE FALSE
    <2>1. (q + 1) * n <= i * n
        BY <1>3, Products
    <2>2. PICK a \in Int, b \in Int : a = (q + 1) * n /\ b = i * n
        OBVIOUS
    <2> QED
        BY <1>2, <2>1, <2>2
<1>4. ASSUME i < q PROVE FALSE
    <2>1. (i + 1) * n <= q * n
        BY <1>4, Products
    <2>2. PICK a \in Int, b \in Int : a = (i + 1) * n /\ b = q * n
        OBVIOUS
    <2> QED
        BY <1>2, <2>1, <2>2
<1> QED
    BY <1>1, <1>3, <1>4

\* The rewards learned from are the first, and fill the episodes that are over.
LEMMA LearnedAre ==
    ASSUME ProgressInv, PlaceInv, GivenInv, RankInv
    PROVE  /\ LearnedNo \in Nat /\ LearnedNo <= Len(given) /\ Len(given) <= Len(served)
           /\ {i \in DOMAIN given : served[i].iteration < MaxIters} = 1..LearnedNo
           /\ LearnedNo \div NumRequests = iteration
           /\ DOMAIN given = 1..Len(given) /\ DOMAIN served = 1..Len(served) /\ Len(served) \in Nat
<1>1. /\ NumRequests \in Nat /\ NumRequests >= 2 /\ MaxIters \in Nat
      /\ iteration \in Nat /\ iteration <= MaxIters /\ arrival_count \in 0..NumRequests
    BY AgentsAssumption DEF ProgressInv, PlaceInv
<1>2. PICK left \in Nat : left = IF arrival_count = NumRequests THEN 0 ELSE arrival_count
    BY <1>1
<1>3. left < NumRequests
    BY <1>1, <1>2
<1>4. /\ Len(given) = iteration * NumRequests + left
      /\ Len(served) = Len(given) + (IF pc = "learn" THEN 1 ELSE 0)
      /\ DOMAIN given = 1..Len(given) /\ Len(given) \in Nat
      /\ DOMAIN served = 1..Len(served) /\ Len(served) \in Nat
    BY <1>2 DEF GivenInv
<1>5. PICK t \in Nat, all \in Nat, after \in Nat :
          t = iteration * NumRequests /\ all = MaxIters * NumRequests /\ after = (iteration + 1) * NumRequests
    BY <1>1, Products
<1>6. after = t + NumRequests
    BY <1>1, <1>5
<1>7. t <= LearnedNo /\ LearnedNo < after /\ LearnedNo <= Len(given) /\ LearnedNo \in Nat
      /\ \A i \in 1..Len(given) : i <= all <=> i <= LearnedNo
    <2>1. CASE iteration < MaxIters
        <3>1. iteration + 1 <= MaxIters
            BY <1>1, <2>1
        <3>2. after <= all
            BY <1>1, <1>5, <3>1, Products
        <3>3. LearnedNo = t + left /\ Len(given) = t + left
            BY <1>4, <1>5, <2>1 DEF LearnedNo
        <3> QED
            BY <1>1, <1>3, <1>6, <3>2, <3>3
    <2>2. CASE iteration = MaxIters
        <3>1. LearnedNo = all /\ all = t /\ Len(given) = t + left
            BY <1>1, <1>4, <1>5, <2>2 DEF LearnedNo
        <3> QED
            BY <1>1, <1>6, <3>1
    <2> QED
        BY <1>1, <2>1, <2>2
<1>8. LearnedNo \div NumRequests = iteration
    BY <1>1, <1>5, <1>7, QuotientBetween
<1>9. ASSUME NEW i
      PROVE  i \in DOMAIN given /\ served[i].iteration < MaxIters <=> i \in 1..LearnedNo
    <2>1. CASE i \in 1..Len(given)
        <3>1. i \in DOMAIN served
            BY <1>4, <2>1
        <3>2. served[i].iteration < MaxIters <=> i <= all
            BY <1>5, <3>1 DEF RankInv
        <3> QED
            BY <1>4, <1>7, <2>1, <3>2
    <2>2. CASE i \notin 1..Len(given)
        BY <1>4, <1>7, <2>2
    <2> QED
        BY <2>1, <2>2
<1>10. Len(given) <= Len(served)
    BY <1>4
<1> QED
    BY <1>4, <1>7, <1>8, <1>9, <1>10

\* With epsilon where the invariant has it the property holds.
LEMMA EpsInvSays ==
    ASSUME ProgressInv, PlaceInv, ParamsInv, GivenInv, EpsInv
    PROVE  EpsilonFollowsHistory
<1>1. PICK m \in Nat : m = LearnedNo
    BY LearnedAre DEF EpsInv
<1>2. /\ m <= Len(given) /\ {i \in DOMAIN given : served[i].iteration < MaxIters} = 1..m
      /\ m \div NumRequests = iteration /\ iteration \in Nat
    BY <1>1, LearnedAre DEF EpsInv, ProgressInv
<1>3. Cardinality(1..m) = m
    BY FS_Interval
<1>4. /\ EpsilonStart \in Nat /\ EpsilonEnd \in Nat /\ Unit \in Nat /\ MaxIters \in Nat
      /\ DecayRate[1] \in Nat /\ DecayRate[2] \in Nat
    BY AgentsAssumption
<1> DEFINE onPath == Cardinality({i \in 1..m : served[i].path = served[m].path})
           visits == IF config.alpha_update = "state_based" /\ ~IsBandit(config) THEN 2 * onPath ELSE onPath
           change == IF given[m] < given[m - 1] THEN given[m - 1] - given[m] ELSE given[m] - given[m - 1]
           Is(n, d) == agent.epsilon[1] * d = n * agent.epsilon[2]
<1>5. ASSUME config.epsilon_update = "linear_decay"
      PROVE  Is(EpsilonStart * MaxIters - iteration * (EpsilonStart - EpsilonEnd), Unit * MaxIters)
    <2>1. CASE iteration = 0
        <3>1. agent.epsilon[1] = EpsilonStart /\ agent.epsilon[2] = Unit
            BY <1>5, <2>1 DEF EpsInv, EpisodicEps, EpisodicStrategies
        <3> QED
            BY <1>4, <2>1, <3>1
    <2>2. CASE iteration # 0
        <3>1. /\ agent.epsilon[1] = EpsilonEnd * MaxIters + (EpsilonStart - EpsilonEnd) * (MaxIters - iteration)
              /\ agent.epsilon[2] = Unit * MaxIters
            BY <1>5, <2>2 DEF EpsInv, EpisodicEps, EpisodicStrategies, Decayed
        <3>2. EpsilonEnd * MaxIters + (EpsilonStart - EpsilonEnd) * (MaxIters - iteration)
                  = EpsilonStart * MaxIters - iteration * (EpsilonStart - EpsilonEnd)
            BY <1>2, <1>4
        <3> QED
            BY <3>1, <3>2
    <2> QED
        BY <2>1, <2>2
<1>6. ASSUME config.epsilon_update = "exp_decay"
      PROVE  Is(EpsilonStart * Power(DecayRate[1], iteration), Unit * Power(DecayRate[2], iteration))
    <2>1. CASE iteration = 0
        <3>1. agent.epsilon[1] = EpsilonStart /\ agent.epsilon[2] = Unit
            BY <1>6, <2>1 DEF EpsInv, EpisodicEps, EpisodicStrategies
        <3>2. Power(DecayRate[1], 0) = 1 /\ Power(DecayRate[2], 0) = 1
            BY <1>4, PowerIs
        <3> QED
            BY <1>4, <2>1, <3>1, <3>2
    <2>2. CASE iteration # 0
        <3>1. /\ agent.epsilon[1] = EpsilonStart * Power(DecayRate[1], iteration)
              /\ agent.epsilon[2] = Unit * Power(DecayRate[2], iteration)
            BY <1>6, <2>2 DEF EpsInv, EpisodicEps, EpisodicStrategies, Decayed
        <3> QED
            BY <3>1
    <2> QED
        BY <2>1, <2>2
<1>7. ASSUME config.epsilon_update = "state_based"
      PROVE  Is(EpsilonStart, Unit * (1 + IF m = 0 THEN 0 ELSE visits))
    <2>1. VisitsEps
        BY <1>7 DEF EpsInv
    <2>2. CASE m = 0
        <3>1. agent.epsilon[1] = EpsilonStart /\ agent.epsilon[2] = Unit
            BY <1>1, <2>1, <2>2 DEF VisitsEps
        <3> QED
            BY <1>4, <2>2, <3>1
    <2>3. CASE m # 0
        <3>1. PICK p \in Pairs, k \in Arm :
                  /\ served[m].path = Routes[p][k]
                  /\ agent.epsilon = <<EpsilonStart, Unit * (1 + Times(config) * Total(p, k))>>
            BY <1>1, <2>1, <2>3 DEF VisitsEps
        <3>2. GivenFor(p, k) = {i \in 1..m : served[i].path = served[m].path}
            BY <1>2, <3>1 DEF GivenFor
        <3>3. onPath = Total(p, k) /\ Total(p, k) \in Nat
            BY <3>2, NumbersAre DEF Total
        <3>4. visits = Times(config) * Total(p, k)
            BY <3>3 DEF Times
        <3> HIDE DEF visits
        <3>5. PICK v : v = visits
            OBVIOUS
        <3>6. agent.epsilon[1] = EpsilonStart /\ agent.epsilon[2] = Unit * (1 + v)
            BY <3>1, <3>4, <3>5
        <3> QED
            BY <2>3, <3>5, <3>6
    <2> QED
        BY <2>2, <2>3
<1>8. ASSUME config.epsilon_update = "reward_based"
      PROVE  Is(EpsilonStart, Unit * (1 + IF m < 2 THEN 0 ELSE change))
    <2>1. RewardsEps
        BY <1>8 DEF EpsInv
    <2>2. CASE m < 2
        <3>1. agent.epsilon[1] = EpsilonStart /\ agent.epsilon[2] = Unit
            BY <1>1, <2>1, <2>2 DEF RewardsEps
        <3> QED
            BY <1>4, <2>2, <3>1
    <2>3. CASE ~(m < 2)
        <3>1. agent.epsilon = <<EpsilonStart, Unit * (1 + change)>>
            BY <1>1, <2>1, <2>3 DEF RewardsEps, Gap
        <3> HIDE DEF change
        <3>2. agent.epsilon[1] = EpsilonStart /\ agent.epsilon[2] = Unit * (1 + change)
            BY <3>1
        <3> QED
            BY <2>3, <3>2
    <2> QED
        BY <2>2, <2>3
<1> QED
    BY <1>2, <1>3, <1>5, <1>6, <1>7, <1>8 DEF EpsilonFollowsHistory

\* The agent learns a reward.
LEMMA LearnKeepsEps ==
    ASSUME ProgressInv, PlaceInv, ParamsInv, GivenInv, EpsInv, PlaceInv', Learn, pc' # "raised"
    PROVE  EpsInv'
<1>1. PICK reward, next, a :
          /\ reward = GetReward(WasAllocated(arrival_count + 1))
          /\ a = UpdateAgent(agent, chosen.pair, chosen.arm, chosen.level, next, iteration, reward)
          /\ agent' = IF Terminated(arrival_count + 1) THEN EndAgentIter(a) ELSE a
          /\ given' = Append(given, reward)
    BY LearnIs
<1>2. /\ pc = "learn" /\ config' = config /\ served' = served /\ chosen' = chosen
      /\ arrival_count' = arrival_count + 1
      /\ iteration' = IF arrival_count + 1 = NumRequests THEN iteration + 1 ELSE iteration
    BY LearnIs DEF Learn, Terminated
<1>3. /\ NumRequests \in Nat /\ NumRequests >= 2 /\ MaxIters \in Nat
      /\ iteration \in Nat /\ iteration <= MaxIters /\ arrival_count \in 0..(NumRequests - 1)
      /\ DOMAIN agent = Fields /\ agent.iteration = iteration /\ ParamTypes(agent) /\ ChosenTypes
    BY <1>2, AgentsAssumption DEF ProgressInv, PlaceInv, ParamsInv
<1>4. reward \in {Reward, Penalty}
    BY <1>1 DEF GetReward
<1>5. PICK n \in Nat : /\ n = Len(given) /\ DOMAIN given = 1..n /\ Len(served) = n + 1
                       /\ given' \in Seq({Reward, Penalty}) /\ Len(given') = n + 1 /\ given'[n + 1] = reward
                       /\ \A i \in 1..n : given'[i] = given[i]
    <2>1. given \in Seq({Reward, Penalty}) /\ Len(served) = Len(given) + 1
        BY <1>2 DEF GivenInv
    <2> QED
        BY <1>1, <1>4, <2>1
<1>6. RankInv'
    BY <1>2 DEF EpsInv, RankInv
<1>7. CASE iteration < MaxIters
    <2>1. LearnedNo = n /\ LearnedNo' = n + 1
        <3>1. LearnedNo = n
            BY <1>5, <1>7 DEF LearnedNo
        <3>2. CASE iteration' < MaxIters
            BY <1>5, <3>1, <3>2 DEF LearnedNo
        <3>3. CASE ~(iteration' < MaxIters)
            <4>1. arrival_count + 1 = NumRequests /\ iteration + 1 = MaxIters
                BY <1>2, <1>3, <1>7, <3>3
            <4>2. n = iteration * NumRequests + arrival_count
                BY <1>3, <1>5 DEF GivenInv
            <4>3. MaxIters * NumRequests = iteration * NumRequests + NumRequests
                BY <1>3, <4>1
            <4>4. PICK x \in Nat : x = iteration * NumRequests
                BY <1>3, Products
            <4>5. MaxIters * NumRequests = n + 1
                BY <1>3, <4>1, <4>2, <4>3, <4>4
            <4> QED
                BY <3>1, <3>3, <4>5 DEF LearnedNo
        <3> QED
            BY <3>1, <3>2, <3>3
    <2>2. PICK p \in Pairs, k \in Arm : p = chosen.pair /\ k = chosen.arm
        BY <1>3 DEF ChosenTypes
    <2>3. EpsStep(agent, a, p, k, reward)
        BY <1>1, <1>3, <1>7, <2>2, UpdateEps DEF Trains
    <2>4. DOMAIN a = Fields /\ a.iteration = iteration
        <3>1. Trains(agent) /\ ~agent.completed_sim
            BY <1>3, <1>7 DEF Trains, ProgressInv
        <3> QED
            BY <1>1, <1>3, <3>1, UpdateRecords
    <2>5. /\ SameOptions(agent', a) /\ agent'.visits = a.visits /\ agent'.reward_list = a.reward_list
          /\ agent'.epsilon = IF Terminated(arrival_count + 1) /\ a.epsilon_update \in EpisodicStrategies
                              THEN Decayed(a.epsilon_update, EpsilonStart, EpsilonEnd, iteration + 1)
                              ELSE a.epsilon
        <3>1. CASE Terminated(arrival_count + 1)
            <4>1. agent' = EndAgentIter(a)
                BY <1>1, <3>1
            <4> QED
                BY <2>4, <3>1, <4>1, EndIterEps
        <3>2. CASE ~Terminated(arrival_count + 1)
            BY <1>1, <3>2 DEF SameOptions
        <3> QED
            BY <3>1, <3>2
    <2>6. /\ a.epsilon_update = config.epsilon_update /\ agent.epsilon_update = config.epsilon_update
          /\ Times(agent) = Times(config) /\ SameOptions(agent, config)' /\ Times(config)' = Times(config)
        BY <1>2, <2>3, <2>5 DEF EpsInv, EpsStep, SameOptions, Times, IsBandit
    <2>7. ASSUME config.epsilon_update \in EpisodicStrategies
          PROVE  EpisodicEps'
        <3>1. EpisodicEps /\ a.epsilon = agent.epsilon
            BY <2>3, <2>6, <2>7 DEF EpsInv, EpsStep
        <3>2. CASE Terminated(arrival_count + 1)
            <4>1. agent'.epsilon = Decayed(config.epsilon_update, EpsilonStart, EpsilonEnd, iteration + 1)
                BY <2>5, <2>6, <2>7, <3>2
            <4>2. iteration' = iteration + 1 /\ iteration' # 0
                BY <1>2, <1>3, <3>2 DEF Terminated
            <4> QED
                BY <1>2, <4>1, <4>2 DEF EpisodicEps
        <3>3. CASE ~Terminated(arrival_count + 1)
            <4>1. agent'.epsilon = agent.epsilon /\ iteration' = iteration
                BY <1>2, <2>5, <3>1, <3>3 DEF Terminated
            <4> QED
                BY <1>2, <3>1, <4>1 DEF EpisodicEps
        <3> QED
            BY <3>2, <3>3
    <2>8. config.epsilon_update \notin EpisodicStrategies => agent'.epsilon = a.epsilon
        BY <2>5, <2>6
    <2>9. ASSUME config.epsilon_update = "state_based"
          PROVE  VisitsEps'
        <3>1. /\ VisitsEps /\ a.visits = [agent.visits EXCEPT ![<<p, k>>] = @ + Times(config)]
              /\ a.epsilon = <<EpsilonStart, Unit * (1 + (agent.visits[<<p, k>>] + Times(config)))>>
              /\ agent'.epsilon = a.epsilon /\ agent'.visits = a.visits
            BY <2>3, <2>5, <2>6, <2>8, <2>9 DEF EpsInv, EpsStep, EpisodicStrategies
        <3>2. Times(config) \in {1, 2}
            BY DEF Times
        <3>3. PICK t \in Nat, s \in Nat : s = Times(config) /\ t = Total(p, k)
            <4>1. Total(p, k) \in Nat
                BY NumbersAre
            <4> QED
                BY <3>2, <4>1
        <3>4. ASSUME NEW q \in Pairs, NEW j \in Arm
              PROVE  Total(q, j)' = IF q = p /\ j = k THEN Total(q, j) + 1 ELSE Total(q, j)
            BY <1>1, <1>2, <1>3, <1>7, <2>2, NumbersGrow
        <3>5. agent.visits[<<p, k>>] + s = s * (t + 1) /\ Total(p, k)' = t + 1
            <4>1. agent.visits[<<p, k>>] = s * t
                BY <3>1, <3>3 DEF VisitsEps
            <4> QED
                BY <3>3, <3>4, <4>1
        <3>6. ASSUME NEW q \in Pairs, NEW j \in Arm
              PROVE  agent'.visits[<<q, j>>] = Times(config)' * Total(q, j)'
            <4>1. <<q, j>> \in DOMAIN agent.visits /\ <<p, k>> \in DOMAIN agent.visits
                BY <1>3 DEF ParamTypes
            <4>2. CASE q = p /\ j = k
                <5>1. agent'.visits[<<q, j>>] = agent.visits[<<p, k>>] + s
                    BY <3>1, <3>3, <4>1, <4>2
                <5> QED
                    BY <2>6, <3>3, <3>5, <4>2, <5>1
            <4>3. CASE ~(q = p /\ j = k)
                <5>1. agent'.visits[<<q, j>>] = agent.visits[<<q, j>>]
                    BY <3>1, <4>1, <4>3
                <5>2. agent.visits[<<q, j>>] = Times(config) * Total(q, j)
                    BY <3>1 DEF VisitsEps
                <5>3. Total(q, j)' = Total(q, j)
                    BY <3>4, <4>3
                <5> QED
                    BY <2>6, <5>1, <5>2, <5>3
            <4> QED
                BY <4>2, <4>3
        <3>7. served'[n + 1].path = Routes[p][k]
            BY <1>2, <1>5, <2>2 DEF GivenInv, ChosenPath
        <3>8. agent'.epsilon = <<EpsilonStart, Unit * (1 + Times(config)' * Total(p, k)')>>
            BY <2>6, <3>1, <3>3, <3>5
        <3>9. LearnedNo' > 0 => \E q \in Pairs, j \in Arm :
                  /\ served'[LearnedNo'].path = Routes[q][j]
                  /\ agent'.epsilon = <<EpsilonStart, Unit * (1 + Times(config)' * Total(q, j)')>>
            BY <2>1, <3>7, <3>8
        <3>10. LearnedNo' # 0
            BY <2>1
        <3> QED
            BY <3>6, <3>9, <3>10 DEF VisitsEps
    <2>10. ASSUME config.epsilon_update = "reward_based"
           PROVE  RewardsEps'
        <3>1. /\ RewardsEps
              /\ a.reward_list = <<reward>> \o (IF agent.reward_list = <<>> THEN <<>> ELSE <<Head(agent.reward_list)>>)
              /\ a.epsilon = ByReward(agent.epsilon, EpsilonStart, a.reward_list)
              /\ agent'.epsilon = a.epsilon /\ agent'.reward_list = a.reward_list
            BY <2>3, <2>5, <2>6, <2>8, <2>10 DEF EpsInv, EpsStep, EpisodicStrategies
        <3>2. CASE n = 0
            <4>1. agent.reward_list = <<>> /\ agent.epsilon = <<EpsilonStart, Unit>>
                BY <2>1, <3>1, <3>2 DEF RewardsEps
            <4>2. a.reward_list = <<reward>>
                <5>1. <<reward>> \o <<>> = <<reward>>
                    OBVIOUS
                <5> QED
                    BY <3>1, <4>1, <5>1
            <4>3. a.epsilon = <<EpsilonStart, Unit>>
                BY <3>1, <4>1, <4>2 DEF ByReward
            <4>4. LearnedNo' = 1 /\ given'[1] = reward
                BY <1>5, <2>1, <3>2
            <4>5. agent'.reward_list = <<given'[1]>> /\ agent'.epsilon = <<EpsilonStart, Unit>>
                BY <3>1, <4>2, <4>3, <4>4
            <4>6. 1 # 0 /\ ~(1 >= 2)
                OBVIOUS
            <4> QED
                BY <4>4, <4>5, <4>6, Zenon DEF RewardsEps
        <3>3. CASE n # 0
            <4>1. agent.reward_list # <<>> /\ Head(agent.reward_list) = given[n]
                <5>1. CASE n = 1
                    BY <2>1, <3>1, <3>3, <5>1 DEF RewardsEps
                <5>2. CASE n # 1
                    BY <2>1, <3>1, <3>3, <5>2 DEF RewardsEps
                <5> QED
                    BY <5>1, <5>2
            <4>2. PICK list : list = <<reward, given[n]>>
                OBVIOUS
            <4>3. a.reward_list = list
                <5>1. PICK x \in {Reward, Penalty} : x = given[n]
                    BY <1>5, <3>3 DEF GivenInv
                <5>2. PICK new : new = <<reward>> \o <<x>>
                    OBVIOUS
                <5>3. <<reward>> \in Seq({Reward, Penalty}) /\ <<x>> \in Seq({Reward, Penalty})
                    BY <1>4
                <5>4. /\ new \in Seq({Reward, Penalty}) /\ Len(new) = 2
                      /\ new[1] = reward /\ new[2] = x
                    BY <5>2, <5>3, ConcatProperties
                <5>5. new = <<reward, x>>
                    BY <5>4
                <5> QED
                    BY <3>1, <4>1, <4>2, <5>1, <5>2, <5>5
            <4>6. Len(list) = 2 /\ list[1] = reward /\ list[2] = given[n]
                BY <4>2
            <4>7. a.epsilon = <<EpsilonStart, Unit * (1 + Gap(reward, given[n]))>>
                BY <3>1, <4>3, <4>6 DEF ByReward, Gap
            <4>4. given'[n + 1] = reward /\ given'[n] = given[n] /\ (n + 1) - 1 = n
                BY <1>5, <3>3
            <4>5. n + 1 # 0 /\ n + 1 # 1 /\ ~(n + 1 < 2) /\ n + 1 >= 2
                BY <3>3
            <4> QED
                BY <2>1, <3>1, <4>2, <4>3, <4>4, <4>5, <4>7 DEF RewardsEps
        <3> QED
            BY <3>2, <3>3
    <2> QED
        BY <1>2, <1>6, <2>6, <2>7, <2>9, <2>10 DEF EpsInv
<1>8. CASE ~(iteration < MaxIters)
    <2>1. iteration = MaxIters /\ arrival_count = 0
        BY <1>2, <1>3, <1>8 DEF PlaceInv
    <2>2. a = agent /\ agent' = agent /\ iteration' = iteration
        BY <1>1, <1>2, <1>3, <1>8, <2>1 DEF UpdateAgent, Trains, Terminated
    <2>3. LearnedNo' = LearnedNo /\ LearnedNo \in Nat /\ LearnedNo <= n
        <3>1. LearnedNo' = LearnedNo
            BY <1>3, <2>1, <2>2 DEF LearnedNo
        <3>2. LearnedNo \in Nat /\ LearnedNo <= Len(given)
            BY LearnedAre DEF EpsInv
        <3> QED
            BY <1>5, <3>1, <3>2
    <2>4. ASSUME NEW p \in Pairs, NEW k \in Arm
          PROVE  Total(p, k)' = Total(p, k)
        BY <1>1, <1>2, <1>3, <1>8, NumbersGrow
    <2>5. \A i \in 1..LearnedNo : given'[i] = given[i]
        BY <1>5, <2>3
    <2>6. EpisodicEps => EpisodicEps'
        BY <1>2, <2>2 DEF EpisodicEps
    <2>7. VisitsEps => VisitsEps'
        BY <1>2, <2>2, <2>3, <2>4 DEF VisitsEps, Times, IsBandit
    <2>8. RewardsEps => RewardsEps'
        <3>1. PICK m \in Nat : m = LearnedNo
            BY <2>3
        <3>2. /\ m # 0 => given'[m] = given[m]
              /\ m # 0 /\ m # 1 => given'[m - 1] = given[m - 1]
              /\ m = 1 => given'[1] = given[1]
            BY <2>5, <3>1
        <3>3. m >= 2 => m # 0 /\ m # 1
            OBVIOUS
        <3> QED
            BY <2>2, <2>3, <3>1, <3>2, <3>3 DEF RewardsEps, Gap
    <2>9. SameOptions(agent, config)'
        BY <1>2, <2>2 DEF EpsInv, SameOptions
    <2> QED
        BY <1>2, <1>6, <2>6, <2>7, <2>8, <2>9 DEF EpsInv
<1> QED
    BY <1>7, <1>8

\* While nothing was given there is nothing to learn from.
LEMMA NothingLearned ==
    ASSUME given = <<>>, NEW p, NEW k
    PROVE  Total(p, k) = 0
<1>1. GivenFor(p, k) = {}
    BY DEF GivenFor
<1> QED
    BY <1>1, FS_EmptySet DEF Total

\* A step that leaves agent and rewards alone, serving a request or not.
LEMMA EpsStays ==
    ASSUME ProgressInv, PlaceInv, GivenInv, EpsInv,
           agent' = agent, given' = given, iteration' = iteration, config' = config,
           \/ served' = served
           \/ \E e : served' = Append(served, e) /\ e.iteration = iteration /\ pc = "step" /\ arrival_count < NumRequests
    PROVE  EpsInv'
<1>1. PICK n \in Nat : n = Len(given) /\ LearnedNo \in Nat /\ LearnedNo <= n /\ DOMAIN given = 1..n /\ n <= Len(served)
    <2>1. Len(given) \in Nat
        BY DEF GivenInv
    <2> QED
        BY <2>1, LearnedAre DEF EpsInv
<1>2. LearnedNo' = LearnedNo
    BY DEF LearnedNo
<1>3. \A i \in 1..n : served'[i] = served[i]
    <2>1. CASE served' = served
        BY <2>1
    <2>2. CASE served' # served
        <3>1. PICK e : served' = Append(served, e)
            BY <2>2
        <3>2. served \in Seq(ServedType)
            BY DEF GivenInv
        <3> QED
            BY <1>1, <3>1, <3>2
    <2> QED
        BY <2>1, <2>2
<1>4. RankInv'
    <2>1. CASE served' = served
        BY <2>1 DEF EpsInv, RankInv
    <2>2. CASE served' # served
        <3>1. PICK e : served' = Append(served, e) /\ e.iteration = iteration /\ pc = "step" /\ arrival_count < NumRequests
            BY <2>2
        <3>2. /\ NumRequests \in Nat /\ MaxIters \in Nat /\ iteration \in Nat /\ arrival_count \in 0..NumRequests
            BY AgentsAssumption DEF ProgressInv
        <3>3. /\ served \in Seq(ServedType) /\ Len(served) = n
              /\ n = iteration * NumRequests + arrival_count
            BY <1>1, <3>1, <3>2 DEF GivenInv
        <3>4. PICK t \in Nat, all \in Nat, after \in Nat :
                  t = iteration * NumRequests /\ all = MaxIters * NumRequests /\ after = (iteration + 1) * NumRequests
            BY <3>2, Products
        <3>5. after = t + NumRequests
            BY <3>2, <3>4
        <3>6. iteration < MaxIters <=> n + 1 <= all
            <4>1. CASE iteration < MaxIters
                <5>1. iteration + 1 <= MaxIters
                    BY <3>2, <4>1
                <5>2. after <= all
                    BY <3>2, <3>4, <5>1, Products
                <5> QED
                    BY <3>1, <3>2, <3>3, <3>4, <3>5, <4>1, <5>2
            <4>2. CASE ~(iteration < MaxIters)
                <5>1. MaxIters <= iteration
                    BY <3>2, <4>2
                <5>2. all <= t
                    BY <3>2, <3>4, <5>1, Products
                <5> QED
                    BY <3>1, <3>2, <3>3, <3>4, <4>2, <5>2
            <4> QED
                BY <4>1, <4>2
        <3>7. /\ DOMAIN served' = 1..(n + 1) /\ served'[n + 1] = e
              /\ DOMAIN served = 1..n
            BY <3>1, <3>3
        <3>8. ASSUME NEW i \in DOMAIN served'
              PROVE  served'[i].iteration < MaxIters <=> i <= all
            <4>1. CASE i = n + 1
                BY <3>1, <3>6, <3>7, <4>1
            <4>2. CASE i # n + 1
                <5>1. i \in 1..n
                    BY <3>7, <4>2
                <5>2. served[i].iteration < MaxIters <=> i <= MaxIters * NumRequests
                    BY <3>7, <5>1 DEF EpsInv, RankInv
                <5> QED
                    BY <1>3, <3>4, <5>1, <5>2
            <4> QED
                BY <4>1, <4>2
        <3> QED
            BY <3>4, <3>8 DEF RankInv
    <2> QED
        BY <2>1, <2>2
<1>5. ASSUME NEW p \in Pairs, NEW k \in Arm
      PROVE  Total(p, k)' = Total(p, k)
    <2>1. GivenFor(p, k)' = GivenFor(p, k)
        BY <1>1, <1>3 DEF GivenFor
    <2> QED
        BY <2>1 DEF Total
<1>6. EpisodicEps => EpisodicEps'
    BY DEF EpisodicEps
<1>7. VisitsEps => VisitsEps'
    <2>1. LearnedNo > 0 => served'[LearnedNo] = served[LearnedNo]
        BY <1>1, <1>3
    <2> QED
        BY <1>2, <1>5, <2>1 DEF VisitsEps, Times, IsBandit
<1>8. RewardsEps => RewardsEps'
    BY <1>2 DEF RewardsEps
<1>9. SameOptions(agent, config)'
    BY DEF EpsInv, SameOptions
<1> QED
    BY <1>4, <1>6, <1>7, <1>8, <1>9 DEF EpsInv

\* A new agent, before any reward.
NewAgent == given = <<>> /\ iteration = 0 /\ RankInv /\ agent = SetupEnv(config)

\* Its epsilon is at the start.
LEMMA NewEps == NewAgent => EpsInv
<1> SUFFICES ASSUME NewAgent PROVE EpsInv
    OBVIOUS
<1> USE DEF NewAgent
<1>1. /\ SameOptions(agent, config) /\ agent.epsilon = <<EpsilonStart, Unit>> /\ agent.reward_list = <<>>
      /\ agent.visits = [x \in Pairs \X Arm |-> 0]
    BY SetupEps
<1>2. LearnedNo = 0
    BY AgentsAssumption DEF LearnedNo
<1>3. EpisodicEps
    BY <1>1 DEF EpisodicEps
<1>4. VisitsEps
    <2>1. ASSUME NEW p \in Pairs, NEW k \in Arm
          PROVE  agent.visits[<<p, k>>] = Times(config) * Total(p, k)
        <3>1. Total(p, k) = 0 /\ agent.visits[<<p, k>>] = 0
            BY <1>1, NothingLearned
        <3>2. Times(config) * 0 = 0
            BY DEF Times
        <3> QED
            BY <3>1, <3>2
    <2> QED
        BY <1>1, <1>2, <2>1 DEF VisitsEps
<1>5. RewardsEps
    BY <1>1, <1>2 DEF RewardsEps
<1> QED
    BY <1>1, <1>3, <1>4, <1>5 DEF EpsInv

\* The same after the first resets.
LEMMA ResetKeepsEps ==
    ASSUME ProgressInv, PlaceInv, GivenInv, EpsInv, Reset
    PROVE  (EpsInv \/ NewAgent)'
<1>1. /\ pc = "reset" /\ served' = served /\ given' = given /\ config' = config /\ iteration' = iteration
      /\ agent' = IF iteration = 0 THEN SetupEnv(config) ELSE agent
    BY DEF Reset
<1>2. CASE iteration = 0
    <2>1. given = <<>>
        <3>1. NumRequests \in Nat /\ arrival_count \in {0, NumRequests}
            BY <1>1, AgentsAssumption DEF ProgressInv
        <3>2. 0 * NumRequests = 0
            BY <3>1
        <3>3. Len(given) = 0 /\ given \in Seq({Reward, Penalty})
            BY <1>2, <3>1, <3>2 DEF GivenInv
        <3> QED
            BY <3>3
    <2>2. RankInv'
        BY <1>1 DEF EpsInv, RankInv
    <2> QED
        BY <1>1, <1>2, <2>1, <2>2 DEF NewAgent
<1>3. CASE iteration # 0
    BY <1>1, <1>3, EpsStays
<1> QED
    BY <1>2, <1>3

\* Every step.
LEMMA EpsNext ==
    ASSUME ProgressInv, PlaceInv, ParamsInv, GivenInv, EpsInv, [Next]_vars, pc' # "raised", PlaceInv'
    PROVE  (EpsInv \/ NewAgent)'
<1>1. CASE Reset
    BY <1>1, ResetKeepsEps
<1>2. CASE Observe \/ Loop \/ UNCHANGED vars
    <2>1. /\ agent' = agent /\ given' = given /\ iteration' = iteration /\ config' = config
          /\ served' = served
        BY <1>2 DEF Observe, Loop, vars
    <2> QED
        BY <2>1, EpsStays
<1>3. CASE Serve
    <2>1. /\ agent' = agent /\ given' = given /\ iteration' = iteration /\ config' = config
          /\ pc = "step" /\ arrival_count < NumRequests
        BY <1>3 DEF Serve
    <2>2. \E e : served' = Append(served, e) /\ e.iteration = iteration
        BY <1>3, ServeIs
    <2> QED
        BY <2>1, <2>2, EpsStays
<1>4. CASE Learn
    BY <1>4, LearnKeepsEps
<1> QED
    BY <1>1, <1>2, <1>3, <1>4 DEF Next, Ended

\* Epsilon follows the history of the training, under every strategy.
THEOREM TrainingMovesEpsilon == Spec => []EpsilonFollowsHistory
<1>1. Init => NewAgent
    BY DEF Init, NewAgent, RankInv
<1>2. NewAgent => EpsInv
    BY NewEps
<1>3. ASSUME pc # "raised" => ProgressInv /\ ParamsInv /\ GivenInv, pc # "raised" => PlaceInv,
             (pc # "raised" => PlaceInv)', pc # "raised" => EpsInv, [Next]_vars
      PROVE  (pc # "raised" => EpsInv \/ NewAgent)'
    <2>1. CASE pc = "raised"
        BY <1>3, <2>1, RaisedStays DEF vars
    <2>2. CASE pc # "raised"
        BY <1>3, <2>2, EpsNext
    <2> QED
        BY <2>1, <2>2
<1>4. (pc # "raised" => ProgressInv /\ PlaceInv /\ ParamsInv /\ GivenInv /\ EpsInv) => EpsilonFollowsHistory
    <2>1. CASE pc = "raised"
        BY <2>1 DEF EpsilonFollowsHistory
    <2>2. CASE pc # "raised"
        BY <2>2, EpsInvSays
    <2> QED
        BY <2>1, <2>2
<1> QED
    BY <1>1, <1>2, <1>3, <1>4, ProgressAlways, PlaceAlways, ParamsAlways, GivenAlways, PTL DEF Spec

-----------------------------------------------------------------------------
(* What is learned of a path. *)

\* The running mean of _update_bandit is the mean, where the unit of the values is a
\* multiple of the number of rewards: of t rewards, w were the greater.
LEMMA EntryLearns ==
    ASSUME ScaleIsExact, NEW t \in Nat, NEW w \in Nat, t + 1 <= MaxIters * NumRequests,
           NEW v \in Int, v * t = Scale * (Reward * w + Penalty * (t - w)),
           NEW reward \in {Reward, Penalty}
    PROVE  LET new == v + (Scale * reward - v) \div (t + 1)
               x   == w + (IF reward = Reward THEN 1 ELSE 0)
           IN  /\ new \in Int
               /\ new * (t + 1) = Scale * (Reward * x + Penalty * ((t + 1) - x))
<1>1. PICK n \in Nat \ {0} : n = t + 1
    OBVIOUS
<1>2. PICK c \in Nat : Scale = n * c
    <2>1. NumRequests \in Nat /\ MaxIters \in Nat
        BY AgentsAssumption
    <2>2. PICK y \in Nat : y = MaxIters * NumRequests
        BY <2>1, Products
    <2>3. n \in 1..y
        BY <1>1, <2>2
    <2> QED
        BY <2>2, <2>3 DEF ScaleIsExact
<1>3. PICK R \in Int, P \in Int, r \in Int : R = Reward /\ P = Penalty /\ r = reward
    BY AgentsAssumption
<1>4. PICK s \in Int : s = R * w + P * (t - w)
    OBVIOUS
<1>5. (v + (Scale * r - v) \div n) * n = Scale * (s + r)
    <2>1. v = v * n - n * c * s
        BY <1>1, <1>2, <1>3, <1>4
    <2>2. PICK y \in Int, z \in Int : y = Scale * r - v /\ z = c * (s + r) - v
        BY AgentsAssumption
    <2>3. y = z * n
        BY <1>2, <2>1, <2>2
    <2>4. y \div n = z
        <3>1. z <= y \div n /\ y \div n <= z /\ y \div n \in Int
            BY <2>3, QuotientIs
        <3> QED
            BY <3>1
    <2> QED
        BY <1>2, <2>2, <2>4
<1>6. PICK x \in Nat : x = w + (IF reward = Reward THEN 1 ELSE 0)
    OBVIOUS
<1>7. s + r = R * x + P * (n - x)
    <2>1. CASE reward = Reward
        <3>1. s + R = R * (w + 1) + P * ((t + 1) - (w + 1))
            BY <1>4
        <3> QED
            BY <1>1, <1>3, <1>6, <2>1, <3>1
    <2>2. CASE reward # Reward
        <3>1. s + P = R * w + P * ((t + 1) - w)
            BY <1>4
        <3> QED
            BY <1>1, <1>3, <1>6, <2>2, <3>1
    <2> QED
        BY <2>1, <2>2
<1>8. v + (Scale * r - v) \div n \in Int
    <2>1. PICK y \in Int : y = Scale * r - v
        BY AgentsAssumption
    <2>2. y \div n \in Int
        BY QuotientIs
    <2> QED
        BY <2>1, <2>2
<1> QED
    BY <1>1, <1>3, <1>5, <1>6, <1>7, <1>8

\* A q-value moves within its bounds.
LEMMA QLearns ==
    ASSUME ScaleIsExact, AgentTables(agent), ChosenTypes, QLearned(agent),
           NEW h, h.q_value = agent.q_value, AlphaOk(h),
           NEW next \in Level, NEW reward \in {Reward, Penalty}
    PROVE  LET new == NewQ(h, chosen.pair, chosen.arm, chosen.level, next, reward)
           IN  new \in Int /\ Within(new)
<1>1. PICK q \in Int, n \in Int :
          /\ q = agent.q_value[<<chosen.pair, chosen.arm, chosen.level>>] /\ Within(q)
          /\ n = agent.q_value[<<chosen.pair, chosen.arm, next>>] /\ Within(n)
    <2>1. /\ <<chosen.pair, chosen.arm, chosen.level>> \in Pairs \X Arm \X Level
          /\ <<chosen.pair, chosen.arm, next>> \in Pairs \X Arm \X Level
        BY DEF ChosenTypes
    <2> QED
        BY <2>1 DEF AgentTables, QLearned
<1>2. PICK a1 \in Nat, a2 \in Nat \ {0} : a1 = h.alpha[1] /\ a2 = h.alpha[2] /\ a1 <= a2
    BY DEF AlphaOk
<1>3. PICK d1 \in Nat, d2 \in Nat \ {0} : d1 = DiscountFactor[1] /\ d2 = DiscountFactor[2] /\ d1 <= d2
    BY AgentsAssumption DEF ScaleIsExact
<1>4. PICK R \in Int, P \in Int, r \in Int : R = Reward /\ P = Penalty /\ P < R /\ r = reward /\ r \in {R, P}
    BY AgentsAssumption
<1>5. PICK high \in Int, low \in Int : /\ high = Max({Reward, 0}) /\ low = Min({Penalty, 0})
                                       /\ low <= r /\ r <= high
    <2>1. /\ Max({R, 0}) = (IF R <= 0 THEN 0 ELSE R)
          /\ Min({P, 0}) = (IF P <= 0 THEN P ELSE 0)
        BY MinMaxOfTwo
    <2>2. Max({R, 0}) \in Int /\ Min({P, 0}) \in Int /\ Min({P, 0}) <= r /\ r <= Max({R, 0})
        BY <1>4, <2>1
    <2> QED
        BY <1>4, <2>2
<1>6. PICK new : new = NewQ(h, chosen.pair, chosen.arm, chosen.level, next, reward)
    OBVIOUS
<1>7. new = ((a2 - a1) * q + a1 * (Scale * r + (d1 * n) \div d2)) \div a2
    BY <1>1, <1>2, <1>3, <1>4, <1>6 DEF NewQ
<1>8. CASE d1 < d2
    <2>1. PICK u \in Nat : Scale = u * (d2 - d1)
        BY <1>3, <1>8 DEF ScaleIsExact
    <2>2. /\ u * low * d2 <= q /\ q <= u * high * d2
          /\ u * low * d2 <= n /\ n <= u * high * d2
        BY <1>1, <1>3, <1>5, <1>8, <2>1, WithinIs
    <2>3. new \in Int /\ u * low * d2 <= new /\ new <= u * high * d2
        <3>1. d1 <= d2 /\ low <= r /\ r <= high /\ a1 <= a2
            BY <1>2, <1>3, <1>5
        <3>2. LET delta == Scale * r + (d1 * n) \div d2
                  y     == ((a2 - a1) * q + a1 * delta) \div a2
              IN  y \in Int /\ u * low * d2 <= y /\ y <= u * high * d2
            BY <2>1, <2>2, <3>1, QStays
        <3> QED
            BY <1>7, <3>2
    <2> QED
        BY <1>3, <1>5, <1>6, <1>8, <2>1, <2>3, WithinIs
<1>9. CASE d1 = d2
    <2>1. new \in Int
        <3>1. PICK z \in Int : z = (d1 * n) \div d2
            OBVIOUS
        <3>2. PICK y \in Int : y = (a2 - a1) * q + a1 * (Scale * r + z)
            BY AgentsAssumption
        <3> QED
            BY <1>7, <3>1, <3>2
    <2>2. Within(new) <=> Within(0)
        <3>1. new * (DiscountFactor[2] - DiscountFactor[1]) = 0 /\ 0 * (DiscountFactor[2] - DiscountFactor[1]) = 0
            BY <1>3, <1>9, <2>1
        <3> QED
            BY <3>1 DEF Within
    <2> QED
        BY <1>6, <2>1, <2>2, ZeroIsWithin
<1> QED
    BY <1>3, <1>8, <1>9

\* While there are episodes to come, there are rewards to come.
LEMMA GivenIsBounded ==
    ASSUME GivenInv, iteration \in Nat, iteration < MaxIters, arrival_count \in 0..(NumRequests - 1)
    PROVE  Len(given) + 1 <= MaxIters * NumRequests
<1>1. NumRequests \in Nat /\ MaxIters \in Nat /\ iteration + 1 <= MaxIters
    BY AgentsAssumption
<1>2. PICK x \in Nat, y \in Nat : x = iteration * NumRequests /\ y = MaxIters * NumRequests
    BY <1>1, Products
<1>3. (iteration + 1) * NumRequests <= MaxIters * NumRequests
    BY <1>1, Products
<1>4. x + NumRequests <= y
    BY <1>1, <1>2, <1>3
<1>5. Len(given) = x + arrival_count
    BY <1>2 DEF GivenInv
<1> QED
    BY <1>1, <1>2, <1>4, <1>5

\* The agent learns.
LEMMA LearnKeepsLearned ==
    ASSUME ScaleIsExact, AlphaDecays, ProgressInv, ParamsInv, GivenInv, LearnedInv, Learn
    PROVE  LearnedInv'
<1>1. PICK reward, next, a :
          /\ reward = GetReward(WasAllocated(arrival_count + 1))
          /\ next = ClassifyCong(FindPathCong(net, ChosenPath))
          /\ a = UpdateAgent(agent, chosen.pair, chosen.arm, chosen.level, next, iteration, reward)
          /\ agent' = a \/ agent' = EndAgentIter(a)
          /\ given' = Append(given, reward)
    BY DEF Learn
<1>2. /\ pc = "learn" /\ served' = served /\ chosen' = chosen
      /\ iteration \in Nat /\ arrival_count \in 0..(NumRequests - 1)
      /\ DOMAIN agent = Fields /\ agent.iteration = iteration
    BY AgentsAssumption DEF Learn, ProgressInv
<1>3. /\ GivenInv /\ AgentTables(agent) /\ ChosenTypes
      /\ IF IsBandit(agent) THEN \A p \in Pairs, k \in Arm : BanditLearned(agent, p, k)
                            ELSE QLearned(agent)
    BY DEF LearnedInv, ParamsInv
<1>4. reward \in {Reward, Penalty} /\ next \in Level
    BY <1>1, CongIsLevel DEF GetReward
<1>5. ASSUME NEW b, DOMAIN b = Fields, AgentTables(b), SameTables(b, agent'),
             IF IsBandit(b) THEN \A p \in Pairs, k \in Arm :
                                    /\ b.counts[<<p, k>>] = Total(p, k)'
                                    /\ b.values[<<p, k>>] * Total(p, k)' =
                                           Scale * (Reward * Rewarded(p, k)' + Penalty * (Total(p, k)' - Rewarded(p, k)'))
             ELSE QLearned(b)
      PROVE  LearnedInv'
    <2>1. /\ agent'.path_algorithm = b.path_algorithm /\ agent'.counts = b.counts
          /\ agent'.values = b.values /\ agent'.q_value = b.q_value
        BY <1>5 DEF SameTables
    <2>2. AgentTables(agent)' /\ (IsBandit(agent)' <=> IsBandit(b))
        BY <1>5, <2>1 DEF AgentTables, IsBandit
    <2>3. CASE IsBandit(b)
        <3>1. ASSUME NEW p \in Pairs, NEW k \in Arm
              PROVE  BanditLearned(agent, p, k)'
            <4>1. /\ b.counts[<<p, k>>] = Total(p, k)'
                  /\ b.values[<<p, k>>] * Total(p, k)' =
                         Scale * (Reward * Rewarded(p, k)' + Penalty * (Total(p, k)' - Rewarded(p, k)'))
                BY <1>5, <2>3
            <4> QED
                BY <2>1, <4>1 DEF BanditLearned
        <3> QED
            BY <2>2, <2>3, <3>1 DEF LearnedInv
    <2>4. CASE ~IsBandit(b)
        <3>1. QLearned(agent)'
            BY <1>5, <2>1, <2>4 DEF QLearned, Within
        <3> QED
            BY <2>2, <2>4, <3>1 DEF LearnedInv
    <2> QED
        BY <2>3, <2>4
<1>6. ASSUME DOMAIN a = Fields
      PROVE  SameTables(a, agent')
    <2>1. SameTables(a, a)
        BY DEF SameTables
    <2> QED
        BY <1>1, <1>6, <2>1, EndIterKeepsTables
<1>7. CASE iteration < MaxIters
    <2>1. Trains(agent)
        BY <1>2, <1>7 DEF Trains
    <2>2. PICK n, h : /\ n = agent.counts[<<chosen.pair, chosen.arm>>] + 1
                      /\ h = HandleHyperparams(agent, chosen.pair, chosen.arm, reward)
        OBVIOUS
    <2>3. /\ DOMAIN a = Fields /\ a.path_algorithm = agent.path_algorithm
          /\ IF IsBandit(agent)
             THEN /\ a.q_value = agent.q_value
                  /\ a.counts = [agent.counts EXCEPT ![<<chosen.pair, chosen.arm>>] = n]
                  /\ a.values = [agent.values EXCEPT ![<<chosen.pair, chosen.arm>>] =
                                     @ + (Scale * reward - @) \div n]
             ELSE /\ a.counts = agent.counts /\ a.values = agent.values
                  /\ a.q_value = [agent.q_value EXCEPT ![<<chosen.pair, chosen.arm, chosen.level>>] =
                                      NewQ(h, chosen.pair, chosen.arm, chosen.level, next, reward)]
        <3>1. LET b == UpdateAgent(agent, chosen.pair, chosen.arm, chosen.level, next, iteration, reward)
                  g == HandleHyperparams(agent, chosen.pair, chosen.arm, reward)
                  m == agent.counts[<<chosen.pair, chosen.arm>>] + 1
              IN  /\ DOMAIN b = Fields /\ b.path_algorithm = agent.path_algorithm
                  /\ IF IsBandit(agent)
                     THEN /\ b.q_value = agent.q_value
                          /\ b.counts = [agent.counts EXCEPT ![<<chosen.pair, chosen.arm>>] = m]
                          /\ b.values = [agent.values EXCEPT ![<<chosen.pair, chosen.arm>>] =
                                             @ + (Scale * reward - @) \div m]
                     ELSE /\ b.counts = agent.counts /\ b.values = agent.values
                          /\ b.q_value = [agent.q_value EXCEPT ![<<chosen.pair, chosen.arm, chosen.level>>] =
                                              NewQ(g, chosen.pair, chosen.arm, chosen.level, next, reward)]
            BY <1>2, <2>1, UpdateIsOf
        <3> QED
            BY <1>1, <2>2, <3>1
    <2>4. IsBandit(a) <=> IsBandit(agent)
        BY <2>3 DEF IsBandit
    <2>5. CASE IsBandit(agent)
        <3>0. <<chosen.pair, chosen.arm>> \in Pairs \X Arm
            BY <1>3 DEF ChosenTypes
        <3>3. PICK t \in Nat, w \in Nat, v \in Int :
                  /\ t = Total(chosen.pair, chosen.arm) /\ w = Rewarded(chosen.pair, chosen.arm)
                  /\ t = agent.counts[<<chosen.pair, chosen.arm>>]
                  /\ v = agent.values[<<chosen.pair, chosen.arm>>]
                  /\ v * t = Scale * (Reward * w + Penalty * (t - w))
                  /\ t + 1 <= MaxIters * NumRequests
            <4>1. BanditLearned(agent, chosen.pair, chosen.arm)
                BY <1>3, <2>5 DEF ChosenTypes
            <4>2. PICK t \in Nat, w \in Nat : /\ t = Total(chosen.pair, chosen.arm) /\ t <= Len(given)
                                              /\ w = Rewarded(chosen.pair, chosen.arm)
                BY <1>3, NumbersAre
            <4>3. PICK v \in Int : v = agent.values[<<chosen.pair, chosen.arm>>]
                BY <1>3, <3>0 DEF AgentTables
            <4>4. t + 1 <= MaxIters * NumRequests
                <5>1. Len(given) + 1 <= MaxIters * NumRequests
                    BY <1>2, <1>3, <1>7, GivenIsBounded
                <5>2. PICK y \in Nat : y = MaxIters * NumRequests
                    BY AgentsAssumption, Products
                <5>3. Len(given) \in Nat
                    BY <1>3 DEF GivenInv
                <5> QED
                    BY <4>2, <5>1, <5>2, <5>3
            <4> QED
                BY <4>1, <4>2, <4>3, <4>4 DEF BanditLearned
        <3>4. PICK x \in Nat : x = w + (IF reward = Reward THEN 1 ELSE 0)
            OBVIOUS
        <3>5. PICK new \in Int : /\ new = v + (Scale * reward - v) \div (t + 1)
                                 /\ new * (t + 1) = Scale * (Reward * x + Penalty * ((t + 1) - x))
            <4>1. /\ v * t = Scale * (Reward * w + Penalty * (t - w))
                  /\ t + 1 <= MaxIters * NumRequests
                BY <3>3
            <4>2. t \in Nat /\ w \in Nat /\ v \in Int
                OBVIOUS
            <4>3. LET y == v + (Scale * reward - v) \div (t + 1)
                      z == w + (IF reward = Reward THEN 1 ELSE 0)
                  IN  y \in Int /\ y * (t + 1) = Scale * (Reward * z + Penalty * ((t + 1) - z))
                BY ONLY ScaleIsExact, <1>4, <4>1, <4>2, EntryLearns
            <4> QED
                BY <3>4, <4>3
        <3>6. /\ a.counts = [agent.counts EXCEPT ![<<chosen.pair, chosen.arm>>] = t + 1]
              /\ a.values = [agent.values EXCEPT ![<<chosen.pair, chosen.arm>>] = new]
              /\ a.q_value = agent.q_value
            BY <2>2, <2>3, <2>5, <3>3, <3>5
        <3>1. AgentTables(a)
            BY <1>3, <3>0, <3>6 DEF AgentTables
        <3>2. ASSUME NEW p \in Pairs, NEW k \in Arm
              PROVE  /\ a.counts[<<p, k>>] = Total(p, k)'
                     /\ a.values[<<p, k>>] * Total(p, k)' =
                            Scale * (Reward * Rewarded(p, k)' + Penalty * (Total(p, k)' - Rewarded(p, k)'))
            <4>1. <<p, k>> \in Pairs \X Arm
                OBVIOUS
            <4>2. CASE p = chosen.pair /\ k = chosen.arm
                <5>1. Total(p, k)' = t + 1 /\ Rewarded(p, k)' = x
                    BY <1>1, <1>2, <1>3, <1>7, <3>3, <3>4, <4>2, NumbersGrow
                <5>2. a.counts[<<p, k>>] = t + 1 /\ a.values[<<p, k>>] = new
                    BY <1>3, <3>0, <3>6, <4>2 DEF AgentTables
                <5> QED
                    BY <3>5, <5>1, <5>2
            <4>3. CASE ~(p = chosen.pair /\ k = chosen.arm)
                <5>1. Total(p, k)' = Total(p, k) /\ Rewarded(p, k)' = Rewarded(p, k)
                    BY <1>1, <1>2, <1>3, <4>3, NumbersGrow
                <5>2. <<p, k>> # <<chosen.pair, chosen.arm>>
                    BY <4>3
                <5>3. /\ a.counts[<<p, k>>] = agent.counts[<<p, k>>]
                      /\ a.values[<<p, k>>] = agent.values[<<p, k>>]
                    BY <1>3, <3>6, <4>1, <5>2 DEF AgentTables
                <5>4. BanditLearned(agent, p, k)
                    BY <1>3, <2>5
                <5> QED
                    BY <5>1, <5>3, <5>4 DEF BanditLearned
            <4> QED
                BY <4>2, <4>3
        <3> QED
            BY <1>5, <1>6, <2>3, <2>4, <2>5, <3>1, <3>2
    <2>6. CASE ~IsBandit(agent)
        <3>1. AlphaOk(h) /\ h.q_value = agent.q_value
            <4>1. ParamTypes(agent) /\ AlphaOk(agent)
                BY DEF ParamsInv
            <4>2. PICK p \in Pairs, k \in Arm : p = chosen.pair /\ k = chosen.arm
                BY <1>3 DEF ChosenTypes
            <4>3. KeepsParams(agent, h)
                BY <1>4, <2>2, <4>1, <4>2, HandleParams
            <4>4. SameTables(agent, h)
                BY <1>2, <2>2, HyperparamsKeepTables
            <4> QED
                BY <4>1, <4>3, <4>4 DEF KeepsParams, SameTables
        <3>2. PICK new \in Int : /\ new = NewQ(h, chosen.pair, chosen.arm, chosen.level, next, reward)
                                 /\ Within(new)
            BY <1>3, <1>4, <2>6, <3>1, QLearns
        <3>3. AgentTables(a)
            BY <1>3, <2>3, <2>6, <3>2 DEF AgentTables
        <3>4. QLearned(a)
            <4> SUFFICES ASSUME NEW x \in Pairs \X Arm \X Level PROVE Within(a.q_value[x])
                BY DEF QLearned
            <4>1. a.q_value[x] \in {new, agent.q_value[x]}
                BY <1>3, <2>3, <2>6, <3>2 DEF AgentTables
            <4> QED
                BY <1>3, <2>6, <3>2, <4>1 DEF QLearned
        <3> QED
            BY <1>5, <1>6, <2>3, <2>4, <2>6, <3>3, <3>4
    <2> QED
        BY <2>5, <2>6
<1>8. CASE ~(iteration < MaxIters)
    <2>1. a = agent
        BY <1>1, <1>2, <1>8 DEF UpdateAgent, Trains
    <2>2. ASSUME NEW p \in Pairs, NEW k \in Arm
          PROVE  Total(p, k)' = Total(p, k) /\ Rewarded(p, k)' = Rewarded(p, k)
        BY <1>1, <1>2, <1>3, <1>8, NumbersGrow
    <2>3. ASSUME IsBandit(agent), NEW p \in Pairs, NEW k \in Arm
          PROVE  /\ agent.counts[<<p, k>>] = Total(p, k)'
                 /\ agent.values[<<p, k>>] * Total(p, k)' =
                        Scale * (Reward * Rewarded(p, k)' + Penalty * (Total(p, k)' - Rewarded(p, k)'))
        <3>1. BanditLearned(agent, p, k)
            BY <1>3, <2>3
        <3> QED
            BY <2>2, <3>1 DEF BanditLearned
    <2> QED
        BY <1>2, <1>3, <1>5, <1>6, <2>1, <2>3
<1> QED
    BY <1>7, <1>8

NothingGiven == given = <<>>

\* While nothing was given, a new agent has learned just that.
LEMMA NewLearned ==
    ASSUME NothingGiven, NEW c
    PROVE  LET a == SetupEnv(c)
           IN  AgentTables(a) /\ QLearned(a) /\ \A p \in Pairs, k \in Arm : BanditLearned(a, p, k)
<1>1. PICK a : a = SetupEnv(c)
    OBVIOUS
<1>2. /\ a.counts = [x \in Pairs \X Arm |-> 0] /\ a.values = [x \in Pairs \X Arm |-> 0]
      /\ a.q_value = [x \in Pairs \X Arm \X Level |-> 0]
    BY <1>1, SetupTables
<1>3. AgentTables(a)
    BY <1>2 DEF AgentTables
<1>4. QLearned(a)
    BY <1>2, ZeroIsWithin DEF QLearned
<1>5. ASSUME NEW p \in Pairs, NEW k \in Arm
      PROVE  BanditLearned(a, p, k)
    <2>1. GivenFor(p, k) = {} /\ {i \in GivenFor(p, k) : given[i] = Reward} = {}
        BY DEF NothingGiven, GivenFor
    <2>2. Total(p, k) = 0 /\ Rewarded(p, k) = 0
        BY <2>1, FS_EmptySet DEF Total, Rewarded
    <2>3. a.counts[<<p, k>>] = 0 /\ a.values[<<p, k>>] = 0
        BY <1>2
    <2>4. 0 * 0 = Scale * (Reward * 0 + Penalty * (0 - 0))
        BY AgentsAssumption
    <2> QED
        BY <2>2, <2>3, <2>4 DEF BanditLearned
<1> QED
    BY <1>1, <1>3, <1>4, <1>5

\* The other steps.
LEMMA LearnedNext ==
    ASSUME ScaleIsExact, AlphaDecays, LearnedInv, [Next]_vars,
           pc # "raised" => ProgressInv /\ ParamsInv /\ GivenInv
    PROVE  LearnedInv'
<1>2. ASSUME NEW a, agent' = a, AgentTables(a),
             IF IsBandit(a) THEN \A p \in Pairs, k \in Arm : BanditLearned(a, p, k) ELSE QLearned(a),
             given' = given, served' = served \/ (GivenInv /\ \E e : served' = Append(served, e))
      PROVE  LearnedInv'
    <2>1. ASSUME NEW p \in Pairs, NEW k \in Arm
          PROVE  GivenFor(p, k)' = GivenFor(p, k)
        <3>1. \A i \in DOMAIN given : served'[i] = served[i]
            <4>1. CASE served' = served
                BY <4>1
            <4>2. CASE GivenInv /\ \E e : served' = Append(served, e)
                <5>1. PICK e : served' = Append(served, e)
                    BY <4>2
                <5>2. served \in Seq(ServedType) /\ DOMAIN given \subseteq 1..Len(served)
                    BY <4>2 DEF GivenInv
                <5> QED
                    BY <5>1, <5>2
            <4> QED
                BY <1>2, <4>1, <4>2
        <3> QED
            BY <1>2, <3>1 DEF GivenFor
    <2>2. ASSUME NEW p \in Pairs, NEW k \in Arm
          PROVE  Total(p, k)' = Total(p, k) /\ Rewarded(p, k)' = Rewarded(p, k)
        BY <1>2, <2>1 DEF Total, Rewarded
    <2>3. AgentTables(agent)' /\ (IsBandit(agent)' <=> IsBandit(a))
        BY <1>2 DEF AgentTables, IsBandit
    <2>4. CASE IsBandit(a)
        <3>1. ASSUME NEW p \in Pairs, NEW k \in Arm
              PROVE  BanditLearned(agent, p, k)'
            <4>1. BanditLearned(a, p, k)
                BY <1>2, <2>4
            <4> QED
                BY <1>2, <2>2, <4>1 DEF BanditLearned
        <3> QED
            BY <2>3, <2>4, <3>1 DEF LearnedInv
    <2>5. CASE ~IsBandit(a)
        <3>1. QLearned(agent)'
            BY <1>2, <2>5 DEF QLearned, Within
        <3> QED
            BY <2>3, <2>5, <3>1 DEF LearnedInv
    <2> QED
        BY <2>4, <2>5
<1>3. ASSUME agent' = agent, given' = given, served' = served \/ (GivenInv /\ \E e : served' = Append(served, e))
      PROVE  LearnedInv'
    BY <1>2, <1>3 DEF LearnedInv
<1>4. CASE Reset
    <2>1. /\ pc = "reset" /\ served' = served /\ given' = given
          /\ agent' = IF iteration = 0 THEN SetupEnv(config) ELSE agent
        BY <1>4 DEF Reset
    <2>2. CASE iteration = 0
        <3>1. Len(given) = 0
            <4>1. NumRequests \in Nat /\ arrival_count \in {0, NumRequests} /\ GivenInv
                BY <2>1, AgentsAssumption DEF ProgressInv
            <4>2. 0 * NumRequests = 0
                BY <4>1
            <4> QED
                BY <2>2, <4>1, <4>2 DEF GivenInv
        <3>2. NothingGiven
            BY <2>1, <3>1 DEF GivenInv, NothingGiven
        <3>3. PICK a : a = SetupEnv(config)
            OBVIOUS
        <3>4. AgentTables(a) /\ QLearned(a) /\ \A p \in Pairs, k \in Arm : BanditLearned(a, p, k)
            BY <3>2, <3>3, NewLearned
        <3> QED
            BY <1>2, <2>1, <2>2, <3>3, <3>4
    <2> QED
        BY <1>3, <2>1, <2>2
<1>5. CASE Learn
    <2>1. pc # "raised"
        BY <1>5 DEF Learn
    <2> QED
        BY <1>5, <2>1, LearnKeepsLearned
<1>6. CASE Serve
    <2>1. pc # "raised" /\ agent' = agent /\ given' = given
          /\ (served' = served \/ \E e : served' = Append(served, e))
        BY <1>6 DEF Serve
    <2> QED
        BY <1>3, <2>1
<1> QED
    BY <1>4, <1>5, <1>6, <1>3 DEF Next, Ended, Observe, Loop, vars

\* It holds at the start and so always.
LEMMA LearnedAlways ==
    ASSUME ScaleIsExact, AlphaDecays
    PROVE  Spec => []LearnedInv
<1>1. Init => LearnedInv
    <2> SUFFICES ASSUME Init PROVE LearnedInv
        OBVIOUS
    <2>4. NothingGiven
        BY DEF Init, NothingGiven
    <2>5. agent = SetupEnv(config)
        BY DEF Init
    <2> QED
        BY <2>4, <2>5, NewLearned DEF LearnedInv
<1> QED
    BY <1>1, LearnedNext, ProgressAlways, ParamsAlways, GivenAlways, PTL DEF Spec

\* What a bandit has learned of an arm is the number and the mean of what the requests
\* served on that path were given; a q-value never leaves what rewards and their discounted
\* sum allow.
THEOREM TrainingLearnsFromRewards ==
    ASSUME ScaleIsExact, AlphaDecays
    PROVE  Spec => []LearnedFromRewards
BY LearnedAlways, LearnedInvSays, PTL

-----------------------------------------------------------------------------
(* The training comes to its end. *)

\* The steps an episode still has, from a place in it; an observation of the first reset
\* is followed by another reset.
StepsOfEpisode ==
    CASE pc = "reset"         -> 4 * NumRequests + (IF constructed THEN 6 ELSE 8)
      [] pc = "observe_reset" -> 4 * NumRequests + (IF constructed THEN 5 ELSE 7)
      [] pc = "step"          -> 4 * (NumRequests - arrival_count) + 3
      [] pc = "learn"         -> 4 * (NumRequests - arrival_count) + 2
      [] pc = "observe_step"  -> 4 * (NumRequests - arrival_count) + 5
      [] pc = "loop"          -> 4 * (NumRequests - arrival_count) + 4
      [] OTHER                -> 0

StepsLeft == (MaxIters - completed_episodes) * (4 * NumRequests + 9) + StepsOfEpisode

\* Both parts are numbers.
LEMMA StepsLeftIs ==
    ASSUME ProgressInv, PlaceInv
    PROVE  /\ StepsOfEpisode \in Nat
           /\ \E e \in Nat : e = MaxIters - completed_episodes
           /\ StepsLeft \in Nat
<1>1. NumRequests \in Nat /\ arrival_count \in 0..NumRequests /\ MaxIters \in Nat
    BY AgentsAssumption DEF ProgressInv
<1>2. StepsOfEpisode \in Nat
    BY <1>1 DEF StepsOfEpisode
<1>3. PICK e \in Nat : e = MaxIters - completed_episodes
    BY <1>1 DEF PlaceInv
<1>4. PICK n \in Nat : n = 4 * NumRequests + 9
    BY <1>1
<1>5. PICK x \in Nat : x = e * n
    BY Products
<1> QED
    BY <1>2, <1>3, <1>4, <1>5 DEF StepsLeft

\* Every step that changes something is one less to come.
LEMMA StepsFall ==
    ASSUME ProgressInv, PlaceInv, pc' # "raised" => ProgressInv' /\ PlaceInv', Next, vars' # vars
    PROVE  StepsLeft' < StepsLeft
<1>0. /\ NumRequests \in Nat /\ NumRequests >= 2 /\ MaxIters \in Nat
      /\ arrival_count \in Nat /\ arrival_count <= NumRequests
      /\ pc' # "raised" => arrival_count' \in Nat /\ arrival_count' <= NumRequests
      /\ pc = "observe_reset" => arrival_count = 0
      /\ pc = "learn" => arrival_count < NumRequests
    BY AgentsAssumption DEF ProgressInv
<1>1. PICK e \in Nat, n \in Nat : e = MaxIters - completed_episodes /\ n = 4 * NumRequests + 9
    BY <1>0, StepsLeftIs
<1>2. PICK x \in Nat : x = e * n
    BY Products
<1>3. StepsLeft = x + StepsOfEpisode /\ StepsOfEpisode \in Nat /\ StepsOfEpisode' \in Nat
    <2>1. StepsOfEpisode' \in Nat
        BY <1>0 DEF StepsOfEpisode
    <2> QED
        BY <1>1, <1>2, <2>1, StepsLeftIs DEF StepsLeft
<1>4. ASSUME completed_episodes' = completed_episodes, StepsOfEpisode' < StepsOfEpisode
      PROVE  StepsLeft' < StepsLeft
    <2>1. StepsLeft' = x + StepsOfEpisode'
        BY <1>1, <1>2, <1>4 DEF StepsLeft
    <2>2. PICK s \in Nat, t \in Nat : s = StepsOfEpisode /\ t = StepsOfEpisode'
        BY <1>3
    <2>3. t < s
        BY <1>4, <2>2
    <2>4. StepsLeft = x + s /\ StepsLeft' = x + t
        BY <1>3, <2>1, <2>2
    <2> QED
        BY <2>3, <2>4
<1>5. CASE Reset
    <2>1. /\ pc = "reset" /\ pc' = "observe_reset"
          /\ completed_episodes' = completed_episodes /\ constructed' = constructed
        BY <1>5 DEF Reset
    <2>2. /\ StepsOfEpisode = 4 * NumRequests + (IF constructed THEN 6 ELSE 8)
          /\ StepsOfEpisode' = 4 * NumRequests + (IF constructed THEN 5 ELSE 7)
        BY <2>1 DEF StepsOfEpisode
    <2> QED
        BY <1>0, <1>4, <2>1, <2>2
<1>6. CASE Observe
    <2>1. /\ pc \in {"observe_reset", "observe_step"}
          /\ pc' = IF pc = "observe_step" THEN "loop" ELSE IF constructed THEN "step" ELSE "reset"
          /\ arrival_count' = arrival_count
          /\ completed_episodes' = completed_episodes /\ constructed' = TRUE
        BY <1>6 DEF Observe
    <2> QED
        BY <1>0, <1>4, <2>1 DEF StepsOfEpisode
<1>7. CASE Serve
    <2>1. /\ pc = "step" /\ pc' \in {"learn", "raised"} /\ arrival_count' = arrival_count
          /\ completed_episodes' = completed_episodes
        BY <1>7, ServeIs DEF Serve
    <2> QED
        BY <1>0, <1>4, <2>1 DEF StepsOfEpisode
<1>8. CASE Learn
    <2>1. /\ pc = "learn" /\ completed_episodes' = completed_episodes
          /\ pc' = "raised" \/ (pc' = "observe_step" /\ arrival_count' = arrival_count + 1)
        BY <1>8, LearnIs DEF Learn
    <2> QED
        BY <1>0, <1>4, <2>1 DEF StepsOfEpisode
<1>9. CASE Loop
    <2>1. /\ pc = "loop" /\ arrival_count' = arrival_count
          /\ IF completed_episodes >= MaxIters THEN pc' = "done" /\ completed_episodes' = completed_episodes
             ELSE IF arrival_count = NumRequests
             THEN pc' = "reset" /\ completed_episodes' = completed_episodes + 1
             ELSE pc' = "step" /\ completed_episodes' = completed_episodes
          /\ constructed' = constructed
        BY <1>9 DEF Loop, Terminated
    <2>2. CASE pc' # "reset"
        BY <1>0, <1>4, <2>1, <2>2 DEF StepsOfEpisode
    <2>3. CASE pc' = "reset"
        <3>1. constructed' = TRUE
            BY <2>1, <2>3 DEF PlaceInv
        <3>2. StepsOfEpisode' = 4 * NumRequests + 6 /\ StepsOfEpisode = 4
            BY <1>0, <2>1, <2>3, <3>1 DEF StepsOfEpisode
        <3>3. MaxIters - completed_episodes' = e - 1
            <4>1. completed_episodes' = completed_episodes + 1
                BY <2>1, <2>3
            <4>2. completed_episodes \in Nat
                BY DEF PlaceInv
            <4> QED
                BY <1>0, <1>1, <4>1, <4>2
        <3>4. StepsLeft' = (e - 1) * n + StepsOfEpisode'
            BY <1>1, <3>3 DEF StepsLeft
        <3>5. (e - 1) * n = x - n
            BY <1>2
        <3> QED
            BY <1>0, <1>1, <1>3, <3>2, <3>4, <3>5
    <2> QED
        BY <2>2, <2>3
<1>10. CASE Ended
    BY <1>10 DEF Ended
<1> QED
    BY <1>5, <1>6, <1>7, <1>8, <1>9, <1>10 DEF Next

NearsItsEnd == StepsLeft \in Nat /\ StepsLeft' < StepsLeft

\* A training has finitely many steps: whatever the agent chooses, each step of _run_iters
\* and SimEnv, the one after the last reset included, leaves fewer of them to come.
THEOREM TrainingIsFinite == Spec => [][NearsItsEnd]_vars
<1>1. ASSUME pc # "raised" => ProgressInv /\ PlaceInv, (pc # "raised" => ProgressInv /\ PlaceInv)', [Next]_vars
      PROVE  [NearsItsEnd]_vars
    BY <1>1, StepsFall, StepsLeftIs, RaisedStays DEF NearsItsEnd
<1> QED
    BY <1>1, ProgressAlways, PlaceAlways, PTL DEF Spec

\* When it is over, every episode has been run and has a reward for every request.
THEOREM TrainingIsComplete ==
    Spec => [](pc = "done" => iteration = MaxIters /\ AllRewarded)
<1>1. (pc # "raised" => ProgressInv /\ PlaceInv) => (pc = "done" => iteration = MaxIters /\ AllRewarded)
    <2> SUFFICES ASSUME ProgressInv, PlaceInv, pc = "done"
                 PROVE  iteration = MaxIters /\ AllRewarded
        OBVIOUS
    <2>1. completed_episodes = MaxIters /\ MaxIters \in Nat /\ iteration = completed_episodes
        BY AgentsAssumption DEF PlaceInv
    <2> QED
        BY <2>1 DEF ProgressInv
<1> QED
    BY <1>1, ProgressAlways, PlaceAlways, PTL
=============================================================================
