------------------------------ MODULE SimStats ------------------------------
(***************************************************************************)
(* SimStats over the iterations of one simulation: what is counted for each *)
(* request, closed when an iteration ends, opened again for the next and     *)
(* saved.  A list of numbers that _get_iter_means turns into a dictionary of *)
(* means is "list" or "means"; appending to a dictionary raises.             *)
(* Probabilities are kept as their numerators.                               *)
(***************************************************************************)
EXTENDS Integers, Sequences, FiniteSets, Functions

CONSTANTS
    Bandwidth, Mod,    \* the keys of mod_per_bw and their formats
    NumRequests,       \* engine_props['num_requests']
    SnapshotStep       \* engine_props['snapshot_step']

ASSUME StatsAssumption ==
    /\ Bandwidth \subseteq Nat \ {0}
    /\ NumRequests \in Nat \ {0}
    /\ SnapshotStep \in Nat \ {0}

\* What happens to a request, as iter_update reads it from sdn_props.
Outcome == [was_routed : {FALSE}, bandwidth : Bandwidth]
              \union [was_routed : {TRUE}, bandwidth : Bandwidth, modulation : Mod]

\* The keys _init_snapshots prepares.
SnapshotKeys == {k \in 0..NumRequests : k % SnapshotStep = 0}

\* SimStats and StatsProps as constructed.
NewStats ==
    [iteration |-> 0, blocked_reqs |-> 0, bit_rate_blocked |-> 0, bit_rate_request |-> 0,
     trans |-> 0, block_reasons |-> 0, sim_block_list |-> <<>>, sim_br_block_list |-> <<>>,
     trans_list |-> 0, weights |-> [m \in Mod |-> "absent"], lengths |-> [m \in Mod |-> "absent"],
     snapshots |-> "absent"]

\* _init_mods_weights_bws builds the entry of a format when it is missing or closed.
LengthsReset(old) == [m \in Mod |-> IF old[m] \in {"absent", "means"} THEN "list" ELSE old[m]]

BlockListKept(s, i, list) == IF i = 0 THEN <<>> ELSE list

\* init_iter_stats for iteration i.
InitIterStats(s, i) ==
    [s EXCEPT !.iteration = i, !.blocked_reqs = 0, !.bit_rate_blocked = 0,
              !.bit_rate_request = 0, !.trans = 0, !.block_reasons = 0, !.trans_list = 0,
              !.sim_block_list = BlockListKept(s, i, @),
              !.sim_br_block_list = BlockListKept(s, i, @),
              !.weights = [m \in Mod |-> "list"],
              !.lengths = LengthsReset(@),
              !.snapshots = "list"]

\* iter_update: of a blocked request the counters, of a routed one the lists too.
IterUpdate(s, o) ==
    IF ~o.was_routed
    THEN [s EXCEPT !.blocked_reqs = @ + 1, !.block_reasons = @ + 1,
                   !.bit_rate_blocked = @ + o.bandwidth, !.bit_rate_request = @ + o.bandwidth]
    ELSE [s EXCEPT !.bit_rate_request = @ + o.bandwidth, !.trans = @ + 1]

\* The lists iter_update appends to are lists.
CanUpdate(s, o) ==
    o.was_routed => s.lengths[o.modulation] = "list" /\ s.weights[o.modulation] = "list"

\* get_blocking and end_iter_update.
EndIterUpdate(s) ==
    [s EXCEPT !.sim_block_list = Append(@, s.blocked_reqs),
              !.sim_br_block_list = Append(@, s.bit_rate_blocked),
              !.trans_list = 1,
              !.weights = [m \in Mod |-> "means"],
              !.lengths = [m \in Mod |-> "means"],
              !.snapshots = "means"]

SumOf(list) == FoldFunction(+, 0, list)

\* get_conf_inter, without its save: 2 * 1.96 * sqrt(variance / n) is at most 5 per cent
\* of the mean, with the squares multiplied out.
Confident(s) ==
    LET list == s.sim_block_list
        n    == Len(list)
        sum  == SumOf(list)
        spread == n * SumOf([i \in 1..n |-> list[i] * list[i]]) - sum * sum
    IN  n > 1 /\ sum # 0 /\ 153664 * spread <= 25 * (n - 1) * sum * sum

\* What save_stats writes: the last iteration it has entries for and the means over
\* all of sim_block_list.
SaveDict(s) == [iteration |-> s.iteration, blocking |-> s.sim_block_list,
                bit_rate |-> s.sim_br_block_list, trans |-> s.trans_list]
=============================================================================
