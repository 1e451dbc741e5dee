------------------------ MODULE SpectrumAssignment --------------------------
(***************************************************************************)
(* SpectrumAssignment and SpectrumHelpers: the search for a window of       *)
(* contiguous slots that is free on every link of a path.                   *)
(*                                                                          *)
(* The loops of the code return the first window that passes.  Here a search *)
(* is the set of the windows that pass, each with a rank (a sequence of      *)
(* numbers, compared lexicographically) that is its place in the loops, and  *)
(* the answer is the window of least rank.  props holds the spectrum_props   *)
(* the search reads: path_list, slots_needed, forced_core, forced_index.     *)
(***************************************************************************)
EXTENDS Spectrum

CONSTANTS
    BandList,          \* Band as a sequence, the order of create_topology
    AllocationMethod,  \* engine_props['allocation_method']
    SpectrumPriority,  \* engine_props['spectrum_priority']
    None               \* no forced core or index

ASSUME SearchAssumption ==
    /\ BandList \in Seq(Band)
    /\ \A b \in Band : \E j \in 1..Len(BandList) : BandList[j] = b
    /\ \A i, j \in 1..Len(BandList) : BandList[i] = BandList[j] => i = j
    /\ AllocationMethod \in {"first_fit", "last_fit", "priority_first", "priority_last", "best_fit"}
    /\ AllocationMethod \in {"priority_first", "priority_last"} => CoresPerLink >= 7
    /\ None \notin Int

Descending(flag) == flag \in {"last_fit", "priority_last"}

\* _setup_first_last.  The priority order names the seven cores of the fiber it
\* was written for.
CoreList(props) ==
    IF props.forced_core # None THEN <<props.forced_core>>
    ELSE IF AllocationMethod \in {"priority_first", "priority_last"} THEN <<0, 2, 4, 1, 3, 5, 6>>
    ELSE [i \in 1..CoresPerLink |-> i - 1]

\* The super-channels of one core: its maximal runs of free slots, as <<low, high>>.
OpenRuns(net, l, b, c) ==
    LET free(s) == s \in Slot(b) /\ net[<<l, b, c, s>>] = 0
    IN  {r \in Slot(b) \X Slot(b) :
            /\ r[1] <= r[2]
            /\ \A s \in r[1]..r[2] : free(s)
            /\ ~free(r[1] - 1)
            /\ ~free(r[2] + 1)}

RunSize(r) == r[2] - r[1] + 1

-----------------------------------------------------------------------------
\* end_index of check_super_channels.
EndIndex(start, n) ==
    IF AllocationMethod = "last_fit" THEN (start - n - GuardSlots) + 1
                                     ELSE (start + n + GuardSlots) - 1

CheckFreeSpectrum_MissesLast(net, l, b, c, n, start, end) ==
    Slice(net, l, b, c, start, end + GuardSlots) = {0} \/ start = end

\* _check_free_spectrum on one link.
CheckFreeSpectrum(net, l, b, c, n, start, end) ==
    IF n = 1 /\ GuardSlots = 0
    THEN net[<<l, b, c, start>>] = 0
    ELSE Slice(net, l, b, c, start, (IF GuardSlots = 0 THEN end + 1 ELSE end) + GuardSlots) = {0}

OtherLinksFree_Unchecked(net, path, b, c, n, start, end) == TRUE

\* check_other_links; the code only calls it for paths of more than one link.
OtherLinksFree(net, path, b, c, n, start, end) ==
    Len(path) > 2 =>
        \A l \in LinksOf(path) : CheckFreeSpectrum(net, l, b, c, n, start, end)

FitsIn_Strictly(r, n) == RunSize(r) > n + GuardSlots

\* A run is only considered when the request and its guard fit in.
FitsIn(r, n) == RunSize(r) >= n + GuardSlots

Reached_BreakAtOthers(r, n, flag, forced) ==
    {s \in r[1]..r[2] : /\ flag = "forced_index" => s = forced /\ s = r[1]
                       /\ FitsIn(r, n)
                       /\ EndIndex(s, n) \in r[1]..r[2]}

Reached_AnyIndex(r, n, flag, forced) ==
    {s \in r[1]..r[2] : FitsIn(r, n) /\ EndIndex(s, n) \in r[1]..r[2]}

\* The starts of one run that check_super_channels gets to: it walks the run in
\* the flag's direction, skips all but the forced index, and leaves the run at
\* the first start whose end is not in the run.
Reached(r, n, flag, forced) ==
    LET starts   == {s \in r[1]..r[2] : flag = "forced_index" => s = forced}
        upTo(s)  == {t \in starts : IF Descending(flag) THEN t >= s ELSE t <= s}
    IN  {s \in starts : FitsIn(r, n) /\ \A t \in upTo(s) : EndIndex(t, n) \in r[1]..r[2]}

\* _update_spec_props: what check_super_channels leaves in spectrum_props.
Window(b, c, start, end) ==
    [curr_band  |-> b, core_num |-> c,
     start_slot |-> IF AllocationMethod = "last_fit" THEN end ELSE start,
     end_slot   |-> (IF AllocationMethod = "last_fit" THEN start ELSE end) + GuardSlots]

WindowType == [curr_band : Band, core_num : Core, start_slot : Int, end_slot : Int]

BandsFirst(flag) == SpectrumPriority = "BSC" /\ flag # "forced_index"

Place_CoresFirst(flag, i, j, r, at) == <<i, j, r[1], at>>

Place_RunsBackwards(flag, i, j, r, at) ==
    IF BandsFirst(flag) THEN <<j, i, -r[1], at>> ELSE <<i, j, -r[1], at>>

\* The place of core i, band j, run r and position at in the loops: cores before bands,
\* or bands before cores with the BSC priority, which a forced index disregards.  The
\* runs of a core are visited in ascending order whatever the flag.
Place(flag, i, j, r, at) ==
    IF BandsFirst(flag) THEN <<j, i, r[1], at>> ELSE <<i, j, r[1], at>>

\* handle_first_last and its band-priority and BSC variants.
FirstLast(net, props, flag) ==
    LET path == props.path_list
        n    == props.slots_needed
        l    == {path[1], path[2]}
        cores == CoreList(props)
        inRun(i, j, r) ==
            {[rank   |-> Place(flag, i, j, r, IF Descending(flag) THEN -s ELSE s),
              window |-> Window(BandList[j], cores[i], s, EndIndex(s, n))] :
                s \in {t \in Reached(r, n, flag, props.forced_index) :
                         OtherLinksFree(net, path, BandList[j], cores[i], n, t, EndIndex(t, n))}}
    IN  UNION {UNION {inRun(i, j, r) : r \in OpenRuns(net, l, BandList[j], cores[i])} :
                 i \in DOMAIN cores, j \in DOMAIN BandList}

\* find_best_fit and _allocate_best_fit: all runs of all links of the path, the
\* shortest first, in the order they were collected.
BestFit(net, props) ==
    LET path == props.path_list
        n    == props.slots_needed
        end(s) == (s + n + GuardSlots) - 1
        cores == {c \in Core : props.forced_core \in {None, c}}
        inRun(k, c, j, r) ==
            {[rank   |-> <<RunSize(r), k, c, j, r[1], s>>,
              window |-> [curr_band |-> BandList[j], core_num |-> c,
                          start_slot |-> s, end_slot |-> end(s)]] :
                s \in {t \in r[1]..r[2] :
                         /\ end(t) <= r[2]
                         /\ OtherLinksFree(net, path, BandList[j], c, n, t, end(t))}}
    IN  UNION {UNION {inRun(k, c, j, r) :
                        r \in {q \in OpenRuns(net, {path[k], path[k + 1]}, BandList[j], c) :
                                 RunSize(q) >= n}} :
                 k \in 1..(Len(path) - 1), c \in cores, j \in DOMAIN BandList}

\* _get_spectrum.
Passing(net, props) ==
    IF props.forced_index # None THEN FirstLast(net, props, "forced_index")
    ELSE IF AllocationMethod = "best_fit" THEN BestFit(net, props)
    ELSE FirstLast(net, props, AllocationMethod)

Precedes(p, q) ==
    \E i \in DOMAIN p : p[i] < q[i] /\ \A j \in 1..(i - 1) : p[j] = q[j]

\* The window the loops come to first.
First(S) ==
    LET least == {p \in S : \A q \in S \ {p} : Precedes(p.rank, q.rank)}
    IN  CHOOSE p \in S : least # {} => p \in least

IsFree(net, props) == Passing(net, props) # {}

Assigned(net, props) == First(Passing(net, props)).window
=============================================================================
