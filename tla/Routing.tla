------------------------------ MODULE Routing -------------------------------
(***************************************************************************)
(* The parts of Routing and of sim_helpers that choose routes by length and *)
(* the modulation format a length allows.  Bandwidths are their numbers: the *)
(* code's strings are decimal numerals and only compared or converted.       *)
(***************************************************************************)
EXTENDS Spectrum, SequencesExt

CONSTANTS
    LinkLength,  \* topology[u][v]['length']
    Bandwidth,   \* the keys of mod_per_bw
    RouteMethod, \* engine_props['route_method']: "external_ksp" reads precomputed routes
    ModPerBw,    \* mod_per_bw: per bandwidth and format, max_length and slots_needed
    PreCalcMods, \* engine_props['pre_calc_mod_selection']
    NoMod        \* Python's False, where a modulation format is expected

Mod == {"QPSK", "16-QAM", "64-QAM"}

ASSUME RoutingAssumption ==
    /\ LinkLength \in [Link -> Nat]
    /\ Bandwidth \subseteq Nat \ {0}
    /\ ModPerBw \in [Bandwidth -> [Mod -> [max_length : Nat, slots_needed : Nat \ {0}]]]
    /\ PreCalcMods \in BOOLEAN
    /\ NoMod \notin Mod

\* find_path_len.
FindPathLen(path) ==
    LET upTo[i \in 1..Len(path)] ==
            IF i = 1 THEN 0 ELSE upTo[i - 1] + LinkLength[{path[i - 1], path[i]}]
    IN  upTo[Len(path)]

\* get_path_mod: the densest format that still reaches, if any.
GetPathMod(mods, len) ==
    LET reach(m) == mods[m].max_length
    IN  IF reach("QPSK") >= len /\ len > reach("16-QAM") THEN "QPSK"
        ELSE IF reach("16-QAM") >= len /\ len > reach("64-QAM") THEN "16-QAM"
        ELSE IF reach("64-QAM") >= len THEN "64-QAM"
        ELSE NoMod

\* sort_nested_dict_vals on max_length: all formats, shortest reach first.
ModsByReach(mods) ==
    CHOOSE m \in [1..3 -> Mod] :
        /\ \A i, j \in 1..3 : m[i] = m[j] => i = j
        /\ \A i \in 1..2 : mods[m[i]].max_length <= mods[m[i + 1]].max_length

\* A row of mod_formats_matrix: as find_k_shortest fills it, or load_k_shortest, which
\* tries the formats from the longest reach down.
ModFormats(path, bw) ==
    IF RouteMethod = "external_ksp" THEN Reverse(ModsByReach(ModPerBw[bw]))
    ELSE IF PreCalcMods THEN ModsByReach(ModPerBw[bw])
    ELSE <<GetPathMod(ModPerBw[bw], FindPathLen(path))>>

-----------------------------------------------------------------------------
\* find_k_shortest: networkx yields the simple paths from the shortest on, and the
\* code keeps the first k_paths of them.
SimplePaths(source, dest) ==
    {p \in UNION {[1..n -> Node] : n \in 2..Cardinality(Node)} :
        IsPath(p) /\ p[1] = source /\ p[Len(p)] = dest}

FindKShortest(source, dest, k) ==
    LET paths == SimplePaths(source, dest)
        size  == IF Cardinality(paths) < k THEN Cardinality(paths) ELSE k
        route[i \in 1..size] ==
            LET rest == paths \ {route[j] : j \in 1..(i - 1)}
            IN  CHOOSE p \in rest : \A q \in rest : FindPathLen(p) <= FindPathLen(q)
    IN  [i \in 1..size |-> route[i]]

\* connection_index.
ConnectionOf(connections, source, dest) ==
    CHOOSE i \in DOMAIN connections :
        LET ends(c) == {c[1][1], Last(c[1])}
        IN  /\ ends(connections[i]) = {source, dest}
            /\ \A j \in 1..(i - 1) : ends(connections[j]) # {source, dest}

\* load_k_shortest: a file has the paths of each connection, whose two directions share
\* them; the first connection with both nodes at its ends is taken, its first k_paths
\* paths read from the end the request starts at.
LoadKShortest(connections, source, dest, k) ==
    LET stored  == connections[ConnectionOf(connections, source, dest)]
        size    == IF k < Len(stored) THEN k ELSE Len(stored)
        forward == stored[1][1] = source
    IN  [i \in 1..size |-> IF forward THEN stored[i] ELSE Reverse(stored[i])]
=============================================================================
