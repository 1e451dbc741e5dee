---------------------------- MODULE Measurements ----------------------------
(***************************************************************************)
(* Routing by the state of the spectrum and the cross-talk check of the      *)
(* fiber of seven cores, over the lightpaths of SpectrumChurn: a request is   *)
(* routed by get_route, searched a window for, measured and allocated.  A     *)
(* cost that the code keeps as a float is a pair <<numerator, denominator>>,  *)
(* a threshold in dB the ratio it stands for.                                 *)
(***************************************************************************)
EXTENDS SpectrumChurn, Routing

CONSTANTS
    Pairs,        \* the <<source, destination>> of requests
    LinkXt,       \* calculate_xt of a link's length and one adjacent core
    RequestedXt,  \* requested_xt of each format
    SpanLength    \* route_props.span_len

ASSUME MeasurementsAssumption ==
    /\ CoresPerLink = 7
    /\ LinkXt \in [Link -> Nat] /\ RequestedXt \in [Mod -> Nat]
    /\ SpanLength \in Nat \ {0}
    /\ Paths = UNION {SimplePaths(pq[1], pq[2]) : pq \in Pairs}
    /\ \A pq \in Pairs : SimplePaths(pq[1], pq[2]) # {}
    /\ \A bw \in Bandwidth, m \in Mod : ModPerBw[bw][m].slots_needed \in SlotsNeeded

VARIABLE route_method    \* engine_props['route_method']

measuredVars == <<net, held, route_method>>

PathsBetween(pq) == {p \in Paths : p[1] = pq[1] /\ p[Len(p)] = pq[2]}

-----------------------------------------------------------------------------
\* The neighbours of a core, as check_adjacent_cores and _find_adjacent_cores have them.
Neighbours_NoWrap(c) == IF c # 6 THEN {c - 1, c + 1, 6} \intersect Core ELSE 0..5

Neighbours(c) ==
    IF c # 6 THEN {IF c = 0 THEN 5 ELSE c - 1, IF c = 5 THEN 0 ELSE c + 1, 6} ELSE 0..5

\* The neighbours in use beside one slot: what _find_num_overlapped counts (and divides
\* by 3 or by 6) and check_adjacent_cores counts for each slot of a window.
Overlapping(ne, l, b, c, s) == {a \in Neighbours(c) : ne[<<l, b, a, s>>] > 0}

\* The free slots of a link, as <<band, core, slot>>.
FreeOfLink(ne, l) == UNION {{b} \X {c} \X FindFreeSlots(ne, l, b, c) : b \in Band, c \in Core}

\* The sum of _find_num_overlapped over some slots, in sixths.
SixthsOverlapped(ne, l, slots) ==
    LET beside(S) == UNION {{x} \X Overlapping(ne, l, x[1], x[2], x[3]) : x \in S}
    IN  Cardinality(beside({x \in slots : x[2] = 6})) + 2 * Cardinality(beside({x \in slots : x[2] # 6}))

FindXtLinkCost_OfTaken(ne, l) ==
    LET slots == UNION {{b} \X Core \X Slot(b) : b \in Band}
    IN  <<SixthsOverlapped(ne, l, slots \ FreeOfLink(ne, l)), Cardinality(slots)>>

\* find_xt_link_cost: the mean over the free slots, 1000 for a link without any.
FindXtLinkCost(ne, l) ==
    LET free == FreeOfLink(ne, l)
    IN  IF free = {} THEN <<6 * 1000, 1>> ELSE <<SixthsOverlapped(ne, l, free), Cardinality(free)>>

\* The xt_cost of a path: of its links, each times its spans (xt_type without_length).
XtCost(ne, path) ==
    LET upTo[i \in 1..Len(path)] ==
            IF i = 1 THEN <<0, 1>>
            ELSE LET link == {path[i - 1], path[i]}
                     cost == FindXtLinkCost(ne, link)
                     sum  == upTo[i - 1]
                 IN  <<sum[1] * cost[2] * SpanLength + sum[2] * cost[1] * LinkLength[link],
                       sum[2] * cost[2] * SpanLength>>
    IN  upTo[Len(path)]

Cheaper(x, y) == x[1] * y[2] < y[1] * x[2]

\* find_least_weight for the cross-talk cost: a least path, and the formats that reach.
FindLeastXt(ne, pq) ==
    LET costs == {<<p, XtCost(ne, p)>> : p \in PathsBetween(pq)}
        least == {x \in costs : \A y \in costs : ~Cheaper(y[2], x[2])}
    IN  (CHOOSE x \in costs : least # {} => x \in least)[1]

XtMods(mods, path) ==
    [i \in 1..3 |-> IF mods[ModsByReach(mods)[i]].max_length >= FindPathLen(path)
                    THEN ModsByReach(mods)[i] ELSE NoMod]

-----------------------------------------------------------------------------
\* _find_most_cong_link: the free slots of the fullest link of a path.
FreeOnLink(ne, l) == Cardinality(FreeOfLink(ne, l))

FindMostCongLink_LastLink(ne, path) == FreeOnLink(ne, {path[Len(path) - 1], path[Len(path)]})
FindMostCongLink(ne, path) == Min({FreeOnLink(ne, l) : l \in LinksOf(path)})

\* find_least_cong: the paths of at most one hop more than the shortest are compared
\* once a longer one has come up; without one nothing is selected and the list of the
\* paths is left for the router's caller, which fails on it.
Candidates(pq) ==
    LET paths == PathsBetween(pq)
    IN  {p \in paths : \A q \in paths : Len(p) <= Len(q) + 1}

Selects(pq) == Candidates(pq) # PathsBetween(pq)

FindLeastCong(ne, pq) ==
    LET free == {<<p, FindMostCongLink(ne, p)>> : p \in Candidates(pq)}
    IN  (CHOOSE x \in free : \A y \in free \ {x} :
            x[2] > y[2] \/ (x[2] = y[2] /\ Len(x[1]) <= Len(y[1])))[1]

\* get_route: a path and its formats; the least congested one where one is selected.
GetRoute(ne, pq, bw) ==
    IF route_method = "least_congested" THEN [path |-> FindLeastCong(ne, pq), mods |-> <<"QPSK">>]
    ELSE LET p == FindLeastXt(ne, pq) IN [path |-> p, mods |-> XtMods(ModPerBw[bw], p)]

-----------------------------------------------------------------------------
\* check_adjacent_cores: the most neighbours in use beside one slot of the window.  The
\* range stops before end_slot, which is one past the guard slot, or the last data slot
\* when there are no guard slots.
CheckAdjacentCores(ne, l, w) ==
    Max({0} \union {Cardinality(Overlapping(ne, l, w.curr_band, w.core_num, s)) :
                       s \in w.start_slot..(w.end_slot - 1)})

\* check_xt.
CheckXt(ne, path, w, mod) ==
    LET xt(l) == LinkXt[l] * CheckAdjacentCores(ne, l, w)
        sum   == MapThenSumSet(xt, LinksOf(path))
    IN  sum = 0 \/ sum < RequestedXt[mod]

Center_FromOne(w) == w.start_slot + w.end_slot + 3

\* Twice the centre of a window of num_slots = end_slot - start_slot + 1 (_init_center_vars).
Center(w) == w.start_slot + w.end_slot + 1

\* _update_link_xci: twice the centre, and the width, of the channel of a request that
\* is first met at slot s.
Interferer(ne, l, c, s) ==
    LET id == ne[<<l, "c", c, s>>]
        width == Cardinality({t \in Slot("c") : ne[<<l, "c", c, t>>] = id})
    IN  [id |-> id, center |-> 2 * s + width, width |-> width]

\* _calculate_xci: the channels of the c band that add to the noise, by request id.
Interferers(ne, l, c) ==
    {Interferer(ne, l, c, s) :
        s \in {t \in Slot("c") : /\ ne[<<l, "c", c, t>>] > 0
                                /\ \A u \in 0..(t - 1) : ne[<<l, "c", c, u>>] # ne[<<l, "c", c, t>>]}}

-----------------------------------------------------------------------------
\* get_spectrum over the formats of a route: the formats whose window is free and
\* passes the check, by their place in the list.
Demand(route, bw, f, i) ==
    <<route.path, ModPerBw[bw][route.mods[i]].slots_needed, f>>

Accepted(ne, route, bw, f) ==
    {i \in DOMAIN route.mods :
        /\ route.mods[i] # NoMod
        /\ LET props == Props(Demand(route, bw, f, i))
           IN  IsFree(ne, props) /\ CheckXt(ne, route.path, Assigned(ne, props), route.mods[i])}

MeasuredInit ==
    /\ Init
    /\ route_method \in {"least_congested", "xt_aware"}

\* An arrival that is routed; the others change nothing, and where find_least_cong selects
\* no path the caller fails and there is no arrival.  It takes the least id that is not in
\* use, so that spectra that differ in the names of requests only are one.
Arrive(pq, bw) ==
    LET route == GetRoute(net, pq, bw)
        idle  == {r \in ReqId : held[r] = None}
    IN  \E f \in Forced :
            LET ok == Accepted(net, route, bw, f)
            IN  /\ route_method = "least_congested" => Selects(pq)
                /\ idle # {} /\ ok # {}
                /\ Provision(Min(idle), Demand(route, bw, f, Min(ok)))
                /\ UNCHANGED route_method

Depart(r) == Teardown(r) /\ UNCHANGED route_method

MeasuredNext ==
    \/ \E pq \in Pairs, bw \in Bandwidth : Arrive(pq, bw)
    \/ \E r \in ReqId : Depart(r)

MeasuredSpec == MeasuredInit /\ [][MeasuredNext]_measuredVars

-----------------------------------------------------------------------------
\* The fiber: cores 0 to 5 in a ring around core 6.
Beside(c, a) ==
    \/ c # a /\ 6 \in {c, a}
    \/ 6 \notin {c, a} /\ (c - a) % 6 \in {1, 5}

\* The lightpaths that use slot s of a core beside core c.
HeldBeside(l, b, c, s) ==
    {r \in ReqId : /\ held[r] # None
                   /\ l \in LinksOf(held[r].path) /\ held[r].window.curr_band = b
                   /\ Beside(c, held[r].window.core_num)
                   /\ s \in held[r].window.start_slot..(held[r].window.start_slot + held[r].slots - 1)}

\* Cross-talk misses nobody: what check_adjacent_cores counts for a held lightpath is the
\* most others that run beside one slot of its window, guard slots included, on any core
\* the ring and the centre of the fiber put next to its own; so of two lightpaths that
\* run side by side each counts the other.
CrossTalkMissesNobody ==
    GuardSlots # 0 =>
        \A r \in ReqId : held[r] # None =>
            \A l \in LinksOf(held[r].path) :
                LET w == held[r].window
                    beside(s) == Cardinality(HeldBeside(l, w.curr_band, w.core_num, s))
                IN  CheckAdjacentCores(net, l, w) =
                        Max({beside(s) : s \in w.start_slot..(w.start_slot + held[r].slots + GuardSlots - 1)})

\* The lightpaths on a link, and the slots they take, their guards counted in.
HeldOn(l) == {r \in ReqId : held[r] # None /\ l \in LinksOf(held[r].path)}

Load(l) == LET taken(r) == held[r].slots + GuardSlots IN MapThenSumSet(taken, HeldOn(l))

\* The least congested route (docs of find_least_cong: "the least congested path in the
\* network"): of the paths of at most one hop more than the shortest it is the one whose
\* fullest link carries least, and the shortest of those.
LeastCongestedCarriesLeast ==
    \A pq \in Pairs :
        LET fullest(p) == Max({Load(l) : l \in LinksOf(p)})
            best == FindLeastCong(net, pq)
        IN  Selects(pq) => \A p \in Candidates(pq) :
                \/ fullest(best) < fullest(p)
                \/ fullest(best) = fullest(p) /\ Len(best) <= Len(p)

\* A route chosen for its cross-talk leaves no neighbour to run beside where there is a way
\* around: when some path between the nodes carries no lightpath, then on no link of the
\* chosen one a slot is free beside a lightpath, whatever the load; so on each of its links
\* there is none, or so many that each core has one.
XtRouteKeepsAway ==
    \A pq \in Pairs :
        LET best == FindLeastXt(net, pq)
        IN  (\E p \in PathsBetween(pq) : \A l \in LinksOf(p) : HeldOn(l) = {}) =>
                \A l \in LinksOf(best) :
                    /\ \A x \in FreeOfLink(net, l) : HeldBeside(l, x[1], x[2], x[3]) = {}
                    /\ HeldOn(l) = {} \/ Cardinality(HeldOn(l)) >= CoresPerLink

\* The cross-phase noise of a window the search finds is a finite number: no channel on
\* its core, however wide, has its edge at the centre of the window, where the quotient
\* under the logarithm is zero or divides by zero.
XciIsFinite ==
    \A d \in Demands : IsFree(net, Props(d)) =>
        LET w == Assigned(net, Props(d))
        IN  \A l \in LinksOf(d[1]) : \A x \in Interferers(net, l, w.core_num) :
                x.center - Center(w) \notin {x.width, -x.width}
=============================================================================
