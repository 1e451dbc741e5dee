---------------------------- MODULE ServiceProofs ----------------------------
(***************************************************************************)
(* Theorems about what the engine promises from outside: a routed request   *)
(* holds exactly the slots of its plan, and the engine implements            *)
(* LightpathService.                                                         *)
(***************************************************************************)
EXTENDS EngineProofs

\* The cells one window of a request stands for.
IsData(x, path, w) == OnChannel(x, path, w) /\ x[4] \in DataSlots(w)
IsGuard(x, path, w) == OnChannel(x, path, w) /\ x[4] \in GuardSlotsOf(w)

WellPlaced(w) ==
    /\ w \in WindowType
    /\ DataSlots(w) # {}
    /\ GuardSlotsOf(w) \subseteq Slot(w.curr_band)

\* A request holds the cells of a set of windows on a path, and no other cell.
HoldsWindows(nt, id, path, W) ==
    /\ \A w \in W : WellPlaced(w)
    /\ \A x \in Cell : nt[x] = id <=> \E w \in W : IsData(x, path, w)
    /\ \A x \in Cell : nt[x] = -id <=> \E w \in W : IsGuard(x, path, w)

\* The windows of the last k segments, those of the attempt under way.
LastWindows(segs, k) == {segs[i].window : i \in (Len(segs) - k + 1)..Len(segs)}

Placed(nt, id, path, segs, k) ==
    /\ k \in Nat /\ k <= Len(segs)
    /\ HoldsWindows(nt, id, path, LastWindows(segs, k))

HasPlaced(k) == Placed(net, req_id, path_list, segments, k)

HoldsNone == \A x \in Cell : net[x] # req_id /\ net[x] # -req_id

\* How much of the plan each place of the handler has placed.
PlacedInv ==
    /\ pc = "path" => num_trans = 1
    /\ pc = "slices" => num_trans >= 1
    /\ pc \in {"path", "slices"} /\ was_routed => segments = <<>>
    /\ pc = "segments" => num_trans >= 1 /\ HasPlaced(num_trans - frame.remaining)
    /\ pc = "lightpaths" => HasPlaced(num_trans)
    /\ Routed => /\ num_trans >= 1
                 /\ HasPlaced(num_trans) \/ (segments = <<>> /\ HoldsNone)

HandlerRoutes == Routes[reqs_dict[req_id].endpoints]
IsRouteOf(routes, path) == \E i \in DOMAIN routes : path = routes[i]

OnRoute ==
    /\ \A r \in DOMAIN reqs_dict : reqs_dict[r].endpoints \in DOMAIN Routes
    /\ pc \in {"path", "slices", "segments", "lightpaths"} => frame.routes = HandlerRoutes
    /\ pc \in {"slices", "segments", "lightpaths"} \/ Routed => IsRouteOf(HandlerRoutes, path_list)

\* A lightpath: the same channels, at least one, on every link of its path.
SameOnAllLinks(nt, id, path) ==
    \A x, y \in Cell :
        /\ x[1] \in LinksOf(path) /\ y[1] \in LinksOf(path)
        /\ x[2] = y[2] /\ x[3] = y[3] /\ x[4] = y[4]
        /\ nt[x] \in {id, -id}
        => nt[y] \in {id, -id}

Lit(nt, id, path) ==
    /\ path \in RoutePaths
    /\ SameOnAllLinks(nt, id, path)
    /\ \E x \in Cell : x[1] \in LinksOf(path) /\ nt[x] \in {id, -id}

ServiceInv ==
    /\ OwnsInv
    /\ PlacedInv
    /\ OnRoute
    /\ \A r \in Active : Lit(net, r, reqs_status_dict[r].path)

\* A sequence of segments, each with its window.
SegmentType == [bandwidth : Nat, window : WindowType]

\* No segment has no window.
LEMMA NoLastWindow ==
    ASSUME NEW segs, Len(segs) \in Nat
    PROVE  LastWindows(segs, 0) = {}
BY DEF LastWindows

\* One more segment is one more window.
LEMMA LastAppend ==
    ASSUME NEW S, NEW segs \in Seq(S), NEW s \in S, NEW k \in Nat, k <= Len(segs)
    PROVE  LastWindows(Append(segs, s), k + 1) = LastWindows(segs, k) \union {s.window}
<1> DEFINE n == Len(segs)
           more == Append(segs, s)
<1>1. n \in Nat /\ Len(more) = n + 1 /\ more[n + 1] = s /\ \A i \in 1..n : more[i] = segs[i]
    OBVIOUS
<1> HIDE DEF more, n
<1>2. LastWindows(more, k + 1) = {more[i].window : i \in (n - k + 1)..(n + 1)}
    <2>1. Len(more) - (k + 1) + 1 = n - k + 1
        BY <1>1
    <2> QED
        BY <1>1, <2>1 DEF LastWindows
<1>3. LastWindows(segs, k) = {segs[i].window : i \in (n - k + 1)..n}
    BY DEF LastWindows, n
<1>4. k <= n
    BY DEF n
<1>5. \A i \in (n - k + 1)..n : more[i] = segs[i]
    BY <1>1, <1>4
<1>6. (n - k + 1)..(n + 1) = ((n - k + 1)..n) \union {n + 1}
    BY <1>1, <1>4
<1>7. ASSUME NEW v
      PROVE  v \in LastWindows(more, k + 1) <=> v \in LastWindows(segs, k) \union {s.window}
    <2>1. ASSUME v \in LastWindows(more, k + 1)
          PROVE  v \in LastWindows(segs, k) \union {s.window}
        <3>1. PICK i \in (n - k + 1)..(n + 1) : v = more[i].window
            BY <1>2, <2>1
        <3>2. CASE i = n + 1
            BY <1>1, <3>1, <3>2
        <3>3. CASE i \in (n - k + 1)..n
            BY <1>3, <1>5, <3>1, <3>3
        <3> QED
            BY <1>6, <3>2, <3>3
    <2>2. ASSUME v \in LastWindows(segs, k)
          PROVE  v \in LastWindows(more, k + 1)
        <3>1. PICK i \in (n - k + 1)..n : v = segs[i].window
            BY <1>3, <2>2
        <3> QED
            BY <1>2, <1>5, <1>6, <3>1
    <2>3. s.window \in LastWindows(more, k + 1)
        BY <1>1, <1>2, <1>6
    <2> QED
        BY <2>1, <2>2, <2>3
<1> QED
    BY <1>7 DEF more

\* What allocate checks on each link of the window it writes.
LEMMA WrittenWindow ==
    ASSUME SpectrumAssumption, NEW nt, NEW path, IsPath(path), NEW w \in WindowType,
           CanAllocate(nt, path, w)
    PROVE  /\ WellPlaced(w)
           /\ \A x \in Cell : IsData(x, path, w) \/ IsGuard(x, path, w) => nt[x] = 0
<1>1. FirstOf(path) \in LinksOf(path)
    BY FirstLink
<1>2. ASSUME NEW l \in LinksOf(path)
      PROVE  /\ Slice(nt, l, w.curr_band, w.core_num, w.start_slot, DataStop(w)) = {0}
             /\ GuardSlots # 0 => /\ DataStop(w) \in Slot(w.curr_band)
                                  /\ nt[<<l, w.curr_band, w.core_num, DataStop(w)>>] = 0
    BY DEF CanAllocate, CanWrite
<1>3. ASSUME NEW l \in LinksOf(path), NEW t \in DataSlots(w)
      PROVE  nt[<<l, w.curr_band, w.core_num, t>>] = 0
    <2>1. t \in Slot(w.curr_band) /\ w.start_slot <= t /\ t < DataStop(w)
        BY DEF DataSlots
    <2>2. nt[<<l, w.curr_band, w.core_num, t>>] \in
              Slice(nt, l, w.curr_band, w.core_num, w.start_slot, DataStop(w))
        BY <2>1 DEF Slice
    <2> QED
        BY <1>2, <2>2
<1>4. DataSlots(w) # {}
    <2>1. Slice(nt, FirstOf(path), w.curr_band, w.core_num, w.start_slot, DataStop(w)) # {}
        BY <1>1, <1>2
    <2> QED
        BY <2>1 DEF Slice, DataSlots
<1>5. GuardSlotsOf(w) \subseteq Slot(w.curr_band)
    BY <1>1, <1>2 DEF GuardSlotsOf
<1>6. ASSUME NEW x \in Cell, IsData(x, path, w) \/ IsGuard(x, path, w)
      PROVE  nt[x] = 0
    <2>1. /\ x = <<x[1], x[2], x[3], x[4]>>
          /\ x[1] \in LinksOf(path) /\ x[2] = w.curr_band /\ x[3] = w.core_num
        BY <1>6, CellIsTuple DEF IsData, IsGuard, OnChannel
    <2>2. CASE x[4] \in DataSlots(w)
        BY <1>3, <2>1, <2>2
    <2>3. CASE x[4] \in GuardSlotsOf(w)
        BY <1>2, <2>1, <2>3 DEF GuardSlotsOf
    <2> QED
        BY <1>6, <2>2, <2>3 DEF IsData, IsGuard
<1> QED
    BY <1>4, <1>5, <1>6 DEF WellPlaced

\* allocate adds the cells of its window to those the request holds.
LEMMA AllocateAdds ==
    ASSUME SpectrumAssumption, NEW nt \in [Cell -> Int], NEW id \in Nat \ {0}, NEW path, IsPath(path),
           NEW W, HoldsWindows(nt, id, path, W), NEW w \in WindowType, CanAllocate(nt, path, w)
    PROVE  HoldsWindows(Allocate(nt, id, path, w), id, path, W \union {w})
<1> DEFINE more == Allocate(nt, id, path, w)
<1>1. /\ WellPlaced(w)
      /\ \A x \in Cell : IsData(x, path, w) \/ IsGuard(x, path, w) => nt[x] = 0
    BY WrittenWindow
<1>2. ASSUME NEW x \in Cell
      PROVE  more[x] = IF IsData(x, path, w) THEN id ELSE IF IsGuard(x, path, w) THEN -id ELSE nt[x]
    BY DEF Allocate, IsData, IsGuard
<1>3. \A x : ~(IsData(x, path, w) /\ IsGuard(x, path, w))
    <2>1. \A s \in DataSlots(w) : s < DataStop(w) /\ s \in Int
        <3>1. BandSlots[w.curr_band] \in Nat
            BY DEF SpectrumAssumption, WindowType
        <3> QED
            BY <3>1 DEF DataSlots, Slot
    <2>2. DataStop(w) \in Int
        BY DEF DataStop, WindowType
    <2>3. DataStop(w) \notin DataSlots(w)
        BY <2>1, <2>2
    <2> QED
        BY <2>3 DEF IsData, IsGuard, GuardSlotsOf
<1>4. id # 0 /\ id # -id /\ -id # 0
    OBVIOUS
<1> HIDE DEF more
<1>5. ASSUME NEW x \in Cell
      PROVE  /\ more[x] = id <=> IsData(x, path, w) \/ nt[x] = id
             /\ more[x] = -id <=> IsGuard(x, path, w) \/ nt[x] = -id
    BY <1>1, <1>2, <1>3, <1>4
<1>6. ASSUME NEW x \in Cell
      PROVE  more[x] = id <=> \E v \in W \union {w} : IsData(x, path, v)
    BY <1>5 DEF HoldsWindows
<1>7. ASSUME NEW x \in Cell
      PROVE  more[x] = -id <=> \E v \in W \union {w} : IsGuard(x, path, v)
    BY <1>5 DEF HoldsWindows
<1> QED
    BY <1>1, <1>6, <1>7 DEF HoldsWindows, more

\* A request that holds no slot has placed none of its segments.
LEMMA PlacedNone ==
    ASSUME NEW nt, NEW id, NEW path, NEW segs, Len(segs) \in Nat,
           \A x \in Cell : nt[x] # id /\ nt[x] # -id
    PROVE  Placed(nt, id, path, segs, 0)
BY NoLastWindow DEF Placed, HoldsWindows

\* A segment that is placed joins those placed before it.
LEMMA PlacedOneMore ==
    ASSUME SpectrumAssumption, NEW nt \in [Cell -> Int], NEW id \in Nat \ {0}, NEW path, IsPath(path),
           NEW segs \in Seq(SegmentType), NEW k, Placed(nt, id, path, segs, k),
           NEW bw \in Nat, NEW w \in WindowType, CanAllocate(nt, path, w)
    PROVE  Placed(Allocate(nt, id, path, w), id, path, Append(segs, Segment(bw, w)), k + 1)
<1> DEFINE more == Append(segs, Segment(bw, w))
<1>1. Segment(bw, w) \in SegmentType /\ Segment(bw, w).window = w
    BY DEF Segment, SegmentType
<1>2. k \in Nat /\ k <= Len(segs) /\ Len(segs) \in Nat
    BY DEF Placed
<1>3. Len(more) = Len(segs) + 1
    BY <1>1
<1>4. LastWindows(more, k + 1) = LastWindows(segs, k) \union {w}
    BY <1>1, <1>2, LastAppend
<1>5. HoldsWindows(Allocate(nt, id, path, w), id, path, LastWindows(segs, k) \union {w})
    BY AllocateAdds DEF Placed
<1> HIDE DEF more
<1>6. Placed(Allocate(nt, id, path, w), id, path, more, k + 1)
    <2>1. HoldsWindows(Allocate(nt, id, path, w), id, path, LastWindows(more, k + 1))
        BY <1>4, <1>5
    <2>2. k + 1 \in Nat /\ k + 1 <= Len(more)
        BY <1>2, <1>3
    <2> QED
        BY <2>1, <2>2 DEF Placed
<1> QED
    BY <1>6 DEF more

\* The request in the handler has an id and a record.
LEMMA HandlerRequest ==
    ASSUME OwnsInv, Handling
    PROVE  /\ req_id \in Nat \ {0} /\ req_id \in 1..arrived /\ req_id \in DOMAIN reqs_dict
           /\ req_id \notin Active
<1>1. req_id \in 1..arrived /\ req_id \notin served
    BY DEF OwnsInv, HandlesNew
<1>2. arrived \in Nat /\ DOMAIN reqs_dict = 1..arrived
    BY ControllerAssumption DEF OwnsInv, Typed, TypeOK, EngineTypeOK
<1> QED
    BY <1>1, <1>2 DEF Active

\* Between two attempts it holds no slot.
LEMMA NoneAtPath ==
    ASSUME OwnsInv, pc \in {"path", "slices"}
    PROVE  HoldsNone
<1>1. req_id \in Nat \ {0} /\ req_id \notin Active
    BY HandlerRequest DEF Handling
<1>2. \A r \in Active : r \in Nat \ {0}
    BY ControllerAssumption DEF OwnsInv, Typed, TypeOK, EngineTypeOK, Active
<1>3. NonePlaced
    BY NonePlacedAtPath
<1>4. ASSUME NEW x \in Cell, net[x] = req_id \/ net[x] = -req_id
      PROVE  FALSE
    <2>1. net[x] # 0
        BY <1>1, <1>4
    <2>2. PICK r \in Active : net[x] \in {r, -r}
        BY <1>3, <2>1 DEF NonePlaced, OwnedByActive
    <2>3. r \in Nat \ {0} /\ r # req_id
        BY <1>1, <1>2
    <2> QED
        BY <1>1, <1>4, <2>2, <2>3
<1> QED
    BY <1>4 DEF HoldsNone

\* What the handler tries is a route of its request, and so a path.
LEMMA RouteIsPath ==
    ASSUME OwnsInv, OnRoute, Handling, NEW p, IsRouteOf(HandlerRoutes, p)
    PROVE  IsPath(p) /\ p \in RoutePaths
<1>1. reqs_dict[req_id].endpoints \in DOMAIN Routes
    BY HandlerRequest DEF OnRoute
<1>2. PICK i \in DOMAIN HandlerRoutes : p = HandlerRoutes[i]
    BY DEF IsRouteOf
<1> QED
    BY <1>1, <1>2, ControllerAssumption DEF HandlerRoutes, RoutePaths

\* The route handle_event takes from its list is a route of the request.
LEMMA PathIsRoute ==
    ASSUME OwnsInv, OnRoute, AtPath
    PROVE  IsRouteOf(HandlerRoutes, Path) /\ IsPath(Path)
<1>1. IsRouteOf(HandlerRoutes, Path) /\ Handling
    BY DEF OnRoute, AtPath, Path, IsRouteOf, Handling
<1> QED
    BY <1>1, RouteIsPath

\* The attributes the lemmas below compute with, out of the type invariant.
LEMMA SdnTypes ==
    ASSUME OwnsInv
    PROVE  /\ net \in [Cell -> Int] /\ bandwidth \in Nat /\ num_trans \in Nat
           /\ segments \in Seq(SegmentType) /\ Len(segments) \in Nat
           /\ block_reason \in Reason /\ frame \in Frame /\ frame.slice \in Nat
<1>1. SdnTypeOK
    BY DEF OwnsInv, Typed, TypeOK
<1>2. bandwidth \in Nat
    BY <1>1, RoutingAssumption DEF SdnTypeOK
<1>3. segments \in Seq(SegmentType)
    BY <1>1 DEF SdnTypeOK, SegmentType
<1> QED
    BY <1>1, <1>2, <1>3 DEF SdnTypeOK, Frame

\* A whole request places its one window, or none.
LEMMA PlacedTryWhole ==
    ASSUME OwnsInv, PlacedInv, OnRoute, TryWhole
    PROVE  PlacedInv'
<1>1. /\ pc = "path" /\ path_list' = Path /\ AtPath
      /\ UNCHANGED <<req_id, bandwidth, num_trans>> /\ num_trans = 1
    BY DEF TryWhole, AtPath, PlacedInv
<1>2. bandwidth \in Bandwidth
    BY <1>1 DEF OwnsInv, Typed, HandlerTyped
<1>3. PICK found \in Outcomes(Path, ModFormats(Path, bandwidth), SlotsOfWhole) :
         \/ UNCHANGED <<was_routed, segments, pc>>
         \/ /\ found.is_free
            /\ segments' = Append(segments, Segment(bandwidth, found.window))
            /\ IF CanAllocate(net, Path, found.window)
               THEN pc' = "returned" /\ net' = Allocate(net, req_id, Path, found.window)
               ELSE pc' = "crashed"
    BY DEF TryWhole
<1>4. CASE UNCHANGED <<was_routed, segments, pc>>
    BY <1>1, <1>4 DEF PlacedInv, Routed
<1>5. CASE pc' = "crashed"
    BY <1>5 DEF PlacedInv, Routed
<1>6. CASE /\ found.is_free /\ CanAllocate(net, Path, found.window) /\ pc' = "returned"
           /\ segments' = Append(segments, Segment(bandwidth, found.window))
           /\ net' = Allocate(net, req_id, Path, found.window)
    <2>1. found.window \in WindowType
        BY <1>2, <1>6, SdnTypes, WholeOutcome, SpectrumAssumption, SearchAssumption, RoutingAssumption
    <2>2. IsPath(Path)
        BY <1>1, PathIsRoute
    <2>3. req_id \in Nat \ {0} /\ HoldsNone
        BY <1>1, HandlerRequest, NoneAtPath DEF Handling
    <2>4. Placed(net, req_id, Path, segments, 0)
        BY <2>3, SdnTypes, PlacedNone DEF HoldsNone
    <2>5. Placed(net', req_id, Path, segments', 0 + 1)
        BY <1>6, <2>1, <2>2, <2>3, <2>4, SdnTypes, PlacedOneMore, SpectrumAssumption
    <2>6. HasPlaced(num_trans)'
        BY <1>1, <2>5 DEF HasPlaced
    <2> QED
        BY <1>1, <1>6, <2>6 DEF PlacedInv, Routed
<1> QED
    BY <1>3, <1>4, <1>5, <1>6

\* A sliced attempt starts with nothing placed.
LEMMA PlacedTrySliced ==
    ASSUME OwnsInv, PlacedInv, OnRoute, TrySliced
    PROVE  PlacedInv'
<1>1. /\ pc = "path" /\ UNCHANGED <<net, req_id, was_routed, segments>>
      /\ num_trans = 1 /\ num_trans' = IF DynamicLps THEN 0 ELSE num_trans
      /\ pc' = IF ~DynamicLps THEN "slices" ELSE IF FixedGrid THEN "lightpaths" ELSE "crashed"
    BY DEF TrySliced, AtPath, PlacedInv
<1>2. pc' = "lightpaths" => HasPlaced(num_trans)'
    <2>1. Placed(net, req_id, path_list', segments, 0)
        BY <1>1, NoneAtPath, SdnTypes, PlacedNone DEF HoldsNone
    <2> QED
        BY <1>1, <2>1 DEF HasPlaced
<1> QED
    BY <1>1, <1>2 DEF PlacedInv, Routed

\* So does each slice bandwidth that is considered.
LEMMA PlacedSlices ==
    ASSUME OwnsInv, PlacedInv, NEW b \in frame.slices,
           TooManySegments(b) \/ SkipSlice(b) \/ StartSlice(b)
    PROVE  PlacedInv'
<1>1. CASE TooManySegments(b) \/ SkipSlice(b)
    BY <1>1 DEF TooManySegments, SkipSlice, PlacedInv, Routed
<1>2. CASE StartSlice(b)
    <2>1. /\ pc = "slices" /\ pc' = "segments" /\ num_trans' = NumSegments(b)
          /\ UNCHANGED <<net, req_id, path_list, segments>>
          /\ frame' = [frame EXCEPT !.slices = @ \ {b}, !.slice = b, !.remaining = NumSegments(b)]
        BY <1>2 DEF StartSlice
    <2>2. frame'.remaining = NumSegments(b)
        BY <2>1, SdnTypes DEF Frame
    <2>3. NumSegments(b) \in Nat /\ NumSegments(b) >= 1
        <3>1. bandwidth \in Bandwidth /\ b < bandwidth /\ frame.slices \subseteq Bandwidth
            BY <2>1, SdnTypes DEF OwnsInv, Typed, HandlerTyped, Frame
        <3> QED
            BY <3>1, NumSegmentsType
    <2>4. Placed(net, req_id, path_list, segments, 0)
        BY <2>1, NoneAtPath, SdnTypes, PlacedNone DEF HoldsNone
    <2>5. num_trans' - frame'.remaining = 0
        BY <2>1, <2>2, <2>3
    <2>6. Placed(net', req_id', path_list', segments', num_trans' - frame'.remaining)
        BY <2>1, <2>4, <2>5
    <2> QED
        BY <2>1, <2>3, <2>6 DEF PlacedInv, Routed, HasPlaced
<1> QED
    BY <1>1, <1>2

\* The loop ends with nothing placed: routed only because an earlier request was.
LEMMA PlacedExhausted ==
    ASSUME OwnsInv, PlacedInv, SlicesExhausted
    PROVE  PlacedInv'
<1>1. /\ pc = "slices" /\ UNCHANGED <<net, req_id, path_list, segments, was_routed>>
      /\ IF was_routed THEN pc' = "returned" /\ num_trans' = num_trans
                       ELSE pc' = "path" /\ num_trans' = 1
    BY DEF SlicesExhausted
<1>2. HoldsNone'
    BY <1>1, NoneAtPath DEF HoldsNone
<1> QED
    BY <1>1, <1>2 DEF PlacedInv, Routed

\* Neither the second round nor blocking places anything.
LEMMA PlacedQuiet ==
    ASSUME PlacedInv, SliceRound \/ Block
    PROVE  PlacedInv'
BY DEF SliceRound, Block, PlacedInv, Routed

\* One more segment is placed, or the whole attempt is taken back.
LEMMA PlacedSegment ==
    ASSUME OwnsInv, PlacedInv, OnRoute, PlaceSegment
    PROVE  PlacedInv'
<1> DEFINE mods == <<GetPathMod(ModPerBw[frame.slice], FindPathLen(path_list))>>
<1>1. /\ pc = "segments" /\ UNCHANGED <<req_id, path_list, num_trans>> /\ num_trans >= 1
      /\ Placed(net, req_id, path_list, segments, num_trans - frame.remaining)
    BY DEF PlaceSegment, PlacedInv, HasPlaced
<1>2. frame.slice \in Bandwidth /\ frame.remaining \in Int
    BY <1>1, SdnTypes DEF OwnsInv, Typed, HandlerTyped, Frame
<1>3. PICK found \in Outcomes(path_list, mods, SlotsOfSlice) :
         \/ pc' = "slices" /\ was_routed' = FALSE
         \/ /\ found.is_free
            /\ segments' = Append(segments, Segment(frame.slice, found.window))
            /\ IF CanAllocate(net, path_list, found.window)
               THEN /\ net' = Allocate(net, req_id, path_list, found.window)
                    /\ pc' = IF LastSegment THEN "returned" ELSE "segments"
               ELSE pc' = "crashed"
            /\ frame' = IF LastSegment THEN NoFrame ELSE [frame EXCEPT !.remaining = @ - 1]
    BY DEF PlaceSegment
<1>4. CASE pc' = "slices" /\ was_routed' = FALSE
    BY <1>1, <1>4 DEF PlacedInv, Routed
<1>5. CASE pc' = "crashed"
    BY <1>5 DEF PlacedInv, Routed
<1>6. CASE /\ found.is_free /\ CanAllocate(net, path_list, found.window)
           /\ segments' = Append(segments, Segment(frame.slice, found.window))
           /\ net' = Allocate(net, req_id, path_list, found.window)
           /\ pc' = IF LastSegment THEN "returned" ELSE "segments"
           /\ frame' = IF LastSegment THEN NoFrame ELSE [frame EXCEPT !.remaining = @ - 1]
    <2>1. found.window \in WindowType
        BY <1>2, <1>6, SdnTypes, SliceOutcome, SpectrumAssumption, SearchAssumption, RoutingAssumption
    <2>2. IsPath(path_list) /\ req_id \in Nat \ {0}
        BY <1>1, RouteIsPath, HandlerRequest DEF OnRoute, Handling
    <2>3. Placed(net', req_id', path_list', segments', (num_trans - frame.remaining) + 1)
        BY <1>1, <1>6, <2>1, <2>2, SdnTypes, PlacedOneMore, SpectrumAssumption
    <2>4. CASE LastSegment
        <3>1. (num_trans - frame.remaining) + 1 = num_trans'
            BY <1>1, <2>4, SdnTypes DEF LastSegment
        <3>2. Placed(net', req_id', path_list', segments', num_trans')
            BY <2>3, <3>1
        <3> QED
            BY <1>1, <1>6, <2>4, <3>2 DEF PlacedInv, Routed, HasPlaced
    <2>5. CASE ~LastSegment
        <3>1. frame'.remaining = frame.remaining - 1
            BY <1>6, <2>5, SdnTypes DEF Frame
        <3>2. (num_trans - frame.remaining) + 1 = num_trans' - frame'.remaining
            BY <1>1, <1>2, <3>1, SdnTypes
        <3>3. Placed(net', req_id', path_list', segments', num_trans' - frame'.remaining)
            BY <2>3, <3>2
        <3> QED
            BY <1>1, <1>6, <2>5, <3>3 DEF PlacedInv, Routed, HasPlaced
    <2> QED
        BY <2>4, <2>5
<1> QED
    BY <1>3, <1>4, <1>5, <1>6

\* One more lightpath is placed, or all of them are taken back.
LEMMA PlacedLightpath ==
    ASSUME OwnsInv, PlacedInv, OnRoute, PlaceLightpath
    PROVE  PlacedInv'
<1> DEFINE w == Assigned(net, Search(path_list, 1))
           bw(n) == IF n < frame.remaining THEN n ELSE frame.remaining
<1>1. /\ pc = "lightpaths" /\ UNCHANGED <<req_id, path_list>>
      /\ Placed(net, req_id, path_list, segments, num_trans)
    BY DEF PlaceLightpath, PlacedInv, HasPlaced
<1>2. PICK supported \in SnrBandwidths :
             \/ pc' = "path" /\ num_trans' = 1 /\ was_routed' = FALSE
             \/ /\ FindsLightpath(supported)
                /\ net' = IF CanAllocate(net, path_list, w)
                          THEN Allocate(net, req_id, path_list, w) ELSE net
                /\ segments' = Append(segments, Segment(bw(supported), w))
                /\ pc' = IF ~CanAllocate(net, path_list, w) THEN "crashed"
                         ELSE IF Left(supported) > 0 THEN "lightpaths" ELSE "returned"
                /\ num_trans' = num_trans + 1
    BY DEF PlaceLightpath
<1>3. CASE pc' = "path" /\ num_trans' = 1 /\ was_routed' = FALSE
    BY <1>3 DEF PlacedInv, Routed
<1>4. CASE pc' = "crashed"
    BY <1>4 DEF PlacedInv, Routed
<1>5. CASE /\ FindsLightpath(supported)
           /\ CanAllocate(net, path_list, w)
           /\ net' = Allocate(net, req_id, path_list, w)
           /\ segments' = Append(segments, Segment(bw(supported), w))
           /\ pc' \in {"lightpaths", "returned"}
           /\ num_trans' = num_trans + 1
    <2>1. w \in WindowType
        <3>1. IsFree(net, Search(path_list, 1))
            BY <1>5 DEF FindsLightpath
        <3>2. /\ Search(path_list, 1).forced_core = None
              /\ Search(path_list, 1).slots_needed = 1
            BY DEF Search
        <3> QED
            BY <3>1, <3>2, AssignedType, SpectrumAssumption, SearchAssumption
    <2>2. IsPath(path_list) /\ req_id \in Nat \ {0}
        BY <1>1, RouteIsPath, HandlerRequest DEF OnRoute, Handling
    <2>3. bw(supported) \in Nat
        <3>1. frame.remaining \in Nat
            BY <1>1, SdnTypes DEF OwnsInv, Typed, HandlerTyped, Frame
        <3> QED
            BY <3>1, ControllerAssumption
    <2> HIDE DEF w, bw
    <2>4. Placed(net', req_id', path_list', segments', num_trans + 1)
        BY <1>1, <1>5, <2>1, <2>2, <2>3, SdnTypes, PlacedOneMore, SpectrumAssumption
    <2>5. num_trans' >= 1 /\ HasPlaced(num_trans)'
        BY <1>5, <2>4, SdnTypes DEF HasPlaced
    <2> QED
        BY <1>5, <2>5 DEF PlacedInv, Routed
<1> QED
    BY <1>2, <1>3, <1>4, <1>5

\* All steps of the run.
LEMMA PlacedNext ==
    ASSUME OwnsInv, PlacedInv, OnRoute, [Next]_vars
    PROVE  PlacedInv'
<1>1. CASE ControllerStep
    BY <1>1, PlacedTryWhole, PlacedTrySliced, PlacedSlices, PlacedExhausted, PlacedQuiet,
       PlacedSegment, PlacedLightpath DEF ControllerStep, HandleEvent
<1>2. CASE HandleArrival
    BY <1>2 DEF HandleArrival, StartArrival, PlacedInv, Routed
<1>3. CASE CountBlocked \/ CountRouted
    BY <1>3 DEF CountBlocked, CountRouted, PlacedInv, Routed
<1>4. CASE \E r \in ReqId : HandleRelease(r)
    BY <1>4 DEF HandleRelease, ReleaseEvent, PlacedInv, Routed
<1>5. CASE NextIteration \/ Finish
    BY <1>5 DEF NextIteration, IterationOver, Finish, sdnVars, PlacedInv, Routed
<1>6. CASE UNCHANGED vars
    BY <1>6 DEF vars, sdnVars, PlacedInv, Routed, HasPlaced, HoldsNone
<1> QED
    BY <1>1, <1>2, <1>3, <1>4, <1>5, <1>6 DEF Next, Ended

-----------------------------------------------------------------------------
(* The path that is tried is a route of the request.                           *)

\* Steps of the handler keep the routes, and the path that is tried.
LEMMA RouteKept ==
    ASSUME OnRoute, UNCHANGED <<req_id, reqs_dict>>,
           pc' \in {"path", "slices", "segments", "lightpaths"} =>
               pc \in {"path", "slices", "segments", "lightpaths"} /\ frame'.routes = frame.routes,
           pc' \in {"slices", "segments", "lightpaths"} \/ Routed' =>
               IsRouteOf(HandlerRoutes, path_list')
    PROVE  OnRoute'
BY DEF OnRoute, HandlerRoutes, IsRouteOf

\* Both allocation attempts put a route of the request into path_list.
LEMMA RouteTried ==
    ASSUME OwnsInv, OnRoute, UNCHANGED engineVars, TryWhole \/ TrySliced
    PROVE  OnRoute'
<1>1. /\ pc = "path" /\ AtPath /\ path_list' = Path /\ req_id' = req_id
      /\ pc' \in {"path", "slices", "segments", "lightpaths"} => frame'.routes = frame.routes
    <2>1. CASE TryWhole
        <3>1. \/ frame' = NextPath /\ pc' = pc
              \/ pc' \in {"returned", "crashed"}
            BY <2>1 DEF TryWhole
        <3> QED
            BY <2>1, <3>1, SdnTypes DEF TryWhole, AtPath, NextPath, Frame
    <2>2. CASE TrySliced
        BY <2>2, SdnTypes DEF TrySliced, AtPath, Frame
    <2> QED
        BY <2>1, <2>2
<1>2. IsRouteOf(HandlerRoutes, path_list')
    BY <1>1, PathIsRoute
<1> QED
    BY <1>1, <1>2, RouteKept DEF engineVars

\* What follows an attempt, segment by segment or by giving up, keeps path_list and the
\* routes handle_event was called with.
LEMMA RouteOther ==
    ASSUME OwnsInv, OnRoute, UNCHANGED engineVars,
           \/ \E b \in frame.slices : TooManySegments(b) \/ SkipSlice(b) \/ StartSlice(b)
           \/ SlicesExhausted \/ SliceRound \/ Block
           \/ PlaceSegment \/ PlaceLightpath
    PROVE  OnRoute'
<1>1. frame \in Frame
    BY SdnTypes
<1>2. /\ req_id' = req_id /\ path_list' = path_list
      /\ pc \in {"path", "slices", "segments", "lightpaths"}
      /\ pc = "path" => pc' = "path" \/ (pc' = "returned" /\ ~Routed')
      /\ pc' \in {"path", "slices", "segments", "lightpaths"} => frame'.routes = frame.routes
    <2>1. CASE \E b \in frame.slices : TooManySegments(b) \/ SkipSlice(b) \/ StartSlice(b)
        BY <1>1, <2>1 DEF TooManySegments, SkipSlice, StartSlice, NextPath, Frame
    <2>2. CASE SlicesExhausted \/ SliceRound \/ Block
        BY <1>1, <2>2 DEF SlicesExhausted, SliceRound, Block, NextPath, Frame, Routed
    <2>3. CASE PlaceSegment
        <3>1. /\ pc = "segments" /\ UNCHANGED <<req_id, path_list>>
              /\ \/ frame' = [frame EXCEPT !.slice = 0, !.remaining = 0]
                 \/ frame' = [frame EXCEPT !.remaining = @ - 1]
                 \/ pc' \in {"returned", "crashed"}
            BY <2>3 DEF PlaceSegment
        <3> QED
            BY <1>1, <3>1 DEF Frame
    <2>4. CASE PlaceLightpath
        <3>1. /\ pc = "lightpaths" /\ UNCHANGED <<req_id, path_list>>
              /\ \/ frame' = NextPath
                 \/ \E left : frame' = [frame EXCEPT !.remaining = left]
                 \/ pc' \in {"returned", "crashed"}
            BY <2>4 DEF PlaceLightpath
        <3> QED
            BY <1>1, <3>1 DEF NextPath, Frame
    <2> QED
        BY <2>1, <2>2, <2>3, <2>4
<1>3. pc' \in {"slices", "segments", "lightpaths"} \/ Routed' => IsRouteOf(HandlerRoutes, path_list')
    BY <1>2 DEF OnRoute, Routed
<1> QED
    BY <1>2, <1>3, RouteKept DEF engineVars

\* So every step of the simulation keeps path_list to the routes of the request: nothing
\* assigns it but handle_event's loop over them.
LEMMA RouteNext ==
    ASSUME OwnsInv, OnRoute, [Next]_vars
    PROVE  OnRoute'
<1>1. CASE ControllerStep
    BY <1>1, RouteTried, RouteOther DEF ControllerStep, HandleEvent
<1>2. CASE HandleArrival
    <2>1. PICK sd \in DOMAIN Routes, bw \in Bandwidth :
              /\ StartArrival(arrived + 1, sd, bw)
              /\ reqs_dict' = Put(reqs_dict, arrived + 1, [endpoints |-> sd, bandwidth |-> bw])
        BY <1>2 DEF HandleArrival
    <2>2. pc' = "path" /\ req_id' = arrived + 1 /\ frame'.routes = Routes[sd]
        BY <2>1 DEF StartArrival, NoFrame
    <2>3. /\ reqs_dict'[arrived + 1].endpoints = sd
          /\ \A r \in DOMAIN reqs_dict' : r = arrived + 1 \/ (r \in DOMAIN reqs_dict /\ reqs_dict'[r] = reqs_dict[r])
        BY <2>1 DEF Put
    <2> QED
        BY <2>2, <2>3 DEF OnRoute, HandlerRoutes, Routed
<1>3. CASE CountBlocked \/ CountRouted
    <2>1. pc' \in {"idle", "crashed"} /\ reqs_dict' = reqs_dict
        BY <1>3 DEF CountBlocked, CountRouted
    <2> QED
        BY <2>1 DEF OnRoute, Routed
<1>4. CASE \E r \in ReqId : HandleRelease(r)
    <2>1. pc' = "idle" /\ reqs_dict' = reqs_dict
        BY <1>4 DEF HandleRelease, ReleaseEvent
    <2> QED
        BY <2>1 DEF OnRoute, Routed
<1>5. CASE NextIteration
    <2>1. pc' = "idle" /\ DOMAIN reqs_dict' = {}
        BY <1>5 DEF NextIteration, IterationOver, sdnVars
    <2> QED
        BY <2>1 DEF OnRoute, Routed
<1>6. CASE Finish
    <2>1. pc' = "done" /\ reqs_dict' = reqs_dict
        BY <1>6 DEF Finish, engineVars
    <2> QED
        BY <2>1 DEF OnRoute, Routed
<1>7. CASE UNCHANGED vars
    BY <1>7 DEF vars, sdnVars, engineVars, OnRoute, Routed, HandlerRoutes
<1> QED
    BY <1>1, <1>2, <1>3, <1>4, <1>5, <1>6, <1>7 DEF Next, Ended

-----------------------------------------------------------------------------
(* Active requests are lightpaths.                                             *)

\* A lightpath whose slots no step changed is still lit.
LEMMA LitKept ==
    ASSUME NEW nt1, NEW nt2, NEW id, NEW path, Lit(nt1, id, path),
           \A x \in Cell : nt1[x] \in {id, -id} \/ nt2[x] \in {id, -id} => nt2[x] = nt1[x]
    PROVE  Lit(nt2, id, path)
<1>1. SameOnAllLinks(nt2, id, path)
    BY DEF Lit, SameOnAllLinks
<1>2. \E x \in Cell : x[1] \in LinksOf(path) /\ nt2[x] \in {id, -id}
    BY DEF Lit
<1> QED
    BY <1>1, <1>2 DEF Lit

\* A request that has placed a segment is one.
LEMMA PlacedIsLit ==
    ASSUME NEW nt, NEW id, NEW path \in RoutePaths, IsPath(path), NEW segs, NEW k, Len(segs) \in Nat,
           Placed(nt, id, path, segs, k), k >= 1
    PROVE  Lit(nt, id, path)
<1> DEFINE W == LastWindows(segs, k)
<1>1. HoldsWindows(nt, id, path, W)
    BY DEF Placed
<1>2. SameOnAllLinks(nt, id, path)
    <2> SUFFICES ASSUME NEW x \in Cell, NEW y \in Cell,
                        x[1] \in LinksOf(path), y[1] \in LinksOf(path),
                        x[2] = y[2], x[3] = y[3], x[4] = y[4], nt[x] \in {id, -id}
                 PROVE  nt[y] \in {id, -id}
        BY DEF SameOnAllLinks
    <2>1. \A w \in W : (IsData(x, path, w) => IsData(y, path, w)) /\ (IsGuard(x, path, w) => IsGuard(y, path, w))
        BY DEF IsData, IsGuard, OnChannel
    <2> HIDE DEF W
    <2>2. CASE nt[x] = id
        BY <1>1, <2>1, <2>2 DEF HoldsWindows
    <2>3. CASE nt[x] = -id
        BY <1>1, <2>1, <2>3 DEF HoldsWindows
    <2> QED
        BY <2>2, <2>3
<1>3. \E x \in Cell : x[1] \in LinksOf(path) /\ nt[x] \in {id, -id}
    <2>1. k \in Nat /\ k <= Len(segs)
        BY DEF Placed
    <2>2. PICK w : w \in W
        BY <2>1 DEF LastWindows
    <2> HIDE DEF W
    <2>3. WellPlaced(w)
        BY <1>1, <2>2 DEF HoldsWindows
    <2>4. PICK t : t \in DataSlots(w)
        BY <2>3 DEF WellPlaced
    <2>5. FirstOf(path) \in LinksOf(path) /\ FirstOf(path) \in Link
        BY FirstLink DEF IsPath
    <2>6. w.curr_band \in Band /\ w.core_num \in Core /\ t \in Slot(w.curr_band)
        BY <2>3, <2>4 DEF WellPlaced, WindowType, DataSlots
    <2>7. PICK x : x = <<FirstOf(path), w.curr_band, w.core_num, t>>
        OBVIOUS
    <2>8. x \in Cell
        BY <2>5, <2>6, <2>7, TupleIsCell
    <2>9. IsData(x, path, w)
        BY <2>4, <2>5, <2>7 DEF IsData, OnChannel
    <2>10. nt[x] = id
        BY <1>1, <2>2, <2>8, <2>9 DEF HoldsWindows
    <2> QED
        BY <2>5, <2>7, <2>8, <2>10
<1> QED
    BY <1>2, <1>3 DEF Lit

\* A step connects the request that was routed, disconnects the one that leaves, or leaves the
\* active requests and what is known of them as they are.
Connects ==
    /\ pc = "returned" /\ was_routed /\ segments # <<>>
    /\ UNCHANGED net
    /\ req_id \notin Active
    /\ Active' = Active \union {req_id}
    /\ reqs_status_dict'[req_id].path = path_list
    /\ \A q \in Active : reqs_status_dict'[q] = reqs_status_dict[q]

Disconnects(r) ==
    /\ r \in Active
    /\ Active' = Active \ {r}
    /\ reqs_status_dict' = reqs_status_dict

Keeps == Active' = Active /\ \A q \in Active : reqs_status_dict'[q] = reqs_status_dict[q]

\* A step of the simulation adds one request to reqs_status_dict, removes one, or leaves
\* it alone: Engine.handle_arrival and handle_release have no other effect on it.
LEMMA ServiceSteps ==
    ASSUME OwnsInv, [Next]_vars
    PROVE  Connects \/ (\E r \in ReqId : Disconnects(r)) \/ Keeps
<1>1. CASE ControllerStep \/ HandleArrival \/ CountBlocked \/ Finish \/ UNCHANGED vars
    <2>1. UNCHANGED <<served, departed, reqs_status_dict>>
        BY <1>1 DEF ControllerStep, HandleArrival, CountBlocked, Finish, engineVars, vars
    <2> QED
        BY <2>1 DEF Keeps, Active
<1>2. CASE CountRouted
    <2>1. /\ pc = "returned" /\ was_routed
          /\ UNCHANGED <<net, departed>>
        BY <1>2 DEF CountRouted
    <2>2. req_id \notin served /\ req_id \notin departed
        BY <2>1 DEF OwnsInv, HandlesNew, Handling
    <2>3. CASE CanCount
        <3>1. /\ reqs_status_dict' = Put(reqs_status_dict, req_id,
                                         [path |-> path_list, segments |-> segments])
              /\ served' = served \union {req_id} /\ segments # <<>>
            BY <1>2, <2>3 DEF CountRouted, CanCount
        <3>2. Active' = Active \union {req_id} /\ req_id \notin Active
            BY <2>1, <2>2, <3>1 DEF Active
        <3>3. reqs_status_dict'[req_id].path = path_list
            BY <3>1 DEF Put
        <3>4. \A q \in Active : reqs_status_dict'[q] = reqs_status_dict[q]
            BY <2>2, <3>1 DEF OwnsInv, Active, Put
        <3> QED
            BY <2>1, <3>1, <3>2, <3>3, <3>4 DEF Connects
    <2>4. CASE ~CanCount
        <3>1. UNCHANGED <<served, departed, reqs_status_dict>>
            BY <1>2, <2>4 DEF CountRouted
        <3> QED
            BY <3>1 DEF Keeps, Active
    <2> QED
        BY <2>3, <2>4
<1>3. CASE \E r \in ReqId : HandleRelease(r)
    <2>1. PICK r \in ReqId : HandleRelease(r)
        BY <1>3
    <2>2. /\ departed' = departed \union {r} /\ r \notin departed
          /\ UNCHANGED <<served, reqs_status_dict>>
        BY <2>1 DEF HandleRelease
    <2>3. CASE r \in served
        BY <2>2, <2>3 DEF Disconnects, Active
    <2>4. CASE r \notin served
        BY <2>2, <2>4 DEF Keeps, Active
    <2> QED
        BY <2>3, <2>4
<1>4. CASE NextIteration
    <2>1. IterationOver /\ served' = {}
        BY <1>4 DEF NextIteration
    <2> QED
        BY <2>1, OverIsEmpty DEF Keeps, Active
<1> QED
    BY <1>1, <1>2, <1>3, <1>4 DEF Next, Ended

\* The request that is connected holds its slots as a lightpath.
LEMMA RoutedIsLit ==
    ASSUME OwnsInv, PlacedInv, OnRoute, Routed, segments # <<>>
    PROVE  Lit(net, req_id, path_list)
<1>1. Placed(net, req_id, path_list, segments, num_trans) /\ num_trans >= 1
    BY DEF PlacedInv, HasPlaced
<1>2. IsPath(path_list) /\ path_list \in RoutePaths
    BY RouteIsPath DEF OnRoute, Routed, Handling
<1> QED
    BY <1>1, <1>2, SdnTypes, PlacedIsLit

\* An active request is lit after any step: the one that became active placed its
\* segments, the others kept their slots.
LEMMA LitNext ==
    ASSUME ServiceInv, [Next]_vars, NEW r \in Active'
    PROVE  Lit(net', r, reqs_status_dict'[r].path)
<1>1. CASE r \in Active
    <2>1. reqs_status_dict'[r].path = reqs_status_dict[r].path
        BY <1>1, ServiceSteps DEF ServiceInv, Connects, Disconnects, Keeps
    <2>2. \A x \in Cell : net[x] \in {r, -r} \/ net'[x] \in {r, -r} => net'[x] = net[x]
        BY <1>1, ActiveSlotsKept DEF ServiceInv
    <2>3. Lit(net, r, reqs_status_dict[r].path)
        BY <1>1 DEF ServiceInv
    <2> QED
        BY <2>1, <2>2, <2>3, LitKept
<1>2. CASE r \notin Active
    <2>1. Connects /\ r = req_id
        BY <1>2, ServiceSteps DEF ServiceInv, Connects, Disconnects, Keeps
    <2>2. Lit(net, req_id, path_list)
        BY <2>1, RoutedIsLit DEF ServiceInv, Connects, Routed
    <2> QED
        BY <2>1, <2>2 DEF Connects
<1> QED
    BY <1>1, <1>2

\* Nothing is placed or active when the engine starts.
LEMMA ServiceInit == Init => ServiceInv
<1> SUFFICES ASSUME Init PROVE ServiceInv
    OBVIOUS
<1>1. /\ pc = "idle" /\ served = {} /\ DOMAIN reqs_dict = {}
    BY DEF Init, InitController
<1>2. PlacedInv /\ OnRoute /\ Active = {}
    BY <1>1 DEF PlacedInv, OnRoute, Routed, Active
<1> QED
    BY <1>2, OwnsInit DEF ServiceInv

\* The invariant is inductive.
LEMMA ServiceNext ==
    ASSUME ServiceInv, [Next]_vars
    PROVE  ServiceInv'
<1>1. OwnsInv' /\ PlacedInv' /\ OnRoute'
    BY OwnsNext, PlacedNext, RouteNext DEF ServiceInv
<1> QED
    BY <1>1, LitNext DEF ServiceInv

\* Every reachable state has what the handler placed and what is active lit.
LEMMA ServiceAlways == Spec => []ServiceInv
BY ServiceInit, ServiceNext, PTL DEF Spec

-----------------------------------------------------------------------------
(* The refinement mapping.                                                     *)

\* The channels a request holds on a path, and its lightpath.
HeldChannels(nt, id, path) ==
    {<<x[2], x[3], x[4]>> : x \in {y \in Cell : nt[y] \in {id, -id} /\ y[1] \in LinksOf(path)}}

LightpathOf(nt, id, path) == [path |-> path, channels |-> HeldChannels(nt, id, path)]

\* The lightpaths seen from outside, on the path reqs_status_dict keeps: an active request
\* is never the one in the handler.
LEMMA LightpathsAre ==
    OwnsInv => Lightpaths = [r \in ReqId |->
                               IF r \in Active THEN LightpathOf(net, r, reqs_status_dict[r].path)
                                               ELSE None]
<1> SUFFICES ASSUME OwnsInv
             PROVE  \A r \in Active : /\ PathOf(r) = reqs_status_dict[r].path
                                      /\ ChannelsOf(r) = HeldChannels(net, r, reqs_status_dict[r].path)
    BY DEF Lightpaths, LightpathOf
<1>1. ASSUME NEW r \in Active
      PROVE  PathOf(r) = reqs_status_dict[r].path
    BY <1>1, HandlerRequest DEF PathOf, InProgress, Handling
<1> QED
    BY <1>1 DEF ChannelsOf, HeldChannels

\* A lightpath has its route, and at least one channel.
LEMMA LightpathType ==
    ASSUME NEW nt, NEW id, NEW path, Lit(nt, id, path)
    PROVE  /\ path \in RoutePaths
           /\ HeldChannels(nt, id, path) \in (SUBSET Channels) \ {{}}
           /\ LightpathOf(nt, id, path) # None
<1>1. HeldChannels(nt, id, path) \subseteq Channels
    BY DEF HeldChannels, Channels
<1>2. HeldChannels(nt, id, path) # {}
    BY DEF Lit, HeldChannels
<1>3. LightpathOf(nt, id, path) \in [path : RoutePaths, channels : SUBSET Channels]
    BY <1>1 DEF Lit, LightpathOf
<1> QED
    BY <1>1, <1>2, <1>3, DarkAssumption DEF Lit

\* Slots that are not changed are the same lightpath.
LEMMA SameLightpath ==
    ASSUME NEW nt1, NEW nt2, NEW id, NEW path,
           \A x \in Cell : nt1[x] \in {id, -id} \/ nt2[x] \in {id, -id} => nt2[x] = nt1[x]
    PROVE  LightpathOf(nt2, id, path) = LightpathOf(nt1, id, path)
<1>1. {y \in Cell : nt2[y] \in {id, -id} /\ y[1] \in LinksOf(path)} =
          {y \in Cell : nt1[y] \in {id, -id} /\ y[1] \in LinksOf(path)}
    OBVIOUS
<1> QED
    BY <1>1 DEF LightpathOf, HeldChannels

\* No two lightpaths with a link in common have a channel in common.
LEMMA LightpathsApart ==
    ASSUME NEW nt, NEW q \in Nat \ {0}, NEW r \in Nat \ {0}, q # r,
           NEW p1, NEW p2, Lit(nt, q, p1), Lit(nt, r, p2), Overlap(p1, p2)
    PROVE  HeldChannels(nt, q, p1) \intersect HeldChannels(nt, r, p2) = {}
<1> SUFFICES ASSUME NEW v \in HeldChannels(nt, q, p1), v \in HeldChannels(nt, r, p2)
             PROVE  FALSE
    OBVIOUS
<1>1. PICK x \in Cell : v = <<x[2], x[3], x[4]>> /\ nt[x] \in {q, -q} /\ x[1] \in LinksOf(p1)
    BY DEF HeldChannels
<1>2. PICK y \in Cell : v = <<y[2], y[3], y[4]>> /\ nt[y] \in {r, -r} /\ y[1] \in LinksOf(p2)
    BY DEF HeldChannels
<1>3. x[2] = y[2] /\ x[3] = y[3] /\ x[4] = y[4]
    BY <1>1, <1>2
<1>4. PICK l : l \in LinksOf(p1) /\ l \in LinksOf(p2)
    BY DEF Overlap
<1>5. l \in Link
    BY <1>4, ControllerAssumption DEF Lit, RoutePaths, IsPath
<1>6. PICK z : z = <<l, x[2], x[3], x[4]>>
    OBVIOUS
<1>7. z \in Cell /\ z[1] = l /\ z[2] = x[2] /\ z[3] = x[3] /\ z[4] = x[4]
    BY <1>5, <1>6, CellIsTuple, TupleIsCell
<1>8. nt[z] \in {q, -q}
    BY <1>1, <1>4, <1>7 DEF Lit, SameOnAllLinks
<1>9. nt[z] \in {r, -r}
    BY <1>2, <1>3, <1>4, <1>7 DEF Lit, SameOnAllLinks
<1> QED
    BY <1>8, <1>9

\* Lightpaths before and after a step, for the requests that are active.
LEMMA LightpathsMove ==
    ASSUME ServiceInv, [Next]_vars
    PROVE  /\ Lightpaths = [r \in ReqId |->
                 IF r \in Active THEN LightpathOf(net, r, reqs_status_dict[r].path) ELSE None]
           /\ Lightpaths' = [r \in ReqId |->
                 IF r \in Active' THEN LightpathOf(net', r, reqs_status_dict'[r].path) ELSE None]
           /\ \A r \in Active \intersect Active' : Lightpaths'[r] = Lightpaths[r]
<1>1. Lightpaths = [r \in ReqId |->
                 IF r \in Active THEN LightpathOf(net, r, reqs_status_dict[r].path) ELSE None]
    BY LightpathsAre DEF ServiceInv
<1>2. (OwnsInv => Lightpaths = [r \in ReqId |->
                 IF r \in Active THEN LightpathOf(net, r, reqs_status_dict[r].path) ELSE None])'
    BY LightpathsAre, PTL
<1>3. Lightpaths' = [r \in ReqId |->
                 IF r \in Active' THEN LightpathOf(net', r, reqs_status_dict'[r].path) ELSE None]
    BY <1>2, OwnsNext DEF ServiceInv
<1>4. ASSUME NEW r \in Active \intersect Active'
      PROVE  Lightpaths'[r] = Lightpaths[r]
    <2>1. reqs_status_dict'[r].path = reqs_status_dict[r].path
        BY ServiceSteps DEF ServiceInv, Connects, Disconnects, Keeps
    <2>2. LightpathOf(net', r, reqs_status_dict[r].path) = LightpathOf(net, r, reqs_status_dict[r].path)
        BY ActiveSlotsKept, SameLightpath DEF ServiceInv
    <2>3. r \in ReqId
        BY DEF ServiceInv, OwnsInv, Typed, TypeOK, EngineTypeOK, Active, ReqId
    <2> QED
        BY <1>1, <1>3, <2>1, <2>2, <2>3
<1> QED
    BY <1>1, <1>3, <1>4

\* A step that leaves reqs_status_dict alone changes no lightpath.
LEMMA KeepsStep ==
    ASSUME ServiceInv, [Next]_vars, Keeps
    PROVE  Lightpaths' = Lightpaths
<1>1. \A r \in ReqId : Lightpaths'[r] = Lightpaths[r]
    BY LightpathsMove DEF Keeps
<1>2. PICK f, g : f = Lightpaths /\ g = Lightpaths'
    OBVIOUS
<1>3. f = [r \in ReqId |-> f[r]] /\ g = [r \in ReqId |-> g[r]]
    BY <1>2, LightpathsMove
<1> QED
    BY <1>1, <1>2, <1>3

\* handle_release of an active request is the service's Disconnect.
LEMMA DisconnectStep ==
    ASSUME ServiceInv, [Next]_vars, NEW r \in ReqId, Disconnects(r)
    PROVE  Service!Disconnect(r)
<1>1. Lightpaths[r] # None
    <2>1. Lightpaths[r] = LightpathOf(net, r, reqs_status_dict[r].path)
        BY LightpathsMove DEF Disconnects
    <2> QED
        BY <2>1, LightpathType DEF ServiceInv, Disconnects
<1>2. PICK f, g : f = Lightpaths /\ g = Lightpaths'
    OBVIOUS
<1>3. f = [q \in ReqId |-> f[q]] /\ g = [q \in ReqId |-> g[q]]
    BY <1>2, LightpathsMove
<1>4. \A q \in ReqId : g[q] = IF q = r THEN None ELSE f[q]
    BY <1>2, LightpathsMove DEF Disconnects
<1>5. g = [f EXCEPT ![r] = None]
    BY <1>3, <1>4
<1> QED
    BY <1>1, <1>2, <1>5 DEF Service!Disconnect

\* update_arrival_params of a routed request is the service's Connect: the channels it
\* held while it was handled are lit on each link of its path, and no lightpath with
\* a link in common has any of them.
LEMMA ConnectStep ==
    ASSUME ServiceInv, [Next]_vars, Connects
    PROVE  req_id \in ReqId /\ Service!Connect(req_id)
<1> DEFINE C == HeldChannels(net, req_id, path_list)
<1>1. req_id \in ReqId /\ req_id \in Nat \ {0}
    <2>1. req_id \in 1..arrived /\ arrived \in 0..MaxReqs /\ req_id \in Nat \ {0}
        BY HandlerRequest DEF ServiceInv, Connects, Handling, OwnsInv, Typed, TypeOK, EngineTypeOK
    <2> QED
        BY <2>1, ControllerAssumption DEF ReqId
<1>2. Lit(net, req_id, path_list)
    BY RoutedIsLit DEF ServiceInv, Connects, Routed
<1>3. path_list \in RoutePaths /\ C \in (SUBSET Channels) \ {{}}
    BY <1>2, LightpathType
<1>4. Lightpaths[req_id] = None
    BY <1>1, LightpathsMove DEF Connects
<1>5. Lightpaths' = [Lightpaths EXCEPT ![req_id] = [path |-> path_list, channels |-> C]]
    <2>1. PICK f, g : f = Lightpaths /\ g = Lightpaths'
        OBVIOUS
    <2>2. f = [q \in ReqId |-> f[q]] /\ g = [q \in ReqId |-> g[q]]
        BY <2>1, LightpathsMove
    <2>3. PICK light : light = [path |-> path_list, channels |-> C]
        OBVIOUS
    <2>4. g[req_id] = light
        <3>1. Lightpaths'[req_id] = LightpathOf(net', req_id, reqs_status_dict'[req_id].path)
            BY <1>1, LightpathsMove DEF Connects
        <3> QED
            BY <2>1, <2>3, <3>1 DEF Connects, LightpathOf
    <2>5. \A q \in ReqId \ {req_id} : g[q] = f[q]
        BY <2>1, LightpathsMove DEF Connects
    <2>6. g = [f EXCEPT ![req_id] = light]
        BY <1>1, <2>2, <2>4, <2>5
    <2> QED
        BY <2>1, <2>3, <2>6
<1>6. ASSUME NEW q \in ReqId \ {req_id}, Lightpaths[q] # None,
             Overlap(Lightpaths[q].path, path_list)
      PROVE  Lightpaths[q].channels \intersect C = {}
    <2>1. q \in Active /\ Lightpaths[q] = LightpathOf(net, q, reqs_status_dict[q].path)
        BY <1>6, LightpathsMove
    <2>2. PICK p : p = reqs_status_dict[q].path
        OBVIOUS
    <2>3. Lightpaths[q].path = p /\ Lightpaths[q].channels = HeldChannels(net, q, p)
        BY <2>1, <2>2 DEF LightpathOf
    <2>4. Lit(net, q, p)
        BY <2>1, <2>2 DEF ServiceInv
    <2>5. q \in Nat \ {0} /\ q # req_id
        BY ControllerAssumption DEF ReqId
    <2>6. Overlap(p, path_list)
        BY <1>6, <2>3
    <2> QED
        BY <1>1, <1>2, <2>3, <2>4, <2>5, <2>6, LightpathsApart
<1> HIDE DEF C
<1> QED
    BY <1>1, <1>3, <1>4, <1>5, <1>6 DEF Service!Connect

\* The engine implements LightpathService.
THEOREM EngineImplementsService == Spec => ImplementsService
<1>1. Init => Service!Init
    <2> SUFFICES ASSUME Init PROVE Service!Init
        OBVIOUS
    <2>1. Active = {}
        BY DEF Init, Active
    <2> QED
        BY <2>1 DEF Lightpaths, Service!Init
<1>2. ServiceInv /\ [Next]_vars => [Service!Next]_Lightpaths
    <2> SUFFICES ASSUME ServiceInv, [Next]_vars
                 PROVE  [Service!Next]_Lightpaths
        OBVIOUS
    <2>1. Connects \/ (\E r \in ReqId : Disconnects(r)) \/ Keeps
        BY ServiceSteps DEF ServiceInv
    <2>2. CASE Connects
        BY <2>2, ConnectStep DEF Service!Next
    <2>3. CASE \E r \in ReqId : Disconnects(r)
        BY <2>3, DisconnectStep DEF Service!Next
    <2>4. CASE Keeps
        BY <2>4, KeepsStep
    <2> QED
        BY <2>1, <2>2, <2>3, <2>4
<1> QED
    BY <1>1, <1>2, ServiceAlways, PTL DEF Spec, ImplementsService, Service!Spec

-----------------------------------------------------------------------------
(* The slots of a plan.                                                        *)

\* The cells of one window, as products.
LEMMA WindowCells ==
    ASSUME NEW path, LinksOf(path) \subseteq Link, NEW w \in WindowType, NEW S, S \subseteq Slot(w.curr_band)
    PROVE  LinksOf(path) \X {w.curr_band} \X {w.core_num} \X S =
              {x \in Cell : OnChannel(x, path, w) /\ x[4] \in S}
<1> DEFINE P == LinksOf(path) \X {w.curr_band} \X {w.core_num} \X S
<1>1. w.curr_band \in Band /\ w.core_num \in Core
    BY DEF WindowType
<1>2. ASSUME NEW x \in P
      PROVE  x \in Cell /\ OnChannel(x, path, w) /\ x[4] \in S
    <2>1. PICK l \in LinksOf(path), t \in S : x = <<l, w.curr_band, w.core_num, t>>
        OBVIOUS
    <2>2. l \in Link /\ t \in Slot(w.curr_band)
        OBVIOUS
    <2> QED
        BY <1>1, <2>1, <2>2, TupleIsCell DEF OnChannel
<1>3. ASSUME NEW x \in Cell, OnChannel(x, path, w), x[4] \in S
      PROVE  x \in P
    <2>1. x = <<x[1], x[2], x[3], x[4]>>
        BY CellIsTuple
    <2>2. x[1] \in LinksOf(path) /\ x[2] \in {w.curr_band} /\ x[3] \in {w.core_num}
        BY <1>3 DEF OnChannel
    <2> QED
        BY <1>3, <2>1, <2>2
<1> QED
    BY <1>2, <1>3

\* The cells of a plan, by the places of its windows.
LEMMA PlanCells ==
    ASSUME NEW path, LinksOf(path) \subseteq Link, NEW segs,
           \A i \in DOMAIN segs : WellPlaced(segs[i].window)
    PROVE  /\ DataCells(path, segs) = {x \in Cell : \E i \in DOMAIN segs : IsData(x, path, segs[i].window)}
           /\ GuardCells(path, segs) = {x \in Cell : \E i \in DOMAIN segs : IsGuard(x, path, segs[i].window)}
<1> DEFINE data(i) == LinksOf(path) \X {segs[i].window.curr_band} \X {segs[i].window.core_num}
                         \X DataSlots(segs[i].window)
           guard(i) == LinksOf(path) \X {segs[i].window.curr_band} \X {segs[i].window.core_num}
                         \X GuardSlotsOf(segs[i].window)
<1>1. ASSUME NEW i \in DOMAIN segs
      PROVE  /\ data(i) = {x \in Cell : IsData(x, path, segs[i].window)}
             /\ guard(i) = {x \in Cell : IsGuard(x, path, segs[i].window)}
    <2>1. PICK w : w = segs[i].window
        OBVIOUS
    <2>2. w \in WindowType /\ GuardSlotsOf(w) \subseteq Slot(w.curr_band)
        BY <2>1 DEF WellPlaced
    <2>3. DataSlots(w) \subseteq Slot(w.curr_band)
        BY DEF DataSlots
    <2>4. LinksOf(path) \X {w.curr_band} \X {w.core_num} \X DataSlots(w) =
              {x \in Cell : IsData(x, path, w)}
        BY <2>2, <2>3, WindowCells DEF IsData
    <2>5. LinksOf(path) \X {w.curr_band} \X {w.core_num} \X GuardSlotsOf(w) =
              {x \in Cell : IsGuard(x, path, w)}
        BY <2>2, WindowCells DEF IsGuard
    <2> QED
        BY <2>1, <2>4, <2>5
<1>2. DataCells(path, segs) = UNION {data(i) : i \in DOMAIN segs}
    BY DEF DataCells
<1>3. GuardCells(path, segs) = UNION {guard(i) : i \in DOMAIN segs}
    BY DEF GuardCells
<1> HIDE DEF data, guard
<1> QED
    BY <1>1, <1>2, <1>3

\* The windows of a sequence of segments, and of its last ones.
AreWindows(W, segs) == \A w : w \in W <=> \E i \in DOMAIN segs : segs[i].window = w

\* The last k segments, as a sequence.
LEMMA LastSegments ==
    ASSUME NEW segs \in Seq(SegmentType), NEW k \in Nat, k <= Len(segs), NEW plan,
           plan = SubSeq(segs, Len(segs) - k + 1, Len(segs))
    PROVE  /\ plan \in Seq(SegmentType) /\ Len(plan) = k
           /\ \A i \in 1..Len(plan) : plan[i] = segs[Len(segs) - k + 1 + i - 1]
<1> DEFINE n == Len(segs)
           from == n - k + 1
<1>1. n \in Nat /\ from \in Int /\ from >= 1 /\ from <= n + 1
    OBVIOUS
<1>2. SubSeq(segs, from, n) \in Seq(SegmentType)
    BY <1>1
<1>3. Len(SubSeq(segs, from, n)) = IF from <= n THEN n - from + 1 ELSE 0
    BY <1>1
<1>4. \A i \in 1..(n - from + 1) : SubSeq(segs, from, n)[i] = segs[from + i - 1]
    BY <1>1
<1> QED
    BY <1>1, <1>2, <1>3, <1>4

\* The windows of the last k segments are those of the sequence they form.
LEMMA SuffixWindows ==
    ASSUME NEW segs \in Seq(SegmentType), NEW k \in Nat, k <= Len(segs), NEW plan,
           plan = SubSeq(segs, Len(segs) - k + 1, Len(segs))
    PROVE  AreWindows(LastWindows(segs, k), plan)
<1> DEFINE n == Len(segs)
           from == n - k + 1
<1>1. n \in Nat /\ from \in Int /\ from >= 1 /\ from <= n + 1
    OBVIOUS
<1>2. /\ plan \in Seq(SegmentType) /\ Len(plan) = k
      /\ \A i \in 1..Len(plan) : plan[i] = segs[from + i - 1]
    BY LastSegments
<1>3. LastWindows(segs, k) = {segs[i].window : i \in from..n}
    BY DEF LastWindows
<1>4. DOMAIN plan = 1..k
    BY <1>2
<1>5. ASSUME NEW w \in LastWindows(segs, k)
      PROVE  \E i \in DOMAIN plan : plan[i].window = w
    <2>1. PICK i \in from..n : w = segs[i].window
        BY <1>3
    <2>2. i - from + 1 \in 1..k /\ from + (i - from + 1) - 1 = i
        BY <1>1
    <2>3. plan[i - from + 1] = segs[i]
        BY <1>2, <2>2
    <2> QED
        BY <1>4, <2>1, <2>2, <2>3
<1>6. ASSUME NEW i \in DOMAIN plan
      PROVE  plan[i].window \in LastWindows(segs, k)
    <2>1. i \in 1..k /\ from + i - 1 \in from..n
        BY <1>1, <1>4
    <2>2. plan[i] = segs[from + i - 1]
        BY <1>2, <2>1
    <2> QED
        BY <1>3, <2>1, <2>2
<1> QED
    BY <1>5, <1>6 DEF AreWindows

\* What the handler has placed when it returns is the plan.
LEMMA HeldAsPlanned == ServiceInv => HoldsItsPlan
<1> SUFFICES ASSUME ServiceInv, Routed
             PROVE  /\ {x \in Cell : net[x] = req_id}  = DataCells(path_list, Plan)
                    /\ {x \in Cell : net[x] = -req_id} = GuardCells(path_list, Plan)
                    /\ path_list \in {Routes[reqs_dict[req_id].endpoints][i] :
                                         i \in DOMAIN Routes[reqs_dict[req_id].endpoints]}
    BY DEF HoldsItsPlan
<1>1. path_list \in {Routes[reqs_dict[req_id].endpoints][i] :
                        i \in DOMAIN Routes[reqs_dict[req_id].endpoints]}
    BY DEF ServiceInv, OnRoute, IsRouteOf, HandlerRoutes
<1>2. LinksOf(path_list) \subseteq Link
    BY RouteIsPath DEF ServiceInv, OnRoute, Routed, Handling, IsPath
<1>3. PICK W : /\ HoldsWindows(net, req_id, path_list, W)
               /\ AreWindows(W, Plan)
    <2>1. num_trans \in Nat /\ num_trans >= 1 /\ segments \in Seq(SegmentType) /\ Len(segments) \in Nat
        BY SdnTypes DEF ServiceInv, PlacedInv
    <2>2. CASE HasPlaced(num_trans)
        <3>1. /\ num_trans <= Len(segments)
              /\ HoldsWindows(net, req_id, path_list, LastWindows(segments, num_trans))
            BY <2>2 DEF HasPlaced, Placed
        <3>2. Plan = SubSeq(segments, Len(segments) - num_trans + 1, Len(segments))
            BY <2>1, <3>1 DEF Plan
        <3>3. PICK segs, k, plan : segs = segments /\ k = num_trans /\ plan = Plan
            OBVIOUS
        <3>4. /\ segs \in Seq(SegmentType) /\ k \in Nat /\ k <= Len(segs)
              /\ plan = SubSeq(segs, Len(segs) - k + 1, Len(segs))
            BY <2>1, <3>1, <3>2, <3>3
        <3>5. AreWindows(LastWindows(segs, k), plan)
            BY <3>4, SuffixWindows
        <3> QED
            BY <3>1, <3>3, <3>5
    <2>3. CASE segments = <<>> /\ HoldsNone
        <3>1. Len(segments) = 0
            BY <2>3
        <3>2. Plan = segments
            BY <2>1, <3>1 DEF Plan
        <3>3. DOMAIN Plan = {}
            BY <2>3, <3>2
        <3>4. HoldsWindows(net, req_id, path_list, {})
            BY <2>3 DEF HoldsWindows, HoldsNone
        <3> QED
            BY <3>3, <3>4 DEF AreWindows
    <2> QED
        BY <2>2, <2>3 DEF ServiceInv, PlacedInv
<1>4. PICK plan : plan = Plan
    OBVIOUS
<1>5. \A i \in DOMAIN plan : WellPlaced(plan[i].window)
    BY <1>3, <1>4 DEF HoldsWindows, AreWindows
<1>6. ASSUME NEW x \in Cell
      PROVE  /\ net[x] = req_id <=> \E i \in DOMAIN plan : IsData(x, path_list, plan[i].window)
             /\ net[x] = -req_id <=> \E i \in DOMAIN plan : IsGuard(x, path_list, plan[i].window)
    BY <1>3, <1>4 DEF HoldsWindows, AreWindows
<1>7. /\ DataCells(path_list, plan) =
             {x \in Cell : \E i \in DOMAIN plan : IsData(x, path_list, plan[i].window)}
      /\ GuardCells(path_list, plan) =
             {x \in Cell : \E i \in DOMAIN plan : IsGuard(x, path_list, plan[i].window)}
    BY <1>2, <1>5, PlanCells
<1> QED
    BY <1>1, <1>4, <1>6, <1>7

\* For every topology, band plan, format table, prediction and allocation method, a routed
\* request holds exactly the slots of its plan, whatever attempts of handle_event failed
\* and were rolled back before.
THEOREM EngineHoldsItsPlan == Spec => []HoldsItsPlan
BY HeldAsPlanned, ServiceAlways, PTL

-----------------------------------------------------------------------------
(* What get_spectrum answers, and when the run goes on without an exception.   *)

\* A search of get_spectrum is free: it has the window that is assigned.  It is not, and no
\* SNR check refused a window: no format found one.
LEMMA OutcomeIs ==
    ASSUME NEW path, NEW mods, NEW slots, NEW found \in Outcomes(path, mods, slots)
    PROVE  /\ found.is_free =>
                 \E i \in DOMAIN mods : /\ mods[i] # NoMod
                                        /\ IsFree(net, Search(path, slots[mods[i]]))
                                        /\ found.window = Assigned(net, Search(path, slots[mods[i]]))
           /\ ~found.is_free /\ ~SnrChecked =>
                 \A i \in DOMAIN mods : mods[i] # NoMod => ~IsFree(net, Search(path, slots[mods[i]]))
<1> DEFINE props(i) == Search(path, slots[mods[i]])
           free == {i \in DOMAIN mods : mods[i] # NoMod /\ IsFree(net, props(i))}
           reason(i) == IF SnrChecked THEN "None"
                        ELSE IF \E j \in DOMAIN mods : j < i /\ mods[j] = NoMod
                        THEN "distance" ELSE block_reason
           answer(i) == [is_free |-> TRUE, window |-> Assigned(net, props(i)),
                         block_reason |-> reason(i)]
           taken == {i \in free : SnrChecked \/ \A j \in free : i <= j}
           refused == IF SnrChecked \/ free = {} THEN {[is_free |-> FALSE]} ELSE {}
<1>1. Outcomes(path, mods, slots) = {answer(i) : i \in taken} \union refused
    BY DEF Outcomes
<1>2. \A r \in refused : ~r.is_free
    OBVIOUS
<1>3. \A i : answer(i).is_free /\ answer(i).window = Assigned(net, props(i))
    OBVIOUS
<1>4. \A i \in taken : i \in free
    OBVIOUS
<1>5. ~SnrChecked /\ refused # {} => free = {}
    OBVIOUS
<1>6. \A i : i \in free <=> i \in DOMAIN mods /\ mods[i] # NoMod /\ IsFree(net, props(i))
    <2> HIDE DEF props
    <2> QED
        OBVIOUS
<1> HIDE DEF answer, taken, refused, free
<1>7. ASSUME found.is_free
      PROVE  \E i \in DOMAIN mods : /\ mods[i] # NoMod /\ IsFree(net, props(i))
                                    /\ found.window = Assigned(net, props(i))
    <2>1. PICK i \in taken : found = answer(i)
        BY <1>1, <1>2, <1>7
    <2>2. i \in DOMAIN mods /\ mods[i] # NoMod /\ IsFree(net, props(i))
        BY <1>4, <1>6
    <2>3. found.window = Assigned(net, props(i))
        BY <1>3, <2>1
    <2> HIDE DEF props
    <2> QED
        BY <2>2, <2>3
<1>8. ASSUME ~found.is_free, ~SnrChecked
      PROVE  free = {}
    <2>1. found \in refused
        BY <1>1, <1>3, <1>8
    <2> QED
        BY <1>5, <1>8, <2>1
<1>9. ASSUME ~found.is_free, ~SnrChecked, NEW i \in DOMAIN mods, mods[i] # NoMod
      PROVE  ~IsFree(net, props(i))
    <2> HIDE DEF props
    <2> QED
        BY <1>6, <1>8, <1>9
<1> QED
    BY <1>7, <1>9

\* The properties _allocate_slicing and _handle_spectrum hand to the search are legal ones
\* and force no core, band or slot.
LEMMA SearchProps ==
    ASSUME SearchAssumption, NEW path, IsPath(path), NEW n \in Nat \ {0}
    PROVE  /\ PropsOk(Search(path, n))
           /\ Search(path, n).path_list = path /\ Search(path, n).slots_needed = n
           /\ Search(path, n).forced_core = None /\ Search(path, n).forced_index = None
BY DEF Search, PropsOk

\* A window get_spectrum returns passes the checks of allocate.
LEMMA OutcomeIsWritten ==
    ASSUME SearchFits, NEW path, IsPath(path), NEW mods, NEW slots \in [Mod -> Nat \ {0}],
           \A i \in DOMAIN mods : mods[i] \in Mod \union {NoMod},
           NEW found \in Outcomes(path, mods, slots), found.is_free
    PROVE  CanAllocate(net, path, found.window)
<1>1. PICK i \in DOMAIN mods : /\ mods[i] # NoMod
                               /\ IsFree(net, Search(path, slots[mods[i]]))
                               /\ found.window = Assigned(net, Search(path, slots[mods[i]]))
    BY OutcomeIs
<1>2. PICK n \in Nat \ {0} : n = slots[mods[i]]
    BY <1>1
<1>3. PICK props : props = Search(path, n)
    OBVIOUS
<1>4. PropsOk(props) /\ props.path_list = path /\ props.slots_needed = n
    BY <1>3, SearchProps, SearchAssumption
<1>5. IsFree(net, props) /\ found.window = Assigned(net, props)
    BY <1>1, <1>2, <1>3
<1>6. Fits(net, path, n, found.window)
    BY <1>4, <1>5, AssignedFits, SpectrumAssumption, SearchAssumption
<1>7. GuardSlots <= 1
    BY DEF SearchFits
<1> QED
    BY <1>6, <1>7, FitsIsWritten, SpectrumAssumption

\* A whole request asks for a number of slots the format table has.
LEMMA WholeSlots ==
    ASSUME bandwidth \in Bandwidth
    PROVE  SlotsOfWhole \in [Mod -> Nat \ {0}]
<1>1. \A m \in Mod : ModPerBw[bandwidth][m].slots_needed \in Nat \ {0}
    BY RoutingAssumption DEF RoutingAssumption
<1>2. CASE FixedGrid
    BY <1>2 DEF SlotsOfWhole
<1>3. CASE ~FixedGrid
    BY <1>1, <1>3 DEF SlotsOfWhole
<1> QED
    BY <1>2, <1>3

\* So does a segment.
LEMMA SliceSlots ==
    ASSUME frame.slice \in Bandwidth
    PROVE  SlotsOfSlice \in [Mod -> Nat \ {0}]
<1>1. \A m \in Mod : ModPerBw[frame.slice][m].slots_needed \in Nat \ {0}
    BY RoutingAssumption DEF RoutingAssumption
<1> QED
    BY <1>1 DEF SlotsOfSlice

\* Requests of this bandwidth may be sliced: in the second round, or as a model predicts.
MayBeSliced(bw) == (MaxSegments > 1 /\ bw # 25) \/ \E f \in Predictions : f > 1

\* The tables have a slice for every request that may be sliced, on every route.
SlicingHasChoice ==
    \A bw \in Bandwidth, path \in RoutePaths : MayBeSliced(bw) =>
        \E b \in Bandwidth : b < bw /\ GetPathMod(ModPerBw[b], FindPathLen(path)) # NoMod

\* The loop over the slice bandwidths has one to try before it may end, so it does not
\* take the flag of an earlier request for its own.
ChoiceInv ==
    /\ pc # "lightpaths"
    /\ pc \in {"path", "slices", "segments"} =>
          (frame.segment_slicing \/ frame.force_slicing => MayBeSliced(bandwidth))
    /\ pc = "slices" => ~was_routed \/ frame.slices # {}

\* Nothing raised an exception, and what a routed request has can be counted.
CountsInv ==
    /\ pc # "crashed"
    /\ \A i \in DOMAIN segments : segments[i].bandwidth \in Bandwidth
    /\ Routed => segments # <<>>

\* A sliced attempt has a slice to try.
LEMMA ChoiceTrySliced ==
    ASSUME ~DynamicLps, SlicingHasChoice, OwnsInv, OnRoute, ChoiceInv, TrySliced
    PROVE  ChoiceInv'
<1>1. /\ pc = "path" /\ AtPath /\ UNCHANGED <<req_id, bandwidth, was_routed>>
      /\ bandwidth \in Bandwidth /\ pc' = "slices"
    BY DEF TrySliced, AtPath, OwnsInv, Typed, HandlerTyped
<1>2. Path \in RoutePaths
    BY <1>1, PathIsRoute, RouteIsPath DEF Handling
<1>3. PICK forced \in Predictions :
         /\ Slicing(forced)
         /\ frame' = [frame EXCEPT
                        !.force_slicing = TRUE,
                        !.forced_segments = forced,
                        !.slices = {b \in Bandwidth :
                                      /\ ~DynamicLps
                                      /\ b < bandwidth
                                      /\ GetPathMod(ModPerBw[b], FindPathLen(Path)) # NoMod},
                        !.remaining = IF DynamicLps THEN bandwidth ELSE 0]
    BY DEF TrySliced
<1>4. MayBeSliced(bandwidth)
    BY <1>1, <1>3 DEF ChoiceInv, Slicing, MayBeSliced
<1>5. PICK b \in Bandwidth : b < bandwidth /\ GetPathMod(ModPerBw[b], FindPathLen(Path)) # NoMod
    BY <1>1, <1>2, <1>4 DEF SlicingHasChoice
<1>6. frame'.slices = {c \in Bandwidth : /\ ~DynamicLps
                                         /\ c < bandwidth
                                         /\ GetPathMod(ModPerBw[c], FindPathLen(Path)) # NoMod}
    BY <1>3, SdnTypes DEF Frame
<1>7. frame'.slices # {}
    BY <1>5, <1>6
<1> QED
    BY <1>1, <1>4, <1>7 DEF ChoiceInv

\* The other steps of the handler.
LEMMA ChoiceOther ==
    ASSUME OwnsInv, ChoiceInv,
           \/ TryWhole
           \/ \E b \in frame.slices : TooManySegments(b) \/ SkipSlice(b) \/ StartSlice(b)
           \/ SlicesExhausted \/ SliceRound \/ Block \/ PlaceSegment
    PROVE  ChoiceInv'
<1>1. frame \in Frame
    BY SdnTypes
<1>2. CASE TryWhole
    <2>1. \/ pc = "path" /\ pc' = "path" /\ frame' = NextPath /\ bandwidth' = bandwidth
          \/ pc' \in {"returned", "crashed"}
        BY <1>2 DEF TryWhole, AtPath
    <2> QED
        BY <1>1, <2>1 DEF ChoiceInv, NextPath, Frame
<1>3. CASE \E b \in frame.slices : TooManySegments(b) \/ SkipSlice(b) \/ StartSlice(b)
    <2>1. /\ pc = "slices" /\ UNCHANGED bandwidth
          /\ \/ was_routed' = FALSE /\ pc' \in {"path", "slices"}
             \/ pc' = "segments"
        BY <1>3 DEF TooManySegments, SkipSlice, StartSlice
    <2>2. frame'.segment_slicing = frame.segment_slicing /\ frame'.force_slicing = frame.force_slicing
        BY <1>1, <1>3 DEF TooManySegments, SkipSlice, StartSlice, NextPath, Frame
    <2> QED
        BY <2>1, <2>2 DEF ChoiceInv
<1>4. CASE SlicesExhausted
    BY <1>1, <1>4 DEF SlicesExhausted, ChoiceInv, NextPath, Frame
<1>5. CASE SliceRound
    <2>1. pc = "path" /\ pc' = "path" /\ MayBeSliced(bandwidth) /\ UNCHANGED bandwidth
        BY <1>5 DEF SliceRound, SliceRoundDue, MayBeSliced
    <2> QED
        BY <2>1 DEF ChoiceInv
<1>6. CASE Block
    BY <1>6 DEF Block, ChoiceInv
<1>7. CASE PlaceSegment
    <2>1. /\ pc = "segments" /\ UNCHANGED bandwidth
          /\ \/ /\ pc' = "slices" /\ was_routed' = FALSE
                /\ frame' = [frame EXCEPT !.slice = 0, !.remaining = 0]
             \/ pc' = "segments" /\ frame' = [frame EXCEPT !.remaining = @ - 1]
             \/ pc' \in {"returned", "crashed"}
        BY <1>7 DEF PlaceSegment
    <2> QED
        BY <1>1, <2>1 DEF ChoiceInv, Frame
<1> QED
    BY <1>2, <1>3, <1>4, <1>5, <1>6, <1>7

\* The rounds of the handler keep a bandwidth to try for as long as they may slice.
LEMMA ChoiceNext ==
    ASSUME ~DynamicLps, SlicingHasChoice, ServiceInv, ChoiceInv, [Next]_vars
    PROVE  ChoiceInv'
<1>1. CASE ControllerStep
    <2>1. ~PlaceLightpath
        BY DEF PlaceLightpath, ChoiceInv
    <2> QED
        BY <1>1, <2>1, ChoiceTrySliced, ChoiceOther DEF ControllerStep, HandleEvent, ServiceInv
<1>2. CASE HandleArrival
    <2>1. pc' = "path" /\ ~frame'.segment_slicing /\ ~frame'.force_slicing
        BY <1>2 DEF HandleArrival, StartArrival, NoFrame
    <2> QED
        BY <2>1 DEF ChoiceInv
<1>3. CASE CountBlocked \/ CountRouted \/ (\E r \in ReqId : HandleRelease(r)) \/ NextIteration \/ Finish
    <2>1. pc' \in {"idle", "crashed", "done"}
        BY <1>3 DEF CountBlocked, CountRouted, HandleRelease, ReleaseEvent, NextIteration, IterationOver,
                    Finish, sdnVars
    <2> QED
        BY <2>1 DEF ChoiceInv
<1>4. CASE UNCHANGED vars
    BY <1>4 DEF vars, sdnVars, ChoiceInv
<1> QED
    BY <1>1, <1>2, <1>3, <1>4 DEF Next, Ended

\* Without dynamic lightpaths the handler never slices without a bandwidth to slice by.
LEMMA ChoiceAlways ==
    ASSUME ~DynamicLps, SlicingHasChoice
    PROVE  Spec => []ChoiceInv
<1>1. Init => ChoiceInv
    BY DEF Init, InitController, ChoiceInv
<1>2. ServiceInv /\ ChoiceInv /\ [Next]_vars => ChoiceInv'
    BY ChoiceNext
<1> QED
    BY <1>1, <1>2, ServiceAlways, PTL DEF Spec

\* One more segment: update_arrival_params has a bandwidth to count.
LEMMA AppendSegment ==
    ASSUME NEW segs \in Seq(SegmentType), NEW bw \in Bandwidth, NEW w \in WindowType,
           \A i \in DOMAIN segs : segs[i].bandwidth \in Bandwidth
    PROVE  /\ \A i \in DOMAIN Append(segs, Segment(bw, w)) : Append(segs, Segment(bw, w))[i].bandwidth \in Bandwidth
           /\ Append(segs, Segment(bw, w)) # <<>>
<1>1. Segment(bw, w) \in SegmentType /\ Segment(bw, w).bandwidth = bw
    BY RoutingAssumption DEF Segment, SegmentType
<1>2. PICK s : s = Segment(bw, w)
    OBVIOUS
<1>3. /\ DOMAIN Append(segs, s) = 1..(Len(segs) + 1)
      /\ \A i \in 1..Len(segs) : Append(segs, s)[i] = segs[i]
      /\ Append(segs, s)[Len(segs) + 1] = s
      /\ Len(segs) \in Nat /\ DOMAIN segs = 1..Len(segs)
    BY <1>1, <1>2
<1>4. Append(segs, s) # <<>>
    BY <1>3
<1> QED
    BY <1>1, <1>2, <1>3, <1>4

\* A whole request that is free is allocated.
LEMMA CountsTryWhole ==
    ASSUME SearchFits, OwnsInv, OnRoute, CountsInv, TryWhole
    PROVE  CountsInv'
<1>1. /\ pc = "path" /\ AtPath /\ UNCHANGED <<req_id, bandwidth>> /\ bandwidth \in Bandwidth
    BY DEF TryWhole, AtPath, OwnsInv, Typed, HandlerTyped
<1>2. PICK found \in Outcomes(Path, ModFormats(Path, bandwidth), SlotsOfWhole) :
         \/ frame' = NextPath /\ UNCHANGED <<segments, pc>>
         \/ /\ found.is_free
            /\ segments' = Append(segments, Segment(bandwidth, found.window))
            /\ IF CanAllocate(net, Path, found.window) THEN pc' = "returned" ELSE pc' = "crashed"
    BY DEF TryWhole
<1>3. CASE frame' = NextPath /\ UNCHANGED <<segments, pc>>
    BY <1>1, <1>3 DEF CountsInv, Routed
<1>4. CASE /\ found.is_free
           /\ segments' = Append(segments, Segment(bandwidth, found.window))
           /\ IF CanAllocate(net, Path, found.window) THEN pc' = "returned" ELSE pc' = "crashed"
    <2>1. \A i \in DOMAIN ModFormats(Path, bandwidth) : ModFormats(Path, bandwidth)[i] \in Mod \union {NoMod}
        BY <1>1, ModFormatsType, RoutingAssumption
    <2>2. CanAllocate(net, Path, found.window)
        BY <1>1, <1>4, <2>1, PathIsRoute, WholeSlots, OutcomeIsWritten
    <2>3. found.window \in WindowType
        BY <1>1, <1>4, SdnTypes, WholeOutcome, SpectrumAssumption, SearchAssumption, RoutingAssumption
    <2>4. /\ \A i \in DOMAIN segments' : segments'[i].bandwidth \in Bandwidth
          /\ segments' # <<>>
        BY <1>1, <1>4, <2>3, SdnTypes, AppendSegment DEF CountsInv
    <2> QED
        BY <1>4, <2>2, <2>4 DEF CountsInv
<1> QED
    BY <1>2, <1>3, <1>4

\* A segment that is free is allocated.
LEMMA CountsPlaceSegment ==
    ASSUME SearchFits, OwnsInv, OnRoute, CountsInv, PlaceSegment
    PROVE  CountsInv'
<1> DEFINE mods == <<GetPathMod(ModPerBw[frame.slice], FindPathLen(path_list))>>
<1>1. /\ pc = "segments" /\ UNCHANGED <<req_id, path_list, bandwidth>> /\ frame.slice \in Bandwidth
    BY DEF PlaceSegment, OwnsInv, Typed, HandlerTyped
<1>2. PICK found \in Outcomes(path_list, mods, SlotsOfSlice) :
         \/ /\ pc' = "slices" /\ was_routed' = FALSE /\ segments' = segments
            /\ frame' = [frame EXCEPT !.slice = 0, !.remaining = 0]
         \/ /\ found.is_free
            /\ segments' = Append(segments, Segment(frame.slice, found.window))
            /\ IF CanAllocate(net, path_list, found.window)
               THEN pc' = IF LastSegment THEN "returned" ELSE "segments"
               ELSE pc' = "crashed"
            /\ frame' = IF LastSegment THEN NoFrame ELSE [frame EXCEPT !.remaining = @ - 1]
    BY DEF PlaceSegment
<1>3. CASE /\ pc' = "slices" /\ was_routed' = FALSE /\ segments' = segments
           /\ frame' = [frame EXCEPT !.slice = 0, !.remaining = 0]
    BY <1>1, <1>3 DEF CountsInv, Routed
<1>4. CASE /\ found.is_free
           /\ segments' = Append(segments, Segment(frame.slice, found.window))
           /\ IF CanAllocate(net, path_list, found.window)
              THEN pc' = IF LastSegment THEN "returned" ELSE "segments"
              ELSE pc' = "crashed"
           /\ frame' = IF LastSegment THEN NoFrame ELSE [frame EXCEPT !.remaining = @ - 1]
    <2>1. \A i \in DOMAIN mods : mods[i] \in Mod \union {NoMod}
        BY GetPathModType
    <2>2. IsPath(path_list)
        BY <1>1, RouteIsPath DEF OnRoute, Handling
    <2> HIDE DEF mods
    <2>3. CanAllocate(net, path_list, found.window)
        BY <1>1, <1>4, <2>1, <2>2, SliceSlots, OutcomeIsWritten
    <2>4. found.window \in WindowType
        BY <1>1, <1>4, SdnTypes, SliceOutcome, SpectrumAssumption, SearchAssumption, RoutingAssumption DEF mods
    <2>5. /\ \A i \in DOMAIN segments' : segments'[i].bandwidth \in Bandwidth
          /\ segments' # <<>>
        BY <1>1, <1>4, <2>4, SdnTypes, AppendSegment DEF CountsInv
    <2>6. pc' \in {"returned", "segments"}
        BY <1>4, <2>3
    <2> QED
        BY <2>5, <2>6 DEF CountsInv
<1> QED
    BY <1>2, <1>3, <1>4

\* The other steps of the handler place nothing, and return only what was routed.
LEMMA CountsOther ==
    ASSUME ~DynamicLps, ChoiceInv, CountsInv,
           \/ TrySliced
           \/ \E b \in frame.slices : TooManySegments(b) \/ SkipSlice(b) \/ StartSlice(b)
           \/ SlicesExhausted \/ SliceRound \/ Block
    PROVE  CountsInv'
<1>1. CASE SlicesExhausted
    <2>1. ~was_routed
        BY <1>1 DEF SlicesExhausted, ChoiceInv
    <2> QED
        BY <1>1, <2>1 DEF SlicesExhausted, CountsInv, Routed
<1>2. CASE ~SlicesExhausted
    BY <1>2 DEF TrySliced, TooManySegments, SkipSlice, StartSlice, SliceRound, Block, CountsInv, Routed
<1> QED
    BY <1>1, <1>2

\* All steps of the run.
LEMMA CountsNext ==
    ASSUME SearchFits, ~DynamicLps, ServiceInv, ChoiceInv, CountsInv, [Next]_vars
    PROVE  CountsInv'
<1>1. CASE ControllerStep
    <2>1. ~PlaceLightpath
        BY DEF PlaceLightpath, ChoiceInv
    <2> QED
        BY <1>1, <2>1, CountsTryWhole, CountsOther, CountsPlaceSegment
           DEF ControllerStep, HandleEvent, ServiceInv
<1>2. CASE HandleArrival
    <2>1. pc' = "path" /\ segments' = <<>>
        BY <1>2 DEF HandleArrival, StartArrival
    <2> QED
        BY <2>1 DEF CountsInv, Routed
<1>3. CASE CountBlocked
    BY <1>3 DEF CountBlocked, CountsInv, Routed
<1>4. CASE CountRouted
    <2>1. CanCount
        BY <1>4 DEF CountRouted, CountsInv, Routed, CanCount
    <2> QED
        BY <1>4, <2>1 DEF CountRouted, CountsInv, Routed
<1>5. CASE \E r \in ReqId : HandleRelease(r)
    <2>1. pc' = "idle" /\ (segments' = segments \/ segments' = <<>>)
        BY <1>5 DEF HandleRelease, ReleaseEvent
    <2> QED
        BY <2>1 DEF CountsInv, Routed
<1>6. CASE NextIteration \/ Finish
    <2>1. pc' \in {"idle", "done"} /\ segments' = segments
        BY <1>6 DEF NextIteration, IterationOver, Finish, sdnVars
    <2> QED
        BY <2>1 DEF CountsInv, Routed
<1>7. CASE UNCHANGED vars
    BY <1>7 DEF vars, sdnVars, CountsInv, Routed
<1> QED
    BY <1>1, <1>2, <1>3, <1>4, <1>5, <1>6, <1>7 DEF Next, Ended

\* No run of the simulation ends in an exception: what a search finds, allocate accepts,
\* and a routed request has a segment to count. The hypotheses keep off the divergences of
\* the README: the guard band the searches forget (SearchFits), dynamic slicing without a
\* format, and a retry that slices a request there is no smaller bandwidth for.
THEOREM EngineNeverCrashes ==
    ASSUME SearchFits, ~DynamicLps, SlicingHasChoice
    PROVE  Spec => []NeverCrashes
<1>1. Init => CountsInv
    BY DEF Init, InitController, CountsInv, Routed
<1>2. ServiceInv /\ ChoiceInv /\ CountsInv /\ [Next]_vars => CountsInv'
    BY CountsNext
<1>3. CountsInv => NeverCrashes
    BY DEF CountsInv, NeverCrashes
<1>4. Spec => []ChoiceInv
    BY ChoiceAlways
<1> QED
    BY <1>1, <1>2, <1>3, <1>4, ServiceAlways, PTL DEF Spec

-----------------------------------------------------------------------------
(* No request is blocked that had room.                                        *)

\* The spectrum as the request in the handler found it.
Without(nt, id) == [x \in Cell |-> IF nt[x] \in {id, -id} THEN 0 ELSE nt[x]]

NoRoomFor(nt, path, bw) ==
    LET mods == ModFormats(path, bw)
    IN  \A j \in DOMAIN mods : mods[j] # NoMod =>
            ~HasRoom(nt, path, IF FixedGrid THEN 1 ELSE ModPerBw[bw][mods[j]].slots_needed)

\* The routes that were tried unsliced.
Tried == {i \in DOMAIN frame.routes : frame.segment_slicing \/ i < frame.path_index}

\* The outcome of the searches depends on the spectrum alone.
NothingElse == ~SnrChecked /\ \A f \in Predictions : f <= 1

RoomInv ==
    /\ pc \in {"path", "slices", "segments", "lightpaths"} =>
          /\ frame.path_index >= 1
          /\ frame.force_slicing => frame.segment_slicing
          /\ \A i \in Tried : NoRoomFor(Without(net, req_id), frame.routes[i], bandwidth)
    /\ pc \in {"slices", "segments", "lightpaths"} => frame.segment_slicing
    /\ Blocked => \A i \in DOMAIN HandlerRoutes : NoRoomFor(net, HandlerRoutes[i], bandwidth)

\* What a handler changes is not seen in the spectrum without its request.
LEMMA WithoutKept ==
    ASSUME TouchesOnly(req_id)
    PROVE  Without(net', req_id) = Without(net, req_id)
<1>1. ASSUME NEW x \in Cell
      PROVE  (IF net'[x] \in {req_id, -req_id} THEN 0 ELSE net'[x]) =
             (IF net[x] \in {req_id, -req_id} THEN 0 ELSE net[x])
    BY DEF TouchesOnly
<1> QED
    BY <1>1 DEF Without

\* Between attempts the request holds nothing, and the spectrum is as it found it.
LEMMA WithoutIsNet ==
    ASSUME OwnsInv, pc \in {"path", "slices"}
    PROVE  Without(net, req_id) = net
<1>1. HoldsNone /\ net \in [Cell -> Int]
    BY NoneAtPath, SdnTypes
<1> QED
    BY <1>1 DEF HoldsNone, Without

\* A search that misses nothing and finds nothing has no room.
LEMMA NotFreeNoRoom ==
    ASSUME SearchFits, SearchIsComplete, NEW path, IsPath(path), NEW n \in Nat \ {0},
           ~IsFree(net, Search(path, n))
    PROVE  ~HasRoom(net, path, n)
<1> SUFFICES ASSUME NEW c \in Core, NEW b \in Band, NEW s \in Slot(b), Open(net, path, n, c, b, s)
             PROVE  FALSE
    BY DEF HasRoom
<1>1. PICK props : props = Search(path, n)
    OBVIOUS
<1>2. /\ PropsOk(props) /\ props.path_list = path /\ props.slots_needed = n
      /\ props.forced_core = None /\ props.forced_index = None
    BY <1>1, SearchProps, SearchAssumption
<1>3. Permitted(props, c, s)
    BY <1>2 DEF Permitted
<1>4. IsFree(net, props)
    BY <1>2, <1>3, OpenIsNotMissed, SpectrumAssumption, SearchAssumption
<1> QED
    BY <1>1, <1>4

\* get_spectrum refused a whole request: no format had room.
LEMMA RefusedNoRoom ==
    ASSUME SearchFits, SearchIsComplete, ~SnrChecked, bandwidth \in Bandwidth, NEW path, IsPath(path),
           NEW found \in Outcomes(path, ModFormats(path, bandwidth), SlotsOfWhole), ~found.is_free
    PROVE  NoRoomFor(net, path, bandwidth)
<1>1. PICK mods : mods = ModFormats(path, bandwidth)
    OBVIOUS
<1>2. \A i \in DOMAIN mods : mods[i] # NoMod => ~IsFree(net, Search(path, SlotsOfWhole[mods[i]]))
    BY <1>1, OutcomeIs
<1>3. \A i \in DOMAIN mods : mods[i] \in Mod \union {NoMod}
    BY <1>1, ModFormatsType, RoutingAssumption
<1>4. ASSUME NEW j \in DOMAIN mods, mods[j] # NoMod
      PROVE  ~HasRoom(net, path, IF FixedGrid THEN 1 ELSE ModPerBw[bandwidth][mods[j]].slots_needed)
    <2>1. mods[j] \in Mod
        BY <1>3, <1>4
    <2>2. PICK n \in Nat \ {0} : n = SlotsOfWhole[mods[j]]
        BY <2>1, WholeSlots
    <2>3. n = IF FixedGrid THEN 1 ELSE ModPerBw[bandwidth][mods[j]].slots_needed
        BY <2>1, <2>2 DEF SlotsOfWhole
    <2>4. ~IsFree(net, Search(path, n))
        BY <1>2, <1>4, <2>2
    <2>5. ~HasRoom(net, path, n)
        BY <2>4, NotFreeNoRoom
    <2> QED
        BY <2>3, <2>5
<1> QED
    BY <1>1, <1>4 DEF NoRoomFor

\* A step of the handler that tries no more routes keeps what is known of those tried.
LEMMA RoomKept ==
    ASSUME RoomInv, TouchesOnly(req_id), UNCHANGED <<req_id, bandwidth>>,
           {pc, pc'} \subseteq {"path", "slices", "segments", "lightpaths"},
           frame'.routes = frame.routes, frame'.path_index >= 1,
           frame'.segment_slicing = frame.segment_slicing,
           frame'.force_slicing => frame.segment_slicing,
           pc' # "path" => frame.segment_slicing,
           frame.segment_slicing \/ frame'.path_index = frame.path_index
    PROVE  RoomInv'
<1>1. Without(net', req_id) = Without(net, req_id)
    BY WithoutKept
<1>2. Tried' = Tried
    BY DEF Tried
<1>3. \A i \in Tried' : NoRoomFor(Without(net', req_id'), frame'.routes[i], bandwidth')
    BY <1>1, <1>2 DEF RoomInv
<1> QED
    BY <1>3 DEF RoomInv, Blocked

\* A route that is tried unsliced and refused has no room.
LEMMA RoomTryWhole ==
    ASSUME SearchFits, SearchIsComplete, NothingElse, OwnsInv, OnRoute, RoomInv, UNCHANGED engineVars, TryWhole
    PROVE  RoomInv'
<1>1. /\ pc = "path" /\ AtPath /\ UNCHANGED <<req_id, bandwidth>> /\ bandwidth \in Bandwidth
      /\ ~frame.segment_slicing /\ ~frame.force_slicing
    BY DEF TryWhole, AtPath, Slicing, OwnsInv, Typed, HandlerTyped
<1>2. PICK found \in Outcomes(Path, ModFormats(Path, bandwidth), SlotsOfWhole) :
         \/ ~found.is_free /\ frame' = NextPath /\ UNCHANGED <<net, pc>>
         \/ was_routed' = TRUE /\ pc' \in {"returned", "crashed"}
    BY DEF TryWhole
<1>3. CASE ~found.is_free /\ frame' = NextPath /\ UNCHANGED <<net, pc>>
    <2>1. /\ frame'.routes = frame.routes /\ frame'.path_index = frame.path_index + 1
          /\ frame'.segment_slicing = frame.segment_slicing
          /\ frame'.force_slicing = frame.force_slicing /\ frame.path_index \in Nat
        BY <1>3, SdnTypes DEF NextPath, Frame
    <2>2. NoRoomFor(net, Path, bandwidth)
        BY <1>1, <1>3, PathIsRoute, RefusedNoRoom DEF NothingElse
    <2>3. Without(net, req_id) = net
        BY <1>1, WithoutIsNet
    <2>4. ASSUME NEW i \in Tried'
          PROVE  NoRoomFor(Without(net', req_id'), frame'.routes[i], bandwidth')
        <3>1. i \in DOMAIN frame.routes /\ i < frame.path_index + 1
            BY <1>1, <2>1 DEF Tried
        <3>2. i \in Nat
            <4>1. frame.routes \in Seq(Seq(Node))
                BY SdnTypes DEF Frame
            <4> QED
                BY <3>1, <4>1
        <3>3. CASE i = frame.path_index
            BY <1>1, <1>3, <2>1, <2>2, <2>3, <3>3 DEF Path
        <3>4. CASE i < frame.path_index
            BY <1>1, <1>3, <2>1, <3>1, <3>4 DEF RoomInv, Tried
        <3> QED
            BY <2>1, <3>1, <3>2, <3>3, <3>4
    <2> QED
        BY <1>1, <1>3, <2>1, <2>4 DEF RoomInv, Blocked
<1>4. CASE was_routed' = TRUE /\ pc' \in {"returned", "crashed"}
    BY <1>4 DEF RoomInv, Blocked
<1> QED
    BY <1>2, <1>3, <1>4

\* The sliced attempts come after every route has been tried whole.
LEMMA RoomTrySliced ==
    ASSUME NothingElse, OwnsInv, RoomInv, TouchesOnly(req_id), TrySliced
    PROVE  RoomInv'
<1>1. /\ pc = "path" /\ UNCHANGED <<req_id, bandwidth>>
      /\ pc' \in {"slices", "lightpaths", "crashed"}
      /\ frame.segment_slicing
    <2>1. PICK forced \in Predictions : Slicing(forced)
        BY DEF TrySliced
    <2>2. ~(forced > 1)
        BY ControllerAssumption DEF NothingElse
    <2>3. pc = "path" /\ frame.segment_slicing
        BY <2>1, <2>2 DEF TrySliced, AtPath, Slicing, RoomInv
    <2> QED
        BY <2>3 DEF TrySliced
<1>2. /\ frame'.routes = frame.routes /\ frame'.path_index = frame.path_index
      /\ frame'.segment_slicing = frame.segment_slicing
    BY SdnTypes DEF TrySliced, Frame
<1>3. CASE pc' = "crashed"
    BY <1>3 DEF RoomInv, Blocked
<1>4. CASE pc' # "crashed"
    BY <1>1, <1>2, <1>4, RoomKept DEF RoomInv
<1> QED
    BY <1>3, <1>4

\* Choosing a bandwidth to slice by tries no route whole.
LEMMA RoomSlices ==
    ASSUME OwnsInv, RoomInv, TouchesOnly(req_id), NEW b \in frame.slices,
           TooManySegments(b) \/ SkipSlice(b) \/ StartSlice(b)
    PROVE  RoomInv'
<1>1. /\ pc = "slices" /\ UNCHANGED <<req_id, bandwidth>> /\ pc' \in {"path", "slices", "segments"}
      /\ frame.segment_slicing
    BY DEF TooManySegments, SkipSlice, StartSlice, RoomInv
<1>2. /\ frame'.routes = frame.routes /\ frame'.segment_slicing = frame.segment_slicing
      /\ frame'.path_index \in {frame.path_index, frame.path_index + 1} /\ frame.path_index \in Nat
      /\ frame.path_index >= 1
    BY <1>1, SdnTypes DEF TooManySegments, SkipSlice, StartSlice, NextPath, Frame, RoomInv
<1>3. frame'.path_index >= 1
    BY <1>2
<1> QED
    BY <1>1, <1>2, <1>3, RoomKept

\* Running out of bandwidths passes to the next route, with segment_slicing on.
LEMMA RoomExhausted ==
    ASSUME OwnsInv, RoomInv, TouchesOnly(req_id), SlicesExhausted
    PROVE  RoomInv'
<1>1. CASE was_routed
    BY <1>1 DEF SlicesExhausted, RoomInv, Blocked
<1>2. CASE ~was_routed
    <2>1. /\ pc = "slices" /\ UNCHANGED <<req_id, bandwidth>> /\ pc' = "path" /\ frame' = NextPath
          /\ frame.segment_slicing
        BY <1>2 DEF SlicesExhausted, RoomInv
    <2>2. /\ frame'.routes = frame.routes /\ frame'.segment_slicing = frame.segment_slicing
          /\ frame'.path_index = frame.path_index + 1 /\ frame.path_index \in Nat
          /\ frame.path_index >= 1
        BY <2>1, SdnTypes DEF NextPath, Frame, RoomInv
    <2>3. frame'.path_index >= 1
        BY <2>2
    <2> QED
        BY <2>1, <2>2, <2>3, RoomKept
<1> QED
    BY <1>1, <1>2

\* Past the last route all of them were tried.
LEMMA AllTried ==
    ASSUME OwnsInv, RoomInv, pc = "path", frame.path_index \notin DOMAIN frame.routes
    PROVE  Tried = DOMAIN frame.routes
<1>1. frame.routes \in Seq(Seq(Node)) /\ frame.path_index \in Nat /\ frame.path_index >= 1
    BY SdnTypes DEF Frame, RoomInv
<1>2. DOMAIN frame.routes = 1..Len(frame.routes) /\ Len(frame.routes) \in Nat
    BY <1>1
<1>3. frame.path_index > Len(frame.routes)
    BY <1>1, <1>2
<1>4. \A i \in DOMAIN frame.routes : i < frame.path_index
    BY <1>1, <1>2, <1>3
<1> QED
    BY <1>4 DEF Tried

\* The second round starts when every route has been tried whole.
LEMMA RoomSliceRound ==
    ASSUME OwnsInv, RoomInv, SliceRound
    PROVE  RoomInv'
<1>1. /\ pc = "path" /\ pc' = "path" /\ UNCHANGED <<net, req_id, bandwidth>>
      /\ Tried = DOMAIN frame.routes
    BY AllTried DEF SliceRound
<1>2. /\ frame'.routes = frame.routes /\ frame'.segment_slicing /\ frame'.path_index = 1
    BY SdnTypes DEF SliceRound, Frame
<1>3. \A i \in Tried' : NoRoomFor(Without(net', req_id'), frame'.routes[i], bandwidth')
    BY <1>1, <1>2 DEF RoomInv, Tried
<1> QED
    BY <1>1, <1>2, <1>3 DEF RoomInv, Blocked

\* A request is blocked when the first round has tried every route.
LEMMA RoomBlock ==
    ASSUME OwnsInv, OnRoute, RoomInv, UNCHANGED engineVars, Block
    PROVE  RoomInv'
<1>1. /\ pc = "path" /\ pc' = "returned" /\ UNCHANGED <<net, req_id, bandwidth>>
      /\ Tried = DOMAIN frame.routes
    BY AllTried DEF Block
<1>2. Without(net, req_id) = net /\ frame.routes = HandlerRoutes
    BY <1>1, WithoutIsNet DEF OnRoute
<1>3. HandlerRoutes' = HandlerRoutes
    BY <1>1 DEF HandlerRoutes, engineVars
<1>4. \A i \in DOMAIN HandlerRoutes' : NoRoomFor(net', HandlerRoutes'[i], bandwidth')
    BY <1>1, <1>2, <1>3 DEF RoomInv
<1> QED
    BY <1>1, <1>4 DEF RoomInv

\* Placing or rolling back a segment changes nothing of the spectrum without the request.
LEMMA RoomPlace ==
    ASSUME OwnsInv, RoomInv, TouchesOnly(req_id), PlaceSegment \/ PlaceLightpath
    PROVE  RoomInv'
<1>1. /\ pc \in {"segments", "lightpaths"} /\ UNCHANGED <<req_id, bandwidth>> /\ frame.segment_slicing
      /\ frame \in Frame /\ frame.path_index >= 1
    BY SdnTypes DEF PlaceSegment, PlaceLightpath, RoomInv
<1>2. \/ pc' \in {"returned", "crashed"} /\ (pc' = "returned" => was_routed')
      \/ /\ pc' \in {"path", "slices", "segments", "lightpaths"}
         /\ \/ frame' = NextPath
            \/ frame' = [frame EXCEPT !.slice = 0, !.remaining = 0]
            \/ \E left : frame' = [frame EXCEPT !.remaining = left]
    <2>1. CASE PlaceSegment
        <3>1. was_routed
            BY <2>1 DEF PlaceSegment, OwnsInv
        <3>2. CASE LastSegment
            BY <2>1, <3>1, <3>2 DEF PlaceSegment
        <3>3. CASE ~LastSegment
            BY <2>1, <3>1, <3>3 DEF PlaceSegment
        <3> QED
            BY <3>2, <3>3
    <2>2. CASE PlaceLightpath
        <3>1. PICK supported \in SnrBandwidths :
                 \/ pc' = "path" /\ frame' = NextPath
                 \/ /\ was_routed' = TRUE
                    /\ pc' \in {"crashed", "lightpaths", "returned"}
                    /\ pc' = "lightpaths" => Left(supported) > 0
                    /\ frame' = IF Left(supported) > 0 THEN [frame EXCEPT !.remaining = Left(supported)]
                                ELSE NoFrame
            BY <2>2 DEF PlaceLightpath
        <3> QED
            BY <3>1
    <2> QED
        BY <2>1, <2>2
<1>3. CASE pc' \in {"returned", "crashed"} /\ (pc' = "returned" => was_routed')
    BY <1>3 DEF RoomInv, Blocked
<1>4. CASE /\ pc' \in {"path", "slices", "segments", "lightpaths"}
           /\ \/ frame' = NextPath
              \/ frame' = [frame EXCEPT !.slice = 0, !.remaining = 0]
              \/ \E left : frame' = [frame EXCEPT !.remaining = left]
    <2>1. /\ frame'.routes = frame.routes /\ frame'.segment_slicing = frame.segment_slicing
          /\ frame'.path_index \in {frame.path_index, frame.path_index + 1} /\ frame.path_index \in Nat
        BY <1>1, <1>4 DEF NextPath, Frame
    <2>2. frame'.path_index >= 1
        BY <1>1, <2>1
    <2> QED
        BY <1>1, <1>4, <2>1, <2>2, RoomKept
<1> QED
    BY <1>2, <1>3, <1>4

\* So every step of the simulation keeps what the handler has found out about its routes.
LEMMA RoomNext ==
    ASSUME SearchFits, SearchIsComplete, NothingElse, ServiceInv, RoomInv, [Next]_vars
    PROVE  RoomInv'
<1>1. CASE ControllerStep
    <2>1. OwnsInv /\ OnRoute /\ UNCHANGED engineVars /\ HandleEvent
        BY <1>1 DEF ControllerStep, ServiceInv
    <2>2. TouchesOnly(req_id)
        BY <2>1, OwnsHandleEvent
    <2> QED
        BY <2>1, <2>2, RoomTryWhole, RoomTrySliced, RoomSlices, RoomExhausted, RoomSliceRound, RoomBlock,
           RoomPlace DEF HandleEvent
<1>2. CASE HandleArrival
    <2>1. /\ pc' = "path" /\ frame'.path_index = 1
          /\ ~frame'.segment_slicing /\ ~frame'.force_slicing
        BY <1>2 DEF HandleArrival, StartArrival, NoFrame
    <2>2. PICK sd \in DOMAIN Routes : frame'.routes = Routes[sd]
        BY <1>2 DEF HandleArrival, StartArrival, NoFrame
    <2>3. Routes[sd] \in Seq(Seq(Node))
        BY ControllerAssumption
    <2>4. \A i \in DOMAIN frame'.routes : i >= 1 /\ i \in Nat
        BY <2>2, <2>3
    <2>5. Tried' = {}
        BY <2>1, <2>4 DEF Tried
    <2> QED
        BY <2>1, <2>5 DEF RoomInv, Blocked
<1>3. CASE CountBlocked \/ CountRouted
    <2>1. pc' \in {"idle", "crashed"}
        BY <1>3 DEF CountBlocked, CountRouted
    <2> QED
        BY <2>1 DEF RoomInv, Blocked
<1>4. CASE (\E r \in ReqId : HandleRelease(r)) \/ NextIteration \/ Finish
    <2>1. pc' \in {"idle", "done"}
        BY <1>4 DEF HandleRelease, ReleaseEvent, NextIteration, IterationOver, Finish, sdnVars
    <2> QED
        BY <2>1 DEF RoomInv, Blocked
<1>5. CASE UNCHANGED vars
    BY <1>5 DEF vars, sdnVars, engineVars, RoomInv, Blocked, HandlerRoutes, Tried
<1> QED
    BY <1>1, <1>2, <1>3, <1>4, <1>5 DEF Next, Ended

\* A request is blocked only when none of its routes has room for it, for every topology,
\* band plan and format table. The hypotheses name the methods whose search sees every free
\* window, and the guard bands it takes into account.
THEOREM EngineBlocksWithoutRoom ==
    ASSUME SearchFits, SearchIsComplete
    PROVE  Spec => []BlockedOnlyWithoutRoom
<1>1. CASE NothingElse
    <2>1. Init => RoomInv
        BY DEF Init, InitController, RoomInv, Blocked
    <2>2. ServiceInv /\ RoomInv /\ [Next]_vars => RoomInv'
        BY <1>1, RoomNext
    <2>3. RoomInv => BlockedOnlyWithoutRoom
        BY DEF RoomInv, BlockedOnlyWithoutRoom, HandlerRoutes, NoRoomFor
    <2> QED
        BY <2>1, <2>2, <2>3, ServiceAlways, PTL DEF Spec
<1>2. CASE ~NothingElse
    <2>1. BlockedOnlyWithoutRoom
        BY <1>2 DEF BlockedOnlyWithoutRoom, NothingElse
    <2> QED
        BY <2>1, PTL
<1> QED
    BY <1>1, <1>2

-----------------------------------------------------------------------------
(* A deployed model is obeyed.                                                 *)

\* The segments being placed are as many as the prediction of the path says.  The flag of
\* an earlier request can only end the loop over the slices with one transponder.
PredictedInv ==
    /\ pc \in {"slices", "segments"} => frame.forced_segments \in Predictions
    /\ pc = "segments" => frame.forced_segments \in {-1, num_trans}
    /\ pc = "path" => num_trans = 1
    /\ pc = "slices" /\ was_routed => num_trans = 1
    /\ Routed /\ is_sliced /\ -1 \notin Predictions => num_trans \in Predictions

\* The attempts on a path: a whole request is not sliced, a sliced one starts from the
\* prediction of its path.
LEMMA PredictedTry ==
    ASSUME ~DynamicLps, OwnsInv, PredictedInv, TryWhole \/ TrySliced
    PROVE  PredictedInv'
<1>1. frame \in Frame
    BY SdnTypes
<1>2. CASE TryWhole
    <2>1. /\ pc = "path" /\ num_trans' = num_trans
          /\ pc' = "path" \/ (pc' \in {"returned", "crashed"} /\ ~is_sliced')
        BY <1>2 DEF TryWhole, AtPath
    <2> QED
        BY <2>1 DEF PredictedInv, Routed
<1>3. CASE TrySliced
    <2>1. /\ pc = "path" /\ pc' = "slices" /\ num_trans' = num_trans
          /\ \E forced \in Predictions : frame'.forced_segments = forced
        BY <1>1, <1>3 DEF TrySliced, AtPath, Frame
    <2> QED
        BY <2>1 DEF PredictedInv, Routed
<1> QED
    BY <1>2, <1>3

\* The loop over the slice bandwidths: a bandwidth that divides the request into another
\* number of segments is passed over.
LEMMA PredictedSlices ==
    ASSUME OwnsInv, PredictedInv, NEW b \in frame.slices,
           TooManySegments(b) \/ SkipSlice(b) \/ StartSlice(b)
    PROVE  PredictedInv'
<1>1. frame \in Frame
    BY SdnTypes
<1>2. CASE TooManySegments(b)
    BY <1>2 DEF TooManySegments, PredictedInv, Routed
<1>3. CASE SkipSlice(b)
    BY <1>1, <1>3 DEF SkipSlice, PredictedInv, Routed, Frame
<1>4. CASE StartSlice(b)
    <2>1. /\ pc = "slices" /\ pc' = "segments" /\ num_trans' = NumSegments(b)
          /\ frame'.forced_segments = frame.forced_segments
        BY <1>1, <1>4 DEF StartSlice, Frame
    <2>2. frame.forced_segments \in {-1, NumSegments(b)}
        BY <1>4 DEF StartSlice, AsPredicted
    <2> QED
        BY <2>1, <2>2 DEF PredictedInv, Routed
<1> QED
    BY <1>2, <1>3, <1>4

\* The end of that loop returns with the flag of an earlier request, if at all, when
\* nothing was tried: with one transponder, which a model may have predicted, or never.
LEMMA PredictedExhausted ==
    ASSUME 1 \in Predictions \/ ChoiceInv, PredictedInv, SlicesExhausted
    PROVE  PredictedInv'
<1>1. CASE was_routed
    <2>1. pc' = "returned" /\ num_trans' = 1 /\ 1 \in Predictions
        BY <1>1 DEF SlicesExhausted, PredictedInv, ChoiceInv
    <2> QED
        BY <2>1 DEF PredictedInv, Routed
<1>2. CASE ~was_routed
    BY <1>2 DEF SlicesExhausted, PredictedInv, Routed
<1> QED
    BY <1>1, <1>2

\* One segment after another, up to the last, or none.
LEMMA PredictedSegment ==
    ASSUME OwnsInv, PredictedInv, PlaceSegment
    PROVE  PredictedInv'
<1>1. frame \in Frame
    BY SdnTypes
<1>2. /\ pc = "segments" /\ num_trans' = num_trans
      /\ \/ pc' = "slices" /\ ~was_routed' /\ frame' = [frame EXCEPT !.slice = 0, !.remaining = 0]
         \/ pc' = "segments" /\ frame' = [frame EXCEPT !.remaining = @ - 1]
         \/ pc' \in {"returned", "crashed"}
    BY DEF PlaceSegment, LastSegment
<1>3. frame.forced_segments \in Predictions /\ frame.forced_segments \in {-1, num_trans}
    BY <1>2 DEF PredictedInv
<1>4. -1 \notin Predictions => num_trans \in Predictions
    BY <1>3
<1>5. pc' \in {"slices", "segments"} => frame'.forced_segments = frame.forced_segments
    BY <1>1, <1>2 DEF Frame
<1> QED
    BY <1>2, <1>3, <1>4, <1>5 DEF PredictedInv, Routed

\* So every step of the simulation keeps to the predictions.
LEMMA PredictedNext ==
    ASSUME ~DynamicLps, 1 \in Predictions \/ ChoiceInv, pc # "lightpaths",
           OwnsInv, PredictedInv, [Next]_vars
    PROVE  PredictedInv'
<1>1. CASE ControllerStep
    <2>1. CASE SliceRound \/ Block
        BY <2>1, SdnTypes DEF SliceRound, Block, PredictedInv, Routed
    <2>2. ~PlaceLightpath
        BY DEF PlaceLightpath
    <2> QED
        BY <1>1, <2>1, <2>2, PredictedTry, PredictedSlices, PredictedExhausted, PredictedSegment
           DEF ControllerStep, HandleEvent
<1>2. CASE HandleArrival
    BY <1>2 DEF HandleArrival, StartArrival, PredictedInv, Routed
<1>3. CASE CountBlocked \/ CountRouted \/ (\E r \in ReqId : HandleRelease(r)) \/ NextIteration \/ Finish
    <2>1. pc' \in {"idle", "crashed", "done"}
        BY <1>3 DEF CountBlocked, CountRouted, HandleRelease, ReleaseEvent, NextIteration, IterationOver,
                    Finish, sdnVars
    <2> QED
        BY <2>1 DEF PredictedInv, Routed
<1>4. CASE UNCHANGED vars
    BY <1>4 DEF vars, sdnVars, PredictedInv, Routed
<1> QED
    BY <1>1, <1>2, <1>3, <1>4 DEF Next, Ended

StaticSlicing == pc # "lightpaths"

\* Only dynamic slicing places lightpaths.
LEMMA NoLightpaths ==
    ASSUME ~DynamicLps
    PROVE  Spec => []StaticSlicing
<1>1. Init => StaticSlicing
    BY DEF Init, InitController, StaticSlicing
<1>2. StaticSlicing /\ [Next]_vars => StaticSlicing'
    <2> SUFFICES ASSUME pc # "lightpaths", [Next]_vars
                 PROVE  pc' # "lightpaths"
        BY DEF StaticSlicing
    <2>1. CASE ControllerStep
        BY <2>1 DEF ControllerStep, HandleEvent, TryWhole, TrySliced, TooManySegments, SkipSlice, StartSlice,
                    SlicesExhausted, PlaceSegment, PlaceLightpath, SliceRound, Block
    <2>2. CASE HandleArrival \/ CountBlocked \/ CountRouted \/ (\E r \in ReqId : HandleRelease(r))
               \/ NextIteration \/ Finish
        BY <2>2 DEF HandleArrival, StartArrival, CountBlocked, CountRouted, HandleRelease, ReleaseEvent,
                    NextIteration, IterationOver, Finish, sdnVars
    <2>3. CASE UNCHANGED vars
        BY <2>3 DEF vars, sdnVars
    <2> QED
        BY <2>1, <2>2, <2>3 DEF Next, Ended
<1> QED
    BY <1>1, <1>2, PTL DEF Spec

\* With a model deployed, a sliced request has a number of segments the model predicts,
\* however many routes, bandwidths and retries the handler went through. The hypotheses:
\* the predictions govern static slicing only, and the flag of an earlier request may not
\* end a loop that had no bandwidth, unless the one transponder it then counts is foreseen.
THEOREM EngineSlicesAsPredicted ==
    ASSUME ~DynamicLps, 1 \in Predictions \/ SlicingHasChoice
    PROVE  Spec => []SlicesAsPredicted
<1>1. Init => PredictedInv
    BY DEF Init, InitController, PredictedInv, Routed
<1>2. PredictedInv => SlicesAsPredicted
    BY DEF PredictedInv, SlicesAsPredicted
<1>3. CASE 1 \in Predictions
    <2>1. ServiceInv /\ StaticSlicing /\ PredictedInv /\ [Next]_vars => PredictedInv'
        BY <1>3, PredictedNext DEF ServiceInv, StaticSlicing
    <2> QED
        BY <1>1, <1>2, <2>1, ServiceAlways, NoLightpaths, PTL DEF Spec
<1>4. CASE SlicingHasChoice
    <2>1. ServiceInv /\ ChoiceInv /\ StaticSlicing /\ PredictedInv /\ [Next]_vars => PredictedInv'
        BY PredictedNext DEF ServiceInv, StaticSlicing
    <2> QED
        BY <1>1, <1>2, <1>4, <2>1, ServiceAlways, ChoiceAlways, NoLightpaths, PTL DEF Spec
<1> QED
    BY <1>3, <1>4

-----------------------------------------------------------------------------
(* What SimStats counts.                                                       *)

\* The requests of the iteration that iter_update has taken note of.
Settled == IF Handling THEN (1..arrived) \ {req_id} ELSE 1..arrived

BandwidthsOf(dict) == [r \in DOMAIN dict |-> dict[r].bandwidth]
AskedBy(dict, S) == SumFunctionOnSet(BandwidthsOf(dict), S)

\* The counters tell of the settled requests, whatever the handler is doing.
CountedInv ==
    /\ DOMAIN stats = DOMAIN NoStats
    /\ pc # "crashed" =>
          /\ Handling => reqs_dict[req_id].bandwidth = bandwidth
          /\ stats.blocked_reqs = Cardinality(Settled \ served)
          /\ stats.bit_rate_request = AskedBy(reqs_dict, Settled)
          /\ stats.bit_rate_blocked = AskedBy(reqs_dict, Settled \ served)

\* The settled requests are finitely many, drawn, and include those that were routed.
LEMMA SettledIs ==
    ASSUME OwnsInv
    PROVE  /\ IsFiniteSet(Settled) /\ IsFiniteSet(Settled \ served)
           /\ Settled \subseteq DOMAIN reqs_dict /\ served \subseteq Settled
           /\ \A r \in DOMAIN reqs_dict : BandwidthsOf(reqs_dict)[r] = reqs_dict[r].bandwidth
                                            /\ reqs_dict[r].bandwidth \in Nat
<1>1. arrived \in Nat /\ served \subseteq 1..arrived /\ DOMAIN reqs_dict = 1..arrived
    BY ControllerAssumption DEF OwnsInv, Typed, TypeOK, EngineTypeOK
<1>2. IsFiniteSet(1..arrived)
    BY <1>1, FS_Interval
<1>3. Settled \subseteq 1..arrived /\ served \subseteq Settled
    BY <1>1 DEF Settled, OwnsInv, HandlesNew
<1>4. \A r \in DOMAIN reqs_dict : reqs_dict[r].bandwidth \in Nat
    BY RoutingAssumption DEF OwnsInv, Typed, RecordsTyped
<1> QED
    BY <1>1, <1>2, <1>3, <1>4, FS_Subset DEF BandwidthsOf

\* The request in the handler joins a set of settled ones.
LEMMA CountOne ==
    ASSUME OwnsInv, Handling, NEW S, S \subseteq Settled
    PROVE  /\ Cardinality(S \union {req_id}) = Cardinality(S) + 1
           /\ AskedBy(reqs_dict, S \union {req_id}) = AskedBy(reqs_dict, S) + reqs_dict[req_id].bandwidth
<1>1. IsFiniteSet(S) /\ req_id \notin S /\ S \subseteq DOMAIN reqs_dict
    BY SettledIs, FS_Subset DEF Settled
<1>2. req_id \in DOMAIN reqs_dict
    BY HandlerRequest
<1>3. \A r \in S \union {req_id} : BandwidthsOf(reqs_dict)[r] \in Int
    BY <1>1, <1>2, SettledIs
<1>4. BandwidthsOf(reqs_dict)[req_id] = reqs_dict[req_id].bandwidth
    BY <1>2, SettledIs
<1>5. Cardinality(S \union {req_id}) = Cardinality(S) + 1
    BY <1>1, FS_AddElement
<1> QED
    BY <1>1, <1>3, <1>4, <1>5, SumAdd DEF AskedBy

\* The steps of the handler settle nothing.
LEMMA CountedHandler ==
    ASSUME OwnsInv, CountedInv, HandleEvent, UNCHANGED engineVars
    PROVE  CountedInv'
<1>1. Handling /\ Handling' /\ pc # "crashed" /\ UNCHANGED <<req_id, bandwidth>>
    BY DEF HandleEvent, TryWhole, TrySliced, AtPath, TooManySegments, SkipSlice, StartSlice, SlicesExhausted,
           PlaceSegment, PlaceLightpath, SliceRound, Block, Handling
<1>2. Settled' = Settled /\ UNCHANGED <<stats, served, reqs_dict>>
    BY <1>1 DEF Settled, engineVars
<1> QED
    BY <1>1, <1>2 DEF CountedInv

\* Nor does an arrival.
LEMMA CountedArrival ==
    ASSUME OwnsInv, OwnsInv', CountedInv, HandleArrival
    PROVE  CountedInv'
<1>1. PICK bw \in Bandwidth, sd \in DOMAIN Routes :
         /\ StartArrival(arrived + 1, sd, bw)
         /\ reqs_dict' = Put(reqs_dict, arrived + 1, [endpoints |-> sd, bandwidth |-> bw])
    BY DEF HandleArrival
<1>2. /\ pc = "idle" /\ pc' = "path" /\ req_id' = arrived + 1 /\ arrived' = arrived + 1
      /\ bandwidth' = bw /\ UNCHANGED <<stats, served>> /\ arrived \in Nat /\ DOMAIN reqs_dict = 1..arrived
    BY <1>1, ControllerAssumption
       DEF HandleArrival, StartArrival, OwnsInv, Typed, TypeOK, EngineTypeOK
<1>3. Settled = 1..arrived /\ Settled' = 1..arrived
    BY <1>2 DEF Settled, Handling
<1>4. /\ reqs_dict'[arrived + 1].bandwidth = bw
      /\ \A r \in 1..arrived : reqs_dict'[r] = reqs_dict[r]
      /\ DOMAIN reqs_dict' = 1..(arrived + 1)
    BY <1>1, <1>2 DEF Put
<1>5. \A r \in 1..arrived : BandwidthsOf(reqs_dict')[r] = BandwidthsOf(reqs_dict)[r]
    BY <1>2, <1>4 DEF BandwidthsOf
<1>6. IsFiniteSet(1..arrived) /\ IsFiniteSet((1..arrived) \ served)
    BY <1>3, SettledIs
<1>7. /\ AskedBy(reqs_dict', 1..arrived) = AskedBy(reqs_dict, 1..arrived)
      /\ AskedBy(reqs_dict', (1..arrived) \ served) = AskedBy(reqs_dict, (1..arrived) \ served)
    <2>1. ASSUME NEW S, S \subseteq 1..arrived, IsFiniteSet(S)
          PROVE  AskedBy(reqs_dict', S) = AskedBy(reqs_dict, S)
        BY <1>5, <2>1, SumSame DEF AskedBy
    <2> QED
        BY <1>6, <2>1
<1> QED
    BY <1>2, <1>3, <1>4, <1>7 DEF CountedInv

\* iter_update of a blocked request counts it and its bandwidth, once.
LEMMA CountedBlocked ==
    ASSUME OwnsInv, CountedInv, CountBlocked
    PROVE  CountedInv'
<1>1. /\ Handling /\ pc = "returned" /\ pc' = "idle" /\ UNCHANGED <<arrived, served, reqs_dict>>
      /\ stats' = [stats EXCEPT !.blocked_reqs = @ + 1,
                                !.bit_rate_blocked = @ + bandwidth,
                                !.bit_rate_request = @ + bandwidth]
    BY DEF CountBlocked, Handling
<1>2. /\ stats'.blocked_reqs = stats.blocked_reqs + 1
      /\ stats'.bit_rate_blocked = stats.bit_rate_blocked + bandwidth
      /\ stats'.bit_rate_request = stats.bit_rate_request + bandwidth
      /\ DOMAIN stats' = DOMAIN NoStats
    BY <1>1 DEF CountedInv, NoStats
<1>3. Settled' = Settled \union {req_id} /\ (Settled \ served) \union {req_id} = (Settled \ served)'
    BY <1>1, HandlerRequest DEF Settled, Handling, OwnsInv, HandlesNew
<1>4. bandwidth = reqs_dict[req_id].bandwidth
    BY <1>1 DEF CountedInv
<1>5. /\ Cardinality((Settled \ served) \union {req_id}) = Cardinality(Settled \ served) + 1
      /\ AskedBy(reqs_dict, Settled \union {req_id}) = AskedBy(reqs_dict, Settled) + bandwidth
      /\ AskedBy(reqs_dict, (Settled \ served) \union {req_id})
           = AskedBy(reqs_dict, Settled \ served) + bandwidth
    BY <1>1, <1>4, CountOne
<1>6. ~Handling'
    BY <1>1 DEF Handling
<1>7. AskedBy(reqs_dict, Settled)' = AskedBy(reqs_dict, Settled')
      /\ AskedBy(reqs_dict, Settled \ served)' = AskedBy(reqs_dict, (Settled \ served)')
    BY <1>1
<1> QED
    BY <1>1, <1>2, <1>3, <1>5, <1>6, <1>7 DEF CountedInv

\* iter_update of a routed request counts its bandwidth as asked for, and no blocking.
LEMMA CountedRouted ==
    ASSUME OwnsInv, CountedInv, CountRouted
    PROVE  CountedInv'
<1>1. /\ Handling /\ pc = "returned" /\ UNCHANGED <<arrived, reqs_dict>>
      /\ pc' = "crashed" \/ (pc' = "idle" /\ served' = served \union {req_id})
      /\ stats' = [stats EXCEPT !.bit_rate_request = @ + bandwidth,
                                !.total_trans = @ + num_trans,
                                !.mods_used = @ + Len(segments)]
    BY DEF CountRouted, Handling
<1>2. /\ stats'.blocked_reqs = stats.blocked_reqs
      /\ stats'.bit_rate_blocked = stats.bit_rate_blocked
      /\ stats'.bit_rate_request = stats.bit_rate_request + bandwidth
      /\ DOMAIN stats' = DOMAIN NoStats
    BY <1>1 DEF CountedInv, NoStats
<1> SUFFICES ASSUME pc' # "crashed"
             PROVE  CountedInv'
    BY <1>2 DEF CountedInv
<1>3. Settled' = Settled \union {req_id} /\ (Settled \ served)' = Settled \ served
    BY <1>1, HandlerRequest DEF Settled, Handling, OwnsInv, HandlesNew
<1>4. bandwidth = reqs_dict[req_id].bandwidth
    BY <1>1 DEF CountedInv
<1>5. AskedBy(reqs_dict, Settled \union {req_id}) = AskedBy(reqs_dict, Settled) + bandwidth
    BY <1>1, <1>4, CountOne
<1>6. ~Handling'
    BY <1>1 DEF Handling
<1>7. AskedBy(reqs_dict, Settled)' = AskedBy(reqs_dict, Settled')
      /\ AskedBy(reqs_dict, Settled \ served)' = AskedBy(reqs_dict, (Settled \ served)')
    BY <1>1
<1> QED
    BY <1>1, <1>2, <1>3, <1>5, <1>6, <1>7 DEF CountedInv

\* A new iteration counts from zero.
LEMMA CountedNone ==
    ASSUME NEW S, S = {}, NEW dict
    PROVE  Cardinality(S) = 0 /\ AskedBy(dict, S) = 0
BY FS_EmptySet, SumStep DEF AskedBy

\* All steps of the run.
LEMMA CountedNext ==
    ASSUME OwnsInv, OwnsInv', CountedInv, [Next]_vars
    PROVE  CountedInv'
<1>1. CASE CountRouted
    BY <1>1, CountedRouted
<1>2. CASE \E r \in ReqId : HandleRelease(r)
    <2>1. pc = "idle" /\ pc' = "idle" /\ UNCHANGED <<arrived, stats, served, reqs_dict>>
        BY <1>2 DEF HandleRelease, ReleaseEvent
    <2> QED
        BY <2>1 DEF CountedInv, Settled, Handling
<1>3. CASE NextIteration
    <2>1. /\ pc = "idle" /\ pc' = "idle" /\ arrived' = 0 /\ served' = {} /\ stats' = NoStats
        BY <1>3 DEF NextIteration, IterationOver, InitIterStats, sdnVars
    <2>2. Settled' = {} /\ (Settled \ served)' = {}
        BY <2>1 DEF Settled, Handling
    <2> QED
        BY <2>1, <2>2, CountedNone DEF CountedInv, NoStats, Handling
<1>4. CASE Finish
    <2>1. pc = "idle" /\ pc' = "done" /\ UNCHANGED <<arrived, stats, served, reqs_dict>>
        BY <1>4 DEF Finish, IterationOver, engineVars
    <2> QED
        BY <2>1 DEF CountedInv, Settled, Handling
<1>5. CASE UNCHANGED vars
    BY <1>5 DEF vars, sdnVars, engineVars, CountedInv, Settled, Handling
<1> QED
    BY <1>1, <1>2, <1>3, <1>4, <1>5, CountedHandler, CountedArrival, CountedBlocked
       DEF Next, Ended, ControllerStep

\* Between two events the counters of SimStats are those of the requests of the iteration,
\* whatever was sliced, retried, blocked or released: each blocked request is counted once,
\* with the bandwidth it asked for.
THEOREM EngineCountsBlocking == Spec => []BlockingIsCounted
<1>1. Init => CountedInv
    <2> SUFFICES ASSUME Init PROVE CountedInv
        OBVIOUS
    <2>1. pc = "idle" /\ arrived = 0 /\ served = {} /\ stats = NoStats
        BY DEF Init, InitController
    <2>2. Settled = {} /\ Settled \ served = {}
        BY <2>1 DEF Settled, Handling
    <2> QED
        BY <2>1, <2>2, CountedNone DEF CountedInv, NoStats, Handling
<1>2. OwnsInv /\ OwnsInv' /\ CountedInv /\ [Next]_vars => CountedInv'
    BY CountedNext
<1>3. OwnsInv /\ CountedInv => BlockingIsCounted
    <2> SUFFICES ASSUME OwnsInv, CountedInv, pc = "idle"
                 PROVE  /\ stats.blocked_reqs = Cardinality((1..arrived) \ served)
                        /\ stats.bit_rate_request = Total([r \in 1..arrived |-> reqs_dict[r].bandwidth])
                        /\ stats.bit_rate_blocked =
                              Total([r \in (1..arrived) \ served |-> reqs_dict[r].bandwidth])
        BY DEF BlockingIsCounted
    <2>1. Settled = 1..arrived
        BY DEF Settled, Handling
    <2>2. ASSUME NEW S, S \subseteq Settled, IsFiniteSet(S)
          PROVE  Total([r \in S |-> reqs_dict[r].bandwidth]) = AskedBy(reqs_dict, S)
        <3> DEFINE f == [r \in S |-> reqs_dict[r].bandwidth]
        <3>1. DOMAIN f = S /\ \A r \in S : f[r] = BandwidthsOf(reqs_dict)[r]
            BY <2>2, SettledIs
        <3> HIDE DEF f
        <3>2. SumFunctionOnSet(f, S) = AskedBy(reqs_dict, S)
            BY <2>2, <3>1, SumSame DEF AskedBy
        <3> QED
            BY <3>1, <3>2 DEF Total, SumFunction, f
    <2> QED
        BY <2>1, <2>2, SettledIs DEF CountedInv
<1> QED
    BY <1>1, <1>2, <1>3, ServiceAlways, PTL DEF Spec, ServiceInv

-----------------------------------------------------------------------------
(* The bandwidth of a routed request is carried.                               *)

BandwidthOf(segs) == [i \in DOMAIN segs |-> segs[i].bandwidth]

\* What the last k segments carry.
Carry(segs, k) == SumFunctionOnSet(BandwidthOf(segs), (Len(segs) - k + 1)..Len(segs))

\* What is placed and what is still to be placed make up the bandwidth.
CarriedInv ==
    /\ pc \in {"slices", "segments"} => ~DynamicLps
    /\ pc = "segments" =>
          Carry(segments, num_trans - frame.remaining) + frame.remaining * frame.slice = bandwidth
    /\ pc = "lightpaths" => Carry(segments, num_trans) + frame.remaining = bandwidth
    /\ Routed => num_trans <= Len(segments) /\ Carry(segments, num_trans) = bandwidth

\* A larger bandwidth of the table is a multiple of a smaller one.
SlicesDivide ==
    \A bw, b \in Bandwidth : b < bw => (bw \div b) * b = bw

\* No segment carries nothing.
LEMMA CarryNone ==
    ASSUME NEW segs, Len(segs) \in Nat
    PROVE  Carry(segs, 0) = 0
<1>1. (Len(segs) - 0 + 1)..Len(segs) = {}
    OBVIOUS
<1> QED
    BY <1>1, FS_EmptySet, SumStep DEF Carry

\* One segment more carries its own bandwidth more.
LEMMA CarryMore ==
    ASSUME NEW segs \in Seq(SegmentType), NEW k \in Nat, k <= Len(segs), NEW s \in SegmentType
    PROVE  Carry(Append(segs, s), k + 1) = Carry(segs, k) + s.bandwidth
<1> DEFINE n == Len(segs)
           more == Append(segs, s)
           tail == (n - k + 1)..n
<1>1. /\ n \in Nat /\ DOMAIN segs = 1..n /\ Len(more) = n + 1 /\ DOMAIN more = 1..(n + 1)
      /\ more[n + 1] = s /\ \A i \in 1..n : more[i] = segs[i]
    OBVIOUS
<1>2. s.bandwidth \in Int /\ \A i \in 1..n : segs[i].bandwidth \in Int
    <2>1. \A t \in SegmentType : t.bandwidth \in Int
        BY DEF SegmentType
    <2>2. \A i \in 1..n : segs[i] \in SegmentType
        BY <1>1
    <2> QED
        BY <2>1, <2>2
<1>3. IsFiniteSet(tail) /\ tail \subseteq 1..n /\ n + 1 \notin tail
    <2>1. n - k + 1 \in Int /\ n \in Int
        BY <1>1
    <2>2. IsFiniteSet(tail)
        BY <2>1, FS_Interval
    <2> QED
        BY <1>1, <2>2
<1>4. tail \union {n + 1} = (Len(more) - (k + 1) + 1)..Len(more)
    BY <1>1
<1>5. /\ \A i \in tail : BandwidthOf(segs)[i] \in Int /\ BandwidthOf(more)[i] = BandwidthOf(segs)[i]
      /\ BandwidthOf(more)[n + 1] = s.bandwidth
    <2>1. \A i \in 1..n : BandwidthOf(segs)[i] = segs[i].bandwidth /\ BandwidthOf(more)[i] = segs[i].bandwidth
        BY <1>1 DEF BandwidthOf
    <2>2. BandwidthOf(more)[n + 1] = s.bandwidth
        BY <1>1 DEF BandwidthOf
    <2> QED
        BY <1>2, <1>3, <2>1, <2>2
<1> HIDE DEF more, tail
<1>6. SumFunctionOnSet(BandwidthOf(more), tail) = SumFunctionOnSet(BandwidthOf(segs), tail)
    BY <1>3, <1>5, SumSame
<1>7. SumFunctionOnSet(BandwidthOf(more), tail \union {n + 1}) =
          SumFunctionOnSet(BandwidthOf(more), tail) + s.bandwidth
    <2> DEFINE f == BandwidthOf(more)
               last == n + 1
    <2>1. last \notin tail /\ IsFiniteSet(tail) /\ \A i \in tail \union {last} : f[i] \in Int
        BY <1>2, <1>3, <1>5
    <2>2. f[last] = s.bandwidth
        BY <1>5
    <2> HIDE DEF f, last
    <2>3. SumFunctionOnSet(f, tail \union {last}) = SumFunctionOnSet(f, tail) + f[last]
        BY <2>1, SumAdd
    <2> QED
        BY <2>2, <2>3 DEF f, last
<1>8. Carry(segs, k) = SumFunctionOnSet(BandwidthOf(segs), tail)
    BY DEF Carry, tail
<1>9. Carry(more, k + 1) = SumFunctionOnSet(BandwidthOf(more), tail \union {n + 1})
    BY <1>4 DEF Carry
<1> QED
    BY <1>6, <1>7, <1>8, <1>9 DEF more

\* What segments carry is a number.
LEMMA CarryIsInt ==
    ASSUME NEW segs \in Seq(SegmentType), NEW k \in Nat, k <= Len(segs)
    PROVE  Carry(segs, k) \in Int
<1> DEFINE tail == (Len(segs) - k + 1)..Len(segs)
<1>1. Len(segs) \in Nat /\ DOMAIN segs = 1..Len(segs)
    OBVIOUS
<1>2. IsFiniteSet(tail) /\ tail \subseteq 1..Len(segs)
    <2>1. Len(segs) - k + 1 \in Int /\ Len(segs) \in Int
        BY <1>1
    <2>2. IsFiniteSet(tail)
        BY <2>1, FS_Interval
    <2> QED
        BY <1>1, <2>2
<1>3. \A i \in tail : BandwidthOf(segs)[i] \in Int
    <2>1. \A i \in 1..Len(segs) : BandwidthOf(segs)[i] = segs[i].bandwidth /\ segs[i] \in SegmentType
        BY <1>1 DEF BandwidthOf
    <2>2. \A t \in SegmentType : t.bandwidth \in Int
        BY DEF SegmentType
    <2> QED
        BY <1>2, <2>1, <2>2
<1> HIDE DEF tail
<1>4. SumFunctionOnSet(BandwidthOf(segs), tail) \in Int
    BY <1>2, <1>3, SumIsInt
<1> QED
    BY <1>4 DEF Carry, tail

\* _update_req_stats notes a segment: it carries its own bandwidth.
LEMMA CarrySegment ==
    ASSUME OwnsInv, NEW k \in Nat, k <= Len(segments), NEW bw \in Nat, NEW w \in WindowType,
           segments' = Append(segments, Segment(bw, w))
    PROVE  /\ Carry(segments', k + 1) = Carry(segments, k) + bw
           /\ k + 1 <= Len(segments')
<1>1. PICK s \in SegmentType : s = Segment(bw, w) /\ s.bandwidth = bw
    <2>1. Segment(bw, w) \in SegmentType /\ Segment(bw, w).bandwidth = bw
        BY DEF Segment, SegmentType
    <2> QED
        BY <2>1
<1>2. segments \in Seq(SegmentType) /\ Len(segments') = Len(segments) + 1 /\ Len(segments) \in Nat
    BY <1>1, SdnTypes
<1>3. Carry(segments', k + 1) = Carry(segments, k) + bw
    BY <1>1, <1>2, CarryMore
<1> QED
    BY <1>2, <1>3

\* The segments that were carried are those of the plan.
LEMMA CarriedAsPlanned ==
    ASSUME OwnsInv, CarriedInv
    PROVE  PlanCarriesBandwidth
<1> SUFFICES ASSUME Routed
             PROVE  Total([i \in DOMAIN Plan |-> Plan[i].bandwidth]) >= bandwidth
    BY DEF PlanCarriesBandwidth
<1> DEFINE d == Len(segments) - num_trans
           h == [i \in DOMAIN Plan |-> Plan[i].bandwidth]
<1>1. /\ num_trans \in Nat /\ num_trans <= Len(segments) /\ Len(segments) \in Nat
      /\ segments \in Seq(SegmentType) /\ Carry(segments, num_trans) = bandwidth /\ bandwidth \in Nat
    BY SdnTypes DEF CarriedInv
<1>2. Plan = SubSeq(segments, Len(segments) - num_trans + 1, Len(segments))
    BY <1>1 DEF Plan
<1>3. /\ Plan \in Seq(SegmentType) /\ Len(Plan) = num_trans
      /\ \A i \in 1..Len(Plan) : Plan[i] = segments[Len(segments) - num_trans + 1 + i - 1]
    BY <1>1, <1>2, LastSegments
<1>4. DOMAIN h = 1..num_trans /\ d \in Int
    BY <1>1, <1>3
<1>5. \A i \in 1..num_trans : h[i] = BandwidthOf(segments)[i + d] /\ BandwidthOf(segments)[i + d] \in Int
    <2>1. ASSUME NEW i \in 1..num_trans
          PROVE  h[i] = BandwidthOf(segments)[i + d] /\ BandwidthOf(segments)[i + d] \in Int
        <3>1. i + d \in 1..Len(segments) /\ Len(segments) - num_trans + 1 + i - 1 = i + d
            BY <1>1
        <3>2. i \in DOMAIN Plan /\ Plan[i] = segments[i + d]
            BY <1>3, <3>1
        <3>3. i + d \in DOMAIN segments /\ segments[i + d] \in SegmentType
            BY <1>1, <3>1
        <3>4. segments[i + d].bandwidth \in Int
            BY <3>3 DEF SegmentType
        <3> HIDE DEF d
        <3> QED
            BY <3>2, <3>3, <3>4 DEF BandwidthOf
    <2> QED
        BY <2>1
<1> HIDE DEF h
<1>6. SumFunctionOnSet(h, 1..num_trans) =
          SumFunctionOnSet(BandwidthOf(segments), (d + 1)..(d + num_trans))
    <2> HIDE DEF d
    <2> QED
        BY <1>1, <1>4, <1>5, SumShift
<1>7. d + 1 = Len(segments) - num_trans + 1 /\ d + num_trans = Len(segments)
    BY <1>1
<1>8. SumFunctionOnSet(h, 1..num_trans) = bandwidth
    BY <1>1, <1>6, <1>7 DEF Carry
<1> QED
    BY <1>1, <1>4, <1>8 DEF Total, SumFunction, h

\* A whole request is one segment of its bandwidth.
LEMMA CarriedWhole ==
    ASSUME OwnsInv, PlacedInv, OnRoute, CarriedInv, TryWhole
    PROVE  CarriedInv'
<1>1. /\ pc = "path" /\ AtPath /\ UNCHANGED <<bandwidth, num_trans>> /\ num_trans = 1
      /\ bandwidth \in Bandwidth /\ bandwidth \in Nat
    BY SdnTypes DEF TryWhole, AtPath, OwnsInv, Typed, HandlerTyped, PlacedInv
<1>2. PICK found \in Outcomes(Path, ModFormats(Path, bandwidth), SlotsOfWhole) :
         \/ pc' = "path"
         \/ /\ found.is_free
            /\ segments' = Append(segments, Segment(bandwidth, found.window))
            /\ pc' \in {"returned", "crashed"}
    BY <1>1 DEF TryWhole
<1>3. CASE pc' = "path"
    BY <1>3 DEF CarriedInv, Routed
<1>4. CASE /\ found.is_free
           /\ segments' = Append(segments, Segment(bandwidth, found.window))
           /\ pc' \in {"returned", "crashed"}
    <2>1. found.window \in WindowType
        BY <1>1, <1>4, SdnTypes, WholeOutcome, SpectrumAssumption, SearchAssumption, RoutingAssumption
    <2>2. 0 \in Nat /\ 0 <= Len(segments) /\ Carry(segments, 0) = 0
        BY SdnTypes, CarryNone
    <2>3. Carry(segments', 0 + 1) = 0 + bandwidth /\ 0 + 1 <= Len(segments')
        BY <1>1, <1>4, <2>1, <2>2, CarrySegment
    <2> QED
        BY <1>1, <1>4, <2>3 DEF CarriedInv, Routed
<1> QED
    BY <1>2, <1>3, <1>4

\* The loop over the slice bandwidths: segments of a bandwidth that divides the request's
\* make it up.
LEMMA CarriedSlices ==
    ASSUME SlicesDivide, OwnsInv, CarriedInv, NEW b \in frame.slices,
           TooManySegments(b) \/ SkipSlice(b) \/ StartSlice(b)
    PROVE  CarriedInv'
<1>1. CASE TooManySegments(b) \/ SkipSlice(b)
    BY <1>1 DEF TooManySegments, SkipSlice, CarriedInv, Routed
<1>2. CASE StartSlice(b)
    <2>1. /\ pc = "slices" /\ pc' = "segments" /\ num_trans' = NumSegments(b) /\ UNCHANGED <<segments, bandwidth>>
          /\ frame'.remaining = NumSegments(b) /\ frame'.slice = b
        BY <1>2, SdnTypes DEF StartSlice, Frame
    <2>2. b \in Bandwidth /\ bandwidth \in Bandwidth /\ b < bandwidth
        BY <2>1, SdnTypes DEF Frame, OwnsInv, Typed, HandlerTyped
    <2>3. NumSegments(b) * b = bandwidth /\ NumSegments(b) \in Int /\ bandwidth \in Int
        <3>1. b \in Nat \ {0} /\ bandwidth \in Nat
            BY <2>2, RoutingAssumption
        <3> QED
            BY <2>2, <3>1 DEF SlicesDivide, NumSegments
    <2>4. num_trans' - frame'.remaining = 0 /\ frame'.remaining * frame'.slice = bandwidth'
        BY <2>1, <2>3
    <2>5. Carry(segments', num_trans' - frame'.remaining) = 0
        BY <2>1, <2>4, CarryNone, SdnTypes
    <2> QED
        BY <2>1, <2>3, <2>4, <2>5 DEF CarriedInv, Routed
<1> QED
    BY <1>1, <1>2

\* A segment carries what it takes from what remained.
LEMMA CarriedSegment ==
    ASSUME OwnsInv, PlacedInv, CarriedInv, PlaceSegment
    PROVE  CarriedInv'
<1> DEFINE mods == <<GetPathMod(ModPerBw[frame.slice], FindPathLen(path_list))>>
           k == num_trans - frame.remaining
<1>1. /\ pc = "segments" /\ UNCHANGED <<bandwidth, num_trans>>
      /\ k \in Nat /\ k <= Len(segments)
    BY DEF PlaceSegment, PlacedInv, HasPlaced, Placed
<1>2. /\ frame.slice \in Bandwidth /\ frame.slice \in Nat /\ frame.remaining \in Int
      /\ num_trans \in Nat /\ bandwidth \in Nat /\ Carry(segments, k) \in Int
      /\ Carry(segments, k) + frame.remaining * frame.slice = bandwidth
    <2>1. frame.slice \in Bandwidth /\ frame.remaining \in Int
        BY <1>1, SdnTypes DEF OwnsInv, Typed, HandlerTyped, Frame
    <2>2. Carry(segments, k) \in Int
        BY <1>1, SdnTypes, CarryIsInt
    <2>3. Carry(segments, k) + frame.remaining * frame.slice = bandwidth
        BY <1>1 DEF CarriedInv
    <2> QED
        BY <2>1, <2>2, <2>3, SdnTypes, RoutingAssumption
<1>3. ~DynamicLps \/ pc' # "slices"
    BY <1>1 DEF CarriedInv
<1>4. PICK found \in Outcomes(path_list, mods, SlotsOfSlice) :
         \/ pc' = "slices" /\ was_routed' = FALSE
         \/ /\ found.is_free
            /\ segments' = Append(segments, Segment(frame.slice, found.window))
            /\ pc' \in {"crashed", IF LastSegment THEN "returned" ELSE "segments"}
            /\ frame' = IF LastSegment THEN NoFrame ELSE [frame EXCEPT !.remaining = @ - 1]
    BY DEF PlaceSegment
<1>5. CASE pc' = "slices" /\ was_routed' = FALSE
    BY <1>3, <1>5 DEF CarriedInv, Routed
<1>6. CASE pc' = "crashed"
    BY <1>6 DEF CarriedInv, Routed
<1>7. CASE /\ found.is_free
           /\ segments' = Append(segments, Segment(frame.slice, found.window))
           /\ pc' = IF LastSegment THEN "returned" ELSE "segments"
           /\ frame' = IF LastSegment THEN NoFrame ELSE [frame EXCEPT !.remaining = @ - 1]
    <2>1. found.window \in WindowType
        BY <1>2, <1>7, SdnTypes, SliceOutcome, SpectrumAssumption, SearchAssumption, RoutingAssumption
    <2>2. Carry(segments', k + 1) = Carry(segments, k) + frame.slice /\ k + 1 <= Len(segments')
        <3> HIDE DEF k
        <3> QED
            BY <1>1, <1>2, <1>7, <2>1, CarrySegment
    <2>3. CASE LastSegment
        <3>1. k + 1 = num_trans' /\ frame.remaining * frame.slice = frame.slice
            BY <1>1, <1>2, <2>3 DEF LastSegment
        <3> QED
            BY <1>1, <1>2, <1>7, <2>2, <2>3, <3>1 DEF CarriedInv, Routed
    <2>4. CASE ~LastSegment
        <3>1. frame'.remaining = frame.remaining - 1 /\ frame'.slice = frame.slice
            BY <1>7, <2>4, SdnTypes DEF Frame
        <3>2. k + 1 = num_trans' - frame'.remaining
            BY <1>1, <1>2, <3>1
        <3>3. frame.remaining * frame.slice = (frame.remaining - 1) * frame.slice + frame.slice
            <4>1. PICK m \in Int, n \in Int : m = frame.remaining /\ n = frame.slice
                BY <1>2
            <4>2. m * n = (m - 1) * n + n
                OBVIOUS
            <4> QED
                BY <4>1, <4>2
        <3> QED
            BY <1>1, <1>2, <1>7, <2>2, <2>4, <3>1, <3>2, <3>3 DEF CarriedInv, Routed
    <2> QED
        BY <2>3, <2>4
<1> QED
    BY <1>4, <1>5, <1>6, <1>7

\* A lightpath carries what is supported, or the rest.
LEMMA CarriedLightpath ==
    ASSUME OwnsInv, PlacedInv, CarriedInv, PlaceLightpath
    PROVE  CarriedInv'
<1> DEFINE w == Assigned(net, Search(path_list, 1))
           bw(n) == IF n < frame.remaining THEN n ELSE frame.remaining
<1>1. /\ pc = "lightpaths" /\ UNCHANGED bandwidth
      /\ num_trans \in Nat /\ num_trans <= Len(segments)
    BY DEF PlaceLightpath, PlacedInv, HasPlaced, Placed
<1>2. /\ frame.remaining \in Nat /\ bandwidth \in Nat /\ Carry(segments, num_trans) \in Int
      /\ Carry(segments, num_trans) + frame.remaining = bandwidth
    <2>1. frame.remaining \in Nat
        BY <1>1, SdnTypes DEF OwnsInv, Typed, HandlerTyped, Frame
    <2>2. Carry(segments, num_trans) \in Int
        BY <1>1, SdnTypes, CarryIsInt
    <2> QED
        BY <1>1, <2>1, <2>2, SdnTypes DEF CarriedInv
<1>3. PICK supported \in SnrBandwidths :
         \/ pc' = "path"
         \/ /\ FindsLightpath(supported)
            /\ segments' = Append(segments, Segment(bw(supported), w))
            /\ num_trans' = num_trans + 1
            /\ pc' \in {"crashed", IF Left(supported) > 0 THEN "lightpaths" ELSE "returned"}
            /\ frame' = IF Left(supported) > 0 THEN [frame EXCEPT !.remaining = Left(supported)] ELSE NoFrame
    BY DEF PlaceLightpath
<1>4. supported \in Nat
    BY ControllerAssumption
<1>5. CASE pc' = "path" \/ pc' = "crashed"
    BY <1>5 DEF CarriedInv, Routed
<1>6. CASE /\ FindsLightpath(supported)
           /\ segments' = Append(segments, Segment(bw(supported), w))
           /\ num_trans' = num_trans + 1
           /\ pc' = IF Left(supported) > 0 THEN "lightpaths" ELSE "returned"
           /\ frame' = IF Left(supported) > 0 THEN [frame EXCEPT !.remaining = Left(supported)] ELSE NoFrame
    <2>1. w \in WindowType
        <3>1. IsFree(net, Search(path_list, 1))
            BY <1>6 DEF FindsLightpath
        <3>2. /\ Search(path_list, 1).forced_core = None
              /\ Search(path_list, 1).slots_needed = 1
            BY DEF Search
        <3> QED
            BY <3>1, <3>2, AssignedType, SpectrumAssumption, SearchAssumption
    <2>2. bw(supported) \in Nat
        BY <1>2, <1>4
    <2>3. /\ Carry(segments', num_trans') = Carry(segments, num_trans) + bw(supported)
          /\ num_trans' <= Len(segments')
        <3> HIDE DEF w, bw
        <3> QED
            BY <1>1, <1>6, <2>1, <2>2, CarrySegment
    <2>4. CASE Left(supported) > 0
        <3>1. frame'.remaining = frame.remaining - supported /\ bw(supported) = supported
            BY <1>2, <1>4, <1>6, <2>4, SdnTypes DEF Left, Frame
        <3> QED
            BY <1>1, <1>2, <1>4, <1>6, <2>3, <2>4, <3>1 DEF CarriedInv, Routed
    <2>5. CASE ~(Left(supported) > 0)
        <3>1. bw(supported) = frame.remaining
            BY <1>2, <1>4, <2>5 DEF Left
        <3> QED
            BY <1>1, <1>2, <1>6, <2>3, <2>5, <3>1 DEF CarriedInv, Routed
    <2> QED
        BY <2>4, <2>5
<1> QED
    BY <1>3, <1>5, <1>6

\* The other steps of the handler.
LEMMA CarriedOther ==
    ASSUME DynamicLps \/ ChoiceInv, OwnsInv, CarriedInv,
           TrySliced \/ SlicesExhausted \/ SliceRound \/ Block
    PROVE  CarriedInv'
<1>1. CASE TrySliced
    <2>1. /\ bandwidth \in Nat /\ segments' = segments /\ bandwidth' = bandwidth /\ Len(segments) \in Nat
          /\ pc' \in {"slices", "lightpaths", "crashed"} /\ (pc' = "slices" => ~DynamicLps)
          /\ pc' = "lightpaths" => num_trans' = 0 /\ frame'.remaining = bandwidth
        BY <1>1, SdnTypes DEF TrySliced, Frame
    <2>2. Carry(segments, 0) = 0
        BY <2>1, CarryNone
    <2> QED
        BY <2>1, <2>2 DEF CarriedInv, Routed
<1>2. CASE SlicesExhausted
    <2>1. ~was_routed
        BY <1>2 DEF SlicesExhausted, ChoiceInv, CarriedInv
    <2> QED
        BY <1>2, <2>1 DEF SlicesExhausted, CarriedInv, Routed
<1>3. CASE SliceRound \/ Block
    BY <1>3 DEF SliceRound, Block, CarriedInv, Routed
<1> QED
    BY <1>1, <1>2, <1>3

\* All steps of the run.
LEMMA CarriedNext ==
    ASSUME DynamicLps \/ (SlicesDivide /\ ChoiceInv), ServiceInv, CarriedInv, [Next]_vars
    PROVE  CarriedInv'
<1>1. CASE ControllerStep
    <2>1. CASE \E b \in frame.slices : TooManySegments(b) \/ SkipSlice(b) \/ StartSlice(b)
        <3>1. ~DynamicLps
            BY <2>1 DEF TooManySegments, SkipSlice, StartSlice, CarriedInv
        <3> QED
            BY <2>1, <3>1, CarriedSlices DEF ServiceInv
    <2> QED
        BY <1>1, <2>1, CarriedWhole, CarriedOther, CarriedSegment, CarriedLightpath
           DEF ControllerStep, HandleEvent, ServiceInv
<1>2. CASE HandleArrival
    BY <1>2 DEF HandleArrival, StartArrival, CarriedInv, Routed
<1>3. CASE CountBlocked \/ CountRouted \/ (\E r \in ReqId : HandleRelease(r)) \/ NextIteration \/ Finish
    <2>1. pc' \in {"idle", "crashed", "done"}
        BY <1>3 DEF CountBlocked, CountRouted, HandleRelease, ReleaseEvent, NextIteration, IterationOver,
                    Finish, sdnVars
    <2> QED
        BY <2>1 DEF CarriedInv, Routed
<1>4. CASE UNCHANGED vars
    BY <1>4 DEF vars, sdnVars, CarriedInv, Routed
<1> QED
    BY <1>1, <1>2, <1>3, <1>4 DEF Next, Ended

\* The segments of a routed request add up to at least the bandwidth it asked for, whole,
\* sliced or in lightpaths. The hypotheses, for static slicing only: the bandwidths of the
\* format table divide each other, as those of example_mod_formats.json do, and
\* there is a slice for every request that may be sliced: else the flag of an earlier
\* request passes for a request that holds nothing (RoutedHoldsSlots).
THEOREM EngineCarriesBandwidth ==
    ASSUME DynamicLps \/ (SlicesDivide /\ SlicingHasChoice)
    PROVE  Spec => []PlanCarriesBandwidth
<1>1. Init => CarriedInv
    BY DEF Init, InitController, CarriedInv, Routed
<1>2. ServiceInv /\ CarriedInv => PlanCarriesBandwidth
    BY CarriedAsPlanned DEF ServiceInv
<1>3. CASE DynamicLps
    <2>1. ServiceInv /\ CarriedInv /\ [Next]_vars => CarriedInv'
        BY <1>3, CarriedNext
    <2> QED
        BY <1>1, <1>2, <2>1, ServiceAlways, PTL DEF Spec
<1>4. CASE ~DynamicLps /\ SlicesDivide /\ SlicingHasChoice
    <2>1. ServiceInv /\ ChoiceInv /\ CarriedInv /\ [Next]_vars => CarriedInv'
        BY <1>4, CarriedNext
    <2> QED
        BY <1>1, <1>2, <1>4, <2>1, ServiceAlways, ChoiceAlways, PTL DEF Spec
<1> QED
    BY <1>3, <1>4
-----------------------------------------------------------------------------
(* A run is finite.                                                            *)

\* handle_event looks up a route it has as long as it is in the loops of one.
IndexInv ==
    /\ pc = "path" => frame.path_index \in 1..(Len(frame.routes) + 1)
    /\ pc \in {"slices", "segments", "lightpaths"} => frame.path_index \in 1..Len(frame.routes)

InHandler == pc \in {"path", "slices", "segments", "lightpaths"}

\* How much is left to do, from the outermost loop to the innermost: iterations; events of
\* this one; rounds over the routes, with the return from handle_event; two turns for each
\* route, to take it up and to leave it; slice bandwidths; segments, or bandwidth.
IterationsLeft == IF pc \in {"done", "crashed"} THEN 0 ELSE MaxIters - iteration
EventsLeft == (MaxReqs - arrived) + Cardinality(ReqId \ departed)
RoundsLeft == IF InHandler THEN (IF frame.segment_slicing THEN 2 ELSE 3)
              ELSE IF pc = "returned" THEN 1 ELSE 0
TurnsLeft == IF InHandler
             THEN 2 * (Len(frame.routes) + 1 - frame.path_index) + (IF pc = "path" THEN 1 ELSE 0)
             ELSE 0
SlicesLeft == Cardinality(frame.slices)
PartsLeft == IF pc \in {"segments", "lightpaths"} THEN frame.remaining ELSE 0

WorkLeft == <<IterationsLeft, EventsLeft, RoundsLeft, TurnsLeft, SlicesLeft, PartsLeft>>

\* Less in the first place where they differ: an order in which no sequence of natural
\* numbers falls for ever.
LessWork(s, t) == \E i \in 1..6 : s[i] < t[i] /\ \A j \in 1..(i - 1) : s[j] = t[j]

\* The places as numbers.
LEMMA WorkIs ==
    ASSUME IsFiniteSet(Bandwidth), OwnsInv, IndexInv
    PROVE  /\ WorkLeft \in Nat \X Nat \X Nat \X Nat \X Nat \X Nat
           /\ pc \notin {"done", "crashed"} => IterationsLeft \in Nat \ {0}
<1>1. /\ iteration \in 0..(MaxIters - 1) /\ MaxIters \in Nat /\ arrived \in 0..MaxReqs /\ MaxReqs \in Nat
      /\ frame \in Frame
    BY EngineAssumption, ControllerAssumption, SdnTypes DEF OwnsInv, Typed, TypeOK, EngineTypeOK
<1>2. IterationsLeft \in Nat /\ (pc \notin {"done", "crashed"} => IterationsLeft # 0)
    BY <1>1 DEF IterationsLeft
<1>3. IsFiniteSet(ReqId \ departed) /\ IsFiniteSet(frame.slices)
    <2>1. IsFiniteSet(ReqId)
        BY <1>1, FS_Interval DEF ReqId
    <2>2. frame.slices \in SUBSET Bandwidth
        BY <1>1 DEF Frame
    <2> QED
        BY <2>1, <2>2, FS_Subset
<1>4. EventsLeft \in Nat
    BY <1>1, <1>3, FS_CardinalityType DEF EventsLeft
<1>5. SlicesLeft \in Nat
    BY <1>3, FS_CardinalityType DEF SlicesLeft
<1>6. RoundsLeft \in Nat
    BY DEF RoundsLeft
<1>7. TurnsLeft \in Nat
    <2>1. frame.routes \in Seq(Seq(Node)) /\ frame.path_index \in Nat
        BY <1>1 DEF Frame
    <2>2. PICK l \in Nat : l = Len(frame.routes)
        BY <2>1
    <2>3. InHandler => frame.path_index <= l + 1
        BY <2>1, <2>2 DEF InHandler, IndexInv
    <2> QED
        BY <2>1, <2>2, <2>3 DEF TurnsLeft
<1>8. PartsLeft \in Nat
    BY <1>1 DEF PartsLeft, OwnsInv, Typed, HandlerTyped, Frame
<1> QED
    BY <1>2, <1>4, <1>5, <1>6, <1>7, <1>8 DEF WorkLeft

\* Less at each of the places.
LEMMA LessAt ==
    ASSUME WorkLeft \in Nat \X Nat \X Nat \X Nat \X Nat \X Nat,
           WorkLeft' \in Nat \X Nat \X Nat \X Nat \X Nat \X Nat,
           \/ IterationsLeft' < IterationsLeft
           \/ /\ IterationsLeft' = IterationsLeft
              /\ \/ EventsLeft' < EventsLeft
                 \/ /\ EventsLeft' = EventsLeft
                    /\ \/ RoundsLeft' < RoundsLeft
                       \/ /\ RoundsLeft' = RoundsLeft
                          /\ \/ TurnsLeft' < TurnsLeft
                             \/ /\ TurnsLeft' = TurnsLeft
                                /\ \/ SlicesLeft' < SlicesLeft
                                   \/ SlicesLeft' = SlicesLeft /\ PartsLeft' < PartsLeft
    PROVE  LessWork(WorkLeft', WorkLeft)
<1> DEFINE s == WorkLeft'
           t == WorkLeft
           at(i) == s[i] < t[i] /\ \A j \in 1..(i - 1) : s[j] = t[j]
<1>1. /\ t[1] = IterationsLeft /\ t[2] = EventsLeft /\ t[3] = RoundsLeft /\ t[4] = TurnsLeft
      /\ t[5] = SlicesLeft /\ t[6] = PartsLeft
    BY DEF WorkLeft
<1>2. /\ s[1] = IterationsLeft' /\ s[2] = EventsLeft' /\ s[3] = RoundsLeft' /\ s[4] = TurnsLeft'
      /\ s[5] = SlicesLeft' /\ s[6] = PartsLeft'
    BY DEF WorkLeft
<1> HIDE DEF s, t
<1>3. at(1) \/ at(2) \/ at(3) \/ at(4) \/ at(5) \/ at(6)
    BY <1>1, <1>2
<1>4. \E i \in 1..6 : at(i)
    BY <1>3
<1> QED
    BY <1>4 DEF LessWork, s, t

\* What one step of the handler does to the places of its loops.
HandlerFalls ==
    \/ pc' = "crashed"
    \/ pc' = "returned"
    \/ /\ pc = "path" /\ pc' = "path" /\ ~frame.segment_slicing /\ frame'.segment_slicing
       /\ frame'.routes = frame.routes /\ frame'.path_index = 1
    \/ /\ frame'.routes = frame.routes /\ frame'.segment_slicing = frame.segment_slicing
       /\ \/ pc' = "path" /\ frame'.path_index = frame.path_index + 1
             /\ frame.path_index \in 1..Len(frame.routes)
          \/ /\ frame'.path_index = frame.path_index /\ frame.path_index \in 1..Len(frame.routes)
             /\ \/ pc = "path" /\ pc' \in {"slices", "lightpaths"}
                \/ /\ pc = "slices" /\ pc' \in {"slices", "segments"}
                   /\ \E b \in frame.slices : frame'.slices = frame.slices \ {b}
                \/ /\ pc \in {"segments", "lightpaths"} /\ frame'.slices = frame.slices
                   /\ \/ pc' = pc /\ frame'.remaining < frame.remaining
                      \/ pc = "segments" /\ pc' = "slices" /\ frame.remaining >= 1

\* The attempts on a path.
LEMMA TriesFall ==
    ASSUME OwnsInv, TryWhole \/ TrySliced
    PROVE  HandlerFalls
<1>1. frame \in Frame
    BY SdnTypes
<1>2. pc = "path" /\ frame.path_index \in 1..Len(frame.routes)
    <2>1. frame.routes \in Seq(Seq(Node))
        BY <1>1 DEF Frame
    <2>2. DOMAIN frame.routes = 1..Len(frame.routes)
        BY <2>1
    <2> QED
        BY <2>2 DEF TryWhole, TrySliced, AtPath
<1>3. CASE TryWhole
    <2>1. \/ pc' = pc /\ frame' = NextPath
          \/ pc' \in {"returned", "crashed"}
        BY <1>3 DEF TryWhole
    <2> QED
        BY <1>1, <1>2, <2>1 DEF NextPath, Frame, HandlerFalls
<1>4. CASE TrySliced
    <2>1. pc' \in {"slices", "lightpaths", "crashed"}
        BY <1>4 DEF TrySliced
    <2>2. /\ frame'.routes = frame.routes /\ frame'.segment_slicing = frame.segment_slicing
          /\ frame'.path_index = frame.path_index
        BY <1>1, <1>4 DEF TrySliced, Frame
    <2> QED
        BY <1>2, <2>1, <2>2 DEF HandlerFalls
<1> QED
    BY <1>3, <1>4

\* The loop over the slice bandwidths.
LEMMA SlicesFall ==
    ASSUME OwnsInv, IndexInv,
           SlicesExhausted \/ \E b \in frame.slices : TooManySegments(b) \/ SkipSlice(b) \/ StartSlice(b)
    PROVE  HandlerFalls
<1>1. frame \in Frame
    BY SdnTypes
<1>2. pc = "slices" /\ frame.path_index \in 1..Len(frame.routes)
    BY DEF SlicesExhausted, TooManySegments, SkipSlice, StartSlice, IndexInv
<1>3. CASE SlicesExhausted
    BY <1>1, <1>2, <1>3 DEF SlicesExhausted, NextPath, Frame, HandlerFalls
<1>4. ASSUME NEW b \in frame.slices, TooManySegments(b)
      PROVE  HandlerFalls
    BY <1>1, <1>2, <1>4 DEF TooManySegments, NextPath, Frame, HandlerFalls
<1>5. ASSUME NEW b \in frame.slices, SkipSlice(b) \/ StartSlice(b)
      PROVE  HandlerFalls
    <2>1. /\ pc' \in {"slices", "segments"} /\ frame'.slices = frame.slices \ {b}
          /\ frame'.routes = frame.routes /\ frame'.segment_slicing = frame.segment_slicing
          /\ frame'.path_index = frame.path_index
        BY <1>1, <1>2, <1>5 DEF SkipSlice, StartSlice, Frame
    <2> QED
        BY <1>2, <2>1 DEF HandlerFalls
<1> QED
    BY <1>3, <1>4, <1>5

\* The segments, the lightpaths and the end of the walk.
LEMMA PartsFall ==
    ASSUME OwnsInv, IndexInv, PlaceSegment \/ PlaceLightpath \/ SliceRound \/ Block
    PROVE  HandlerFalls
<1>1. frame \in Frame
    BY SdnTypes
<1>2. CASE PlaceSegment
    <2>1. /\ pc = "segments" /\ frame.path_index \in 1..Len(frame.routes) /\ frame.remaining >= 1
        BY <1>2 DEF PlaceSegment, IndexInv, OwnsInv, Typed, HandlerTyped
    <2>2. \/ pc' = "slices" /\ frame' = [frame EXCEPT !.slice = 0, !.remaining = 0]
          \/ pc' = "segments" /\ frame' = [frame EXCEPT !.remaining = @ - 1]
          \/ pc' \in {"returned", "crashed"}
        BY <1>2 DEF PlaceSegment, LastSegment
    <2>3. frame.remaining \in Int /\ DOMAIN frame = DOMAIN NoFrame
        BY <1>1 DEF Frame, NoFrame
    <2>4. \/ /\ frame'.routes = frame.routes /\ frame'.segment_slicing = frame.segment_slicing
             /\ frame'.path_index = frame.path_index /\ frame'.slices = frame.slices
             /\ pc' = "slices" \/ (pc' = "segments" /\ frame'.remaining = frame.remaining - 1)
          \/ pc' \in {"returned", "crashed"}
        BY <2>2, <2>3 DEF NoFrame
    <2> QED
        BY <2>1, <2>3, <2>4 DEF HandlerFalls
<1>3. CASE PlaceLightpath
    <2>1. /\ pc = "lightpaths" /\ frame.path_index \in 1..Len(frame.routes)
        BY <1>3 DEF PlaceLightpath, IndexInv
    <2>2. PICK supported \in SnrBandwidths :
             \/ pc' = "path" /\ frame' = NextPath
             \/ pc' = "lightpaths" /\ supported # 0 /\ frame' = [frame EXCEPT !.remaining = Left(supported)]
             \/ pc' \in {"returned", "crashed"}
        BY <1>3 DEF PlaceLightpath, FindsLightpath
    <2>3. supported \in Nat
        BY ControllerAssumption
    <2>4. supported # 0 => Left(supported) < frame.remaining
        BY <1>1, <2>3 DEF Left, Frame
    <2> QED
        BY <1>1, <2>1, <2>2, <2>4 DEF NextPath, Frame, HandlerFalls
<1>4. CASE SliceRound
    BY <1>1, <1>4 DEF SliceRound, SliceRoundDue, Frame, HandlerFalls
<1>5. CASE Block
    BY <1>5 DEF Block, HandlerFalls
<1> QED
    BY <1>2, <1>3, <1>4, <1>5

\* A step falls in the first of the six places in which it changes something.
Falls ==
    \/ IterationsLeft' < IterationsLeft
    \/ /\ IterationsLeft' = IterationsLeft
       /\ \/ EventsLeft' < EventsLeft
          \/ /\ EventsLeft' = EventsLeft
             /\ \/ RoundsLeft' < RoundsLeft
                \/ /\ RoundsLeft' = RoundsLeft
                   /\ \/ TurnsLeft' < TurnsLeft
                      \/ /\ TurnsLeft' = TurnsLeft
                         /\ \/ SlicesLeft' < SlicesLeft
                            \/ SlicesLeft' = SlicesLeft /\ PartsLeft' < PartsLeft

\* The steps of the handler.
LEMMA HandlerWork ==
    ASSUME IsFiniteSet(Bandwidth), OwnsInv, IndexInv, OwnsInv', InHandler, HandlerFalls,
           UNCHANGED engineVars
    PROVE  IndexInv' /\ Falls
<1>1. frame \in Frame /\ frame' \in Frame
    BY SdnTypes DEF OwnsInv, Typed, TypeOK, SdnTypeOK
<1>2. PICK i, l \in Nat : i = frame.path_index /\ l = Len(frame.routes)
    BY <1>1 DEF Frame
<1>3. /\ UNCHANGED <<iteration, arrived, departed>>
      /\ pc \in {"path", "slices", "segments", "lightpaths"}
    BY DEF engineVars, InHandler
<1>4. pc' # "crashed" => /\ EventsLeft' = EventsLeft
                         /\ pc' # "done" => IterationsLeft' = IterationsLeft
    BY <1>3 DEF EventsLeft, IterationsLeft
<1>5. CASE pc' = "crashed"
    <2>1. IterationsLeft' = 0 /\ IterationsLeft \in Nat \ {0}
        BY <1>3, <1>5, WorkIs DEF IterationsLeft
    <2>2. IterationsLeft' < IterationsLeft
        BY <2>1
    <2> QED
        BY <1>5, <2>2 DEF IndexInv, Falls
<1>6. CASE pc' = "returned"
    <2>1. RoundsLeft' = 1 /\ RoundsLeft \in {2, 3}
        BY <1>3, <1>6 DEF RoundsLeft, InHandler
    <2> QED
        BY <1>4, <1>6, <2>1 DEF IndexInv, Falls
<1>7. CASE /\ pc = "path" /\ pc' = "path" /\ ~frame.segment_slicing /\ frame'.segment_slicing
           /\ frame'.routes = frame.routes /\ frame'.path_index = 1
    <2>1. RoundsLeft' = 2 /\ RoundsLeft = 3
        BY <1>7 DEF RoundsLeft, InHandler
    <2>2. IndexInv'
        BY <1>2, <1>7 DEF IndexInv
    <2> QED
        BY <1>4, <1>7, <2>1, <2>2 DEF Falls
<1>8. ASSUME frame'.routes = frame.routes, frame'.segment_slicing = frame.segment_slicing, InHandler'
      PROVE  RoundsLeft' = RoundsLeft /\ pc' \notin {"done", "crashed"}
    BY <1>8 DEF RoundsLeft, InHandler
<1>9. CASE /\ frame'.routes = frame.routes /\ frame'.segment_slicing = frame.segment_slicing
           /\ pc' = "path" /\ frame'.path_index = frame.path_index + 1
           /\ frame.path_index \in 1..Len(frame.routes)
    <2>1. InHandler'
        BY <1>9 DEF InHandler
    <2>2. TurnsLeft' = 2 * (l + 1 - (i + 1)) + 1
        BY <1>2, <1>9, <2>1 DEF TurnsLeft
    <2>3. TurnsLeft \in {2 * (l + 1 - i), 2 * (l + 1 - i) + 1}
        BY <1>2 DEF TurnsLeft
    <2>4. TurnsLeft' < TurnsLeft
        <3>1. 2 * (l + 1 - (i + 1)) + 1 < 2 * (l + 1 - i) /\ 2 * (l + 1 - i) \in Int
            BY <1>2
        <3> DEFINE a == 2 * (l + 1 - i)
        <3>2. a \in Int /\ TurnsLeft' \in Int /\ TurnsLeft' < a /\ TurnsLeft \in {a, a + 1}
            BY <1>2, <2>2, <2>3, <3>1
        <3> HIDE DEF a
        <3> QED
            BY <3>2
    <2>5. IndexInv'
        BY <1>2, <1>9 DEF IndexInv
    <2> QED
        BY <1>4, <1>8, <1>9, <2>1, <2>4, <2>5 DEF Falls
<1>10. CASE /\ frame'.routes = frame.routes /\ frame'.segment_slicing = frame.segment_slicing
            /\ frame'.path_index = frame.path_index /\ frame.path_index \in 1..Len(frame.routes)
            /\ pc = "path" /\ pc' \in {"slices", "lightpaths"}
    <2>1. InHandler' /\ pc' # "path"
        BY <1>10 DEF InHandler
    <2>2. TurnsLeft' = 2 * (l + 1 - i) /\ TurnsLeft = 2 * (l + 1 - i) + 1
        BY <1>2, <1>10, <2>1 DEF TurnsLeft
    <2>3. TurnsLeft' < TurnsLeft
        BY <1>2, <2>2
    <2>4. IndexInv'
        BY <1>2, <1>10 DEF IndexInv
    <2> QED
        BY <1>4, <1>8, <1>10, <2>1, <2>3, <2>4 DEF Falls
<1>11. ASSUME frame'.routes = frame.routes, frame'.segment_slicing = frame.segment_slicing,
              frame'.path_index = frame.path_index, frame.path_index \in 1..Len(frame.routes),
              pc \in {"slices", "segments", "lightpaths"}, pc' \in {"slices", "segments", "lightpaths"}
       PROVE  /\ IndexInv' /\ EventsLeft' = EventsLeft /\ IterationsLeft' = IterationsLeft
              /\ RoundsLeft' = RoundsLeft /\ TurnsLeft' = TurnsLeft
    <2>1. InHandler' /\ pc # "path" /\ pc' # "path"
        BY <1>11 DEF InHandler
    <2>2. TurnsLeft' = TurnsLeft
        BY <1>11, <2>1 DEF TurnsLeft
    <2>3. IndexInv'
        BY <1>2, <1>11 DEF IndexInv
    <2> QED
        BY <1>4, <1>8, <1>11, <2>1, <2>2, <2>3
<1>12. CASE /\ frame'.routes = frame.routes /\ frame'.segment_slicing = frame.segment_slicing
            /\ frame'.path_index = frame.path_index /\ frame.path_index \in 1..Len(frame.routes)
            /\ pc = "slices" /\ pc' \in {"slices", "segments"}
            /\ \E b \in frame.slices : frame'.slices = frame.slices \ {b}
    <2>1. PICK b \in frame.slices : frame'.slices = frame.slices \ {b}
        BY <1>12
    <2>2. IsFiniteSet(frame.slices)
        <3>1. frame.slices \in SUBSET Bandwidth
            BY <1>1 DEF Frame
        <3> QED
            BY <3>1, FS_Subset
    <2>3. SlicesLeft' = SlicesLeft - 1 /\ SlicesLeft \in Nat
        BY <2>1, <2>2, FS_RemoveElement, FS_CardinalityType DEF SlicesLeft
    <2>4. SlicesLeft' < SlicesLeft
        BY <2>3
    <2> QED
        BY <1>11, <1>12, <2>4 DEF Falls
<1>13. CASE /\ frame'.routes = frame.routes /\ frame'.segment_slicing = frame.segment_slicing
            /\ frame'.path_index = frame.path_index /\ frame.path_index \in 1..Len(frame.routes)
            /\ pc \in {"segments", "lightpaths"} /\ frame'.slices = frame.slices
            /\ \/ pc' = pc /\ frame'.remaining < frame.remaining
               \/ pc = "segments" /\ pc' = "slices" /\ frame.remaining >= 1
    <2>1. SlicesLeft' = SlicesLeft /\ PartsLeft' < PartsLeft
        BY <1>1, <1>13 DEF SlicesLeft, PartsLeft, Frame
    <2> QED
        BY <1>11, <1>13, <2>1 DEF Falls
<1> QED
    BY <1>5, <1>6, <1>7, <1>9, <1>10, <1>12, <1>13 DEF HandlerFalls

\* Every other step begins or ends a handler, an iteration or the run.
LEMMA EngineWork ==
    ASSUME IsFiniteSet(Bandwidth), OwnsInv, IndexInv, OwnsInv', Next
    PROVE  IndexInv' /\ (Falls \/ UNCHANGED vars)
<1>1. /\ iteration \in Nat /\ MaxIters \in Nat /\ arrived \in 0..MaxReqs /\ MaxReqs \in Nat
      /\ departed \subseteq 1..arrived /\ frame \in Frame
    BY EngineAssumption, ControllerAssumption, SdnTypes DEF OwnsInv, Typed, TypeOK, EngineTypeOK
<1>2. pc \notin {"done", "crashed"} => IterationsLeft \in Nat \ {0}
    BY WorkIs
<1>3. IsFiniteSet(ReqId \ departed) /\ Cardinality(ReqId \ departed) \in Nat
    <2>1. IsFiniteSet(ReqId)
        BY <1>1, FS_Interval DEF ReqId
    <2> QED
        BY <2>1, FS_Subset, FS_CardinalityType
<1>4. CASE ControllerStep
    <2>1. InHandler
        BY <1>4 DEF ControllerStep, HandleEvent, TryWhole, TrySliced, AtPath, TooManySegments, SkipSlice, StartSlice,
                    SlicesExhausted, PlaceSegment, PlaceLightpath, SliceRound, Block, InHandler
    <2>2. HandlerFalls
        BY <1>4, TriesFall, SlicesFall, PartsFall DEF ControllerStep, HandleEvent
    <2> QED
        BY <1>4, <2>1, <2>2, HandlerWork DEF ControllerStep
<1>5. CASE HandleArrival
    <2>1. /\ pc = "idle" /\ pc' = "path" /\ frame'.path_index = 1 /\ frame'.routes \in Seq(Seq(Node))
          /\ arrived' = arrived + 1 /\ UNCHANGED <<iteration, departed>>
        BY <1>5 DEF HandleArrival, StartArrival, NoFrame, OwnsInv, Typed, TypeOK, SdnTypeOK, Frame
    <2>2. IterationsLeft' = IterationsLeft
        BY <2>1 DEF IterationsLeft
    <2>3. EventsLeft' < EventsLeft
        BY <1>1, <1>3, <2>1 DEF EventsLeft
    <2>4. Len(frame'.routes) \in Nat
        BY <2>1
    <2>5. IndexInv'
        BY <2>1, <2>4 DEF IndexInv
    <2> QED
        BY <2>2, <2>3, <2>5 DEF Falls
<1>6. CASE CountBlocked \/ CountRouted
    <2>1. pc = "returned" /\ pc' \in {"idle", "crashed"} /\ UNCHANGED <<iteration, arrived, departed>>
        BY <1>6 DEF CountBlocked, CountRouted
    <2>2. IndexInv'
        BY <2>1 DEF IndexInv
    <2>3. CASE pc' = "crashed"
        <3>1. IterationsLeft' = 0 /\ IterationsLeft \in Nat \ {0}
            BY <1>2, <2>1, <2>3 DEF IterationsLeft
        <3>2. IterationsLeft' < IterationsLeft
            BY <3>1
        <3> QED
            BY <2>2, <3>2 DEF Falls
    <2>4. CASE pc' = "idle"
        <3>1. IterationsLeft' = IterationsLeft /\ EventsLeft' = EventsLeft
            BY <2>1, <2>4 DEF IterationsLeft, EventsLeft
        <3>2. RoundsLeft' = 0 /\ RoundsLeft = 1
            BY <2>1, <2>4 DEF RoundsLeft, InHandler
        <3> QED
            BY <2>2, <3>1, <3>2 DEF Falls
    <2> QED
        BY <2>1, <2>3, <2>4
<1>7. ASSUME NEW r \in ReqId, HandleRelease(r)
      PROVE  IndexInv' /\ Falls
    <2>1. /\ pc = "idle" /\ pc' = "idle" /\ r \notin departed /\ departed' = departed \union {r}
          /\ UNCHANGED <<iteration, arrived>>
        BY <1>7 DEF HandleRelease, ReleaseEvent
    <2>2. ReqId \ departed' = (ReqId \ departed) \ {r} /\ r \in ReqId \ departed
        BY <2>1
    <2>3. Cardinality(ReqId \ departed') = Cardinality(ReqId \ departed) - 1
        BY <1>3, <2>2, FS_RemoveElement
    <2>4. IterationsLeft' = IterationsLeft /\ EventsLeft' < EventsLeft
        BY <1>1, <1>3, <2>1, <2>3 DEF IterationsLeft, EventsLeft
    <2> QED
        BY <2>1, <2>4 DEF IndexInv, Falls
<1>8. CASE NextIteration
    <2>1. /\ pc = "idle" /\ pc' = "idle" /\ iteration' = iteration + 1
        BY <1>8 DEF NextIteration, IterationOver, sdnVars
    <2>2. IterationsLeft' < IterationsLeft
        BY <1>1, <2>1 DEF IterationsLeft
    <2> QED
        BY <2>1, <2>2 DEF IndexInv, Falls
<1>9. CASE Finish
    <2>1. pc = "idle" /\ pc' = "done"
        BY <1>9 DEF Finish, IterationOver
    <2>2. IterationsLeft' = 0 /\ IterationsLeft \in Nat \ {0}
        BY <1>2, <2>1 DEF IterationsLeft
    <2>3. IterationsLeft' < IterationsLeft
        BY <2>2
    <2> QED
        BY <2>1, <2>3 DEF IndexInv, Falls
<1>10. CASE Ended
    BY <1>10 DEF Ended, vars, sdnVars, IndexInv
<1> QED
    BY <1>4, <1>5, <1>6, <1>7, <1>8, <1>9, <1>10 DEF Next

\* What remains to be done is a row of natural numbers, and less of it after every step.
WorkOk == WorkLeft \in Nat \X Nat \X Nat \X Nat \X Nat \X Nat
NearsItsEnd == WorkOk /\ WorkOk' /\ LessWork(WorkLeft', WorkLeft)

\* A run is finite, however large the network and the table of bandwidths: each step of
\* handle_event, with its retries over routes, slice bandwidths and segments, and of the
\* loop of Engine.run leaves less to be done, the places compared from the outermost loop
\* to the innermost. The table of bandwidths has to be finite, as a dictionary is.
THEOREM EngineIsFinite ==
    ASSUME IsFiniteSet(Bandwidth)
    PROVE  Spec => [][NearsItsEnd]_vars
<1>1. Init => IndexInv
    BY DEF Init, InitController, IndexInv
<1>2. OwnsInv /\ OwnsInv' /\ IndexInv /\ [Next]_vars => IndexInv'
    BY EngineWork DEF IndexInv, vars, sdnVars
<1>3. OwnsInv /\ IndexInv => WorkOk
    BY WorkIs DEF WorkOk
<1>4. OwnsInv /\ OwnsInv' /\ IndexInv /\ WorkOk /\ WorkOk' /\ [Next]_vars => [NearsItsEnd]_vars
    <2> SUFFICES ASSUME OwnsInv, OwnsInv', IndexInv, WorkOk, WorkOk', Next, ~UNCHANGED vars
                 PROVE  NearsItsEnd
        OBVIOUS
    <2>1. Falls
        BY EngineWork
    <2> QED
        BY <2>1, LessAt DEF Falls, WorkOk, NearsItsEnd
<1> QED
    BY <1>1, <1>2, <1>3, <1>4, OwnsAlways, PTL DEF Spec
=============================================================================
