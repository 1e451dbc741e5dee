---------------------------- MODULE EngineProofs ----------------------------
(***************************************************************************)
(* Theorems about Engine.  First its types: each step of the handler and of  *)
(* the engine keeps them, with what the handler knows of its request; they    *)
(* rest on lemmas about the formats a path is tried with and what             *)
(* get_spectrum may answer.  Then who owns the occupied slots, in every       *)
(* reachable state: the inductive invariant OwnsInv and what follows.         *)
(***************************************************************************)
EXTENDS EngineProperties, SpectrumProofs


\* get_path_mod answers a format or NoMod.
LEMMA GetPathModType ==
    ASSUME NEW mods, NEW len
    PROVE  GetPathMod(mods, len) \in Mod \union {NoMod}
BY DEF GetPathMod, Mod

\* Three numbers can be sorted: the order ModsByReach chooses exists, and has formats in it.
LEMMA ModsByReachType ==
    ASSUME NEW mods, \A m \in Mod : mods[m].max_length \in Int
    PROVE  ModsByReach(mods) \in [1..3 -> Mod]
<1> DEFINE Sorted(m) ==
               /\ \A i, j \in 1..3 : m[i] = m[j] => i = j
               /\ \A i \in 1..2 : mods[m[i]].max_length <= mods[m[i + 1]].max_length
           order(a, b, c) == [i \in 1..3 |-> IF i = 1 THEN a ELSE IF i = 2 THEN b ELSE c]
           reach(m) == mods[m].max_length
<1>1. \A a, b, c \in Mod :
        {a, b, c} = Mod /\ a # b /\ b # c /\ a # c /\ reach(a) <= reach(b) /\ reach(b) <= reach(c)
            => order(a, b, c) \in [1..3 -> Mod] /\ Sorted(order(a, b, c))
    <2> SUFFICES ASSUME NEW a \in Mod, NEW b \in Mod, NEW c \in Mod,
                        a # b, b # c, a # c, reach(a) <= reach(b), reach(b) <= reach(c)
                 PROVE  order(a, b, c) \in [1..3 -> Mod] /\ Sorted(order(a, b, c))
        OBVIOUS
    <2>1. /\ order(a, b, c) \in [1..3 -> Mod]
          /\ order(a, b, c)[1] = a /\ order(a, b, c)[2] = b /\ order(a, b, c)[3] = c
        OBVIOUS
    <2> HIDE DEF order
    <2>2. \A i \in 1..3 : i = 1 \/ i = 2 \/ i = 3
        OBVIOUS
    <2>3. \A i \in 1..2 : i = 1 \/ i = 2
        OBVIOUS
    <2> QED
        BY <2>1, <2>2, <2>3
<1>2. \E a, b, c \in Mod :
        {a, b, c} = Mod /\ a # b /\ b # c /\ a # c /\ reach(a) <= reach(b) /\ reach(b) <= reach(c)
    <2> DEFINE q == reach("QPSK")
               h == reach("16-QAM")
               x == reach("64-QAM")
    <2>1. q \in Int /\ h \in Int /\ x \in Int
        BY DEF Mod
    <2>2. \/ q <= h /\ h <= x
          \/ q <= x /\ x <= h
          \/ h <= q /\ q <= x
          \/ h <= x /\ x <= q
          \/ x <= q /\ q <= h
          \/ x <= h /\ h <= q
        <3> HIDE DEF q, h, x
        <3> QED
            BY <2>1
    <2> QED
        BY <2>2 DEF Mod
<1>3. \E m \in [1..3 -> Mod] : Sorted(m)
    <2> HIDE DEF Sorted, order
    <2> QED
        BY <1>1, <1>2
<1>4. ModsByReach(mods) = CHOOSE m \in [1..3 -> Mod] : Sorted(m)
    BY DEF ModsByReach
<1> HIDE DEF Sorted
<1> QED
    BY <1>3, <1>4

\* The formats of a path are formats, or NoMod.
LEMMA ModFormatsType ==
    ASSUME RoutingAssumption, NEW path, NEW bw \in Bandwidth
    PROVE  \A i \in DOMAIN ModFormats(path, bw) : ModFormats(path, bw)[i] \in Mod \union {NoMod}
<1>1. CASE PreCalcMods \/ RouteMethod = "external_ksp"
    <2>1. \A m \in Mod : ModPerBw[bw][m].max_length \in Int
        BY DEF RoutingAssumption
    <2>2. ModsByReach(ModPerBw[bw]) \in [1..3 -> Mod]
        BY <2>1, ModsByReachType
    <2>3. ASSUME NEW m \in [1..3 -> Mod]
          PROVE  Reverse(m) \in [1..3 -> Mod]
        <3>1. Len(m) = 3
            <4>1. m = [i \in 1..3 |-> m[i]]
                OBVIOUS
            <4>2. Len([i \in 1..3 |-> m[i]]) = 3
                OBVIOUS
            <4> QED
                BY <4>1, <4>2
        <3>2. Reverse(m) = [i \in 1..3 |-> m[(3 - i) + 1]]
            BY <3>1 DEF Reverse
        <3>3. \A i \in 1..3 : m[(3 - i) + 1] \in Mod
            OBVIOUS
        <3> QED
            BY <3>2, <3>3
    <2>4. ModFormats(path, bw) \in [1..3 -> Mod]
        BY <1>1, <2>2, <2>3 DEF ModFormats
    <2> QED
        BY <2>4
<1>2. CASE ~(PreCalcMods \/ RouteMethod = "external_ksp")
    BY <1>2, GetPathModType DEF ModFormats
<1> QED
    BY <1>1, <1>2


\* What get_spectrum may answer, whatever formats it is given: when free, a typed window.
LEMMA OutcomeType ==
    ASSUME SpectrumAssumption, SearchAssumption, block_reason \in Reason,
           NEW path, NEW mods, NEW slots \in [Mod -> Int],
           \A i \in DOMAIN mods : mods[i] \in Mod \union {NoMod},
           NEW found \in Outcomes(path, mods, slots), found.is_free
    PROVE  found.window \in WindowType /\ found.block_reason \in Reason
<1> DEFINE props(i) == Search(path, slots[mods[i]])
           free == {i \in DOMAIN mods : mods[i] # NoMod /\ IsFree(net, props(i))}
           reason(i) == IF SnrChecked THEN "None"
                        ELSE IF \E j \in DOMAIN mods : j < i /\ mods[j] = NoMod
                        THEN "distance" ELSE block_reason
           answer(i) == [is_free |-> TRUE, window |-> Assigned(net, props(i)),
                         block_reason |-> reason(i)]
           taken == {i \in free : SnrChecked \/ \A j \in free : i <= j}
           refused == IF SnrChecked \/ free = {} THEN {[is_free |-> FALSE]} ELSE {}
<1>1. Outcomes(path, mods, slots) = {answer(i) : i \in taken} \union refused
    BY DEF Outcomes
<1>2. \A r \in refused : ~r.is_free
    OBVIOUS
<1>3. PICK i \in taken : found = answer(i)
    <2> HIDE DEF answer, taken, refused
    <2> QED
        BY <1>1, <1>2
<1>4. i \in DOMAIN mods /\ mods[i] # NoMod /\ IsFree(net, props(i))
    <2> HIDE DEF props
    <2> QED
        OBVIOUS
<1>5. slots[mods[i]] \in Int
    BY <1>4
<1>6. /\ props(i).slots_needed \in Int
      /\ props(i).forced_core = None /\ props(i).forced_index = None
    BY <1>5 DEF Search
<1> HIDE DEF props
<1>7. Assigned(net, props(i)) \in WindowType
    BY <1>4, <1>6, AssignedType
<1>8. reason(i) \in Reason
    BY DEF Reason
<1> QED
    BY <1>3, <1>7, <1>8

\* The table gives a number of slots for each format.
LEMMA SlotsNeededType ==
    ASSUME RoutingAssumption, NEW bw \in Bandwidth
    PROVE  \A m \in Mod : ModPerBw[bw][m].slots_needed \in Int
BY DEF RoutingAssumption

\* A whole request, in the formats of its path.
LEMMA WholeOutcome ==
    ASSUME SpectrumAssumption, SearchAssumption, RoutingAssumption,
           bandwidth \in Bandwidth, block_reason \in Reason,
           NEW path, NEW found \in Outcomes(path, ModFormats(path, bandwidth), SlotsOfWhole), found.is_free
    PROVE  found.window \in WindowType /\ found.block_reason \in Reason
<1>1. \A m \in Mod : ModPerBw[bandwidth][m].slots_needed \in Int
    BY SlotsNeededType
<1>2. SlotsOfWhole \in [Mod -> Int]
    <2>1. CASE FixedGrid
        BY <2>1 DEF SlotsOfWhole
    <2>2. CASE ~FixedGrid
        BY <1>1, <2>2 DEF SlotsOfWhole
    <2> QED
        BY <2>1, <2>2
<1>3. \A i \in DOMAIN ModFormats(path, bandwidth) :
          ModFormats(path, bandwidth)[i] \in Mod \union {NoMod}
    BY ModFormatsType
<1> QED
    BY <1>2, <1>3, OutcomeType

\* A segment, in the one format the slice bandwidth reaches with.
LEMMA SliceOutcome ==
    ASSUME SpectrumAssumption, SearchAssumption, RoutingAssumption,
           frame.slice \in Bandwidth, block_reason \in Reason,
           NEW path, NEW found \in Outcomes(path, <<GetPathMod(ModPerBw[frame.slice], FindPathLen(path))>>, SlotsOfSlice), found.is_free
    PROVE  found.window \in WindowType /\ found.block_reason \in Reason
<1> DEFINE mods == <<GetPathMod(ModPerBw[frame.slice], FindPathLen(path))>>
<1>1. SlotsOfSlice \in [Mod -> Int]
    BY SlotsNeededType DEF SlotsOfSlice
<1>2. \A i \in DOMAIN mods : mods[i] \in Mod \union {NoMod}
    BY GetPathModType
<1> HIDE DEF mods
<1>3. found \in Outcomes(path, mods, SlotsOfSlice)
    BY DEF mods
<1> QED
    BY <1>1, <1>2, <1>3, OutcomeType

-----------------------------------------------------------------------------

\* What the types of the next state rest on: the request in the handler has a bandwidth
\* of the table, a slice is smaller than the request and not below one segment, and the
\* records of the requests are typed.
HandlerTyped ==
    /\ pc \in {"path", "slices", "segments", "lightpaths"} => bandwidth \in Bandwidth
    /\ \A b \in frame.slices : b < bandwidth
    /\ pc \in {"idle", "returned"} => frame.slices = {}
    /\ pc = "segments" => frame.slice \in Bandwidth /\ frame.remaining >= 1
    /\ pc = "lightpaths" => frame.remaining >= 0

RecordsTyped ==
    /\ \A r \in DOMAIN reqs_dict : reqs_dict[r].bandwidth \in Bandwidth
    /\ \A r \in DOMAIN reqs_status_dict : reqs_status_dict[r].path \in Seq(Node)

Typed == TypeOK /\ HandlerTyped /\ RecordsTyped
SdnTyped == SdnTypeOK /\ HandlerTyped

\* The initial state is typed.
LEMMA TypedInit == Init => Typed
<1> SUFFICES ASSUME Init PROVE Typed
    OBVIOUS
<1>1. frame \in Frame /\ frame.slices = {}
    BY DEF Init, InitController, NoFrame, Frame
<1>2. net \in [Cell -> Int]
    BY DEF Init, InitController, EmptyNet
<1>3. DOMAIN reqs_dict = {} /\ DOMAIN reqs_status_dict = {}
    BY DEF Init
<1>4. path_list \in Seq(Node) /\ segments \in Seq([bandwidth : Nat, window : WindowType])
    BY DEF Init, InitController
<1>5. SdnTypeOK
    <2>1. was_routed \in BOOLEAN /\ is_sliced \in BOOLEAN
        BY Zenon DEF Init, InitController
    <2>2. req_id \in 0..MaxReqs /\ num_trans \in Nat
        BY ControllerAssumption DEF Init, InitController
    <2>3. bandwidth \in Bandwidth \union {0} /\ block_reason \in Reason
        BY DEF Init, InitController, Reason
    <2>4. pc \in {"idle", "path", "slices", "segments", "lightpaths", "returned", "done", "crashed"}
        BY DEF Init, InitController
    <2> QED
        BY <1>1, <1>2, <1>4, <2>1, <2>2, <2>3, <2>4 DEF SdnTypeOK
<1>6. EngineTypeOK
    <2>1. 1..0 = {}
        OBVIOUS
    <2>2. 0 \in 0..(MaxIters - 1) /\ 0 \in 0..MaxReqs
        BY ControllerAssumption, EngineAssumption
    <2> QED
        BY <1>3, <2>1, <2>2 DEF Init, EngineTypeOK, ReqId
<1> QED
    BY <1>1, <1>3, <1>5, <1>6 DEF Init, InitController, Typed, TypeOK, HandlerTyped, RecordsTyped

-----------------------------------------------------------------------------
(* The steps of the handler keep SdnTyped. *)

\* Outside the handler the frame is a frame.
LEMMA NoFrameType == NoFrame \in Frame /\ NoFrame.slices = {}
BY DEF NoFrame, Frame

\* Frames with new values in the fields a step changes.
AtPathOf(f, i, S, b, n) == [f EXCEPT !.path_index = i, !.slices = S, !.slice = b, !.remaining = n]
AtSliceOf(f, S, b, n) == [f EXCEPT !.slices = S, !.slice = b, !.remaining = n]

\* A frame keeps its type with typed values in those fields.
LEMMA AtPathType ==
    ASSUME NEW f \in Frame, NEW i \in Nat, NEW S \in SUBSET Bandwidth, NEW b \in Nat, NEW n \in Int
    PROVE  AtPathOf(f, i, S, b, n) \in Frame /\ AtPathOf(f, i, S, b, n).slices = S
BY DEF Frame, AtPathOf

\* The same of the fields of a slice.
LEMMA AtSliceType ==
    ASSUME NEW f \in Frame, NEW S \in SUBSET Bandwidth, NEW b \in Nat, NEW n \in Int
    PROVE  /\ AtSliceOf(f, S, b, n) \in Frame
           /\ AtSliceOf(f, S, b, n).slices = S
           /\ AtSliceOf(f, S, b, n).slice = b
           /\ AtSliceOf(f, S, b, n).remaining = n
BY DEF Frame, AtSliceOf

\* Going on to the next path leaves no slices to try.
LEMMA NextPathType ==
    ASSUME frame \in Frame
    PROVE  NextPath \in Frame /\ NextPath.slices = {}
<1>1. frame.path_index + 1 \in Nat
    BY DEF Frame
<1>2. NextPath = AtPathOf(frame, frame.path_index + 1, {}, 0, 0)
    BY DEF NextPath, AtPathOf
<1> QED
    BY <1>1, <1>2, AtPathType

\* What the handler writes for its request, or frees, leaves a spectrum of integers.
LEMMA NetType ==
    ASSUME SdnTyped, NEW path, NEW spec
    PROVE  /\ net \in [Cell -> Int]
           /\ Allocate(net, req_id, path, spec) \in [Cell -> Int]
           /\ Release(net, req_id, path) \in [Cell -> Int]
<1>1. net \in [Cell -> Int] /\ req_id \in Int
    BY ControllerAssumption DEF SdnTyped, SdnTypeOK
<1> QED
    BY <1>1, AllocateType, ReleaseType

\* The path being tried is a sequence of nodes.
LEMMA PathType ==
    ASSUME frame \in Frame, AtPath
    PROVE  Path \in Seq(Node)
BY DEF Frame, AtPath, Path

\* get_spectrum answers a typed window and reason, and only for the path being tried.
LEMMA TypedTryWhole ==
    ASSUME SdnTyped, TryWhole
    PROVE  SdnTyped'
<1>1. frame \in Frame /\ pc = "path" /\ Path \in Seq(Node) /\ bandwidth \in Bandwidth
    BY PathType DEF SdnTyped, SdnTypeOK, HandlerTyped, TryWhole, AtPath
<1>2. path_list' \in Seq(Node) /\ req_id' = req_id /\ bandwidth' = bandwidth /\ num_trans' = num_trans
    BY <1>1 DEF TryWhole
<1>3. PICK found \in Outcomes(Path, ModFormats(Path, bandwidth), SlotsOfWhole) :
         \/ /\ ~found.is_free
            /\ block_reason' = "congestion"
            /\ frame' = NextPath
            /\ UNCHANGED <<net, was_routed, is_sliced, segments, pc>>
         \/ /\ found.is_free
            /\ block_reason' = found.block_reason
            /\ segments' = Append(segments, Segment(bandwidth, found.window))
            /\ was_routed' = TRUE
            /\ is_sliced' = FALSE
            /\ frame' = NoFrame
            /\ IF CanAllocate(net, Path, found.window)
               THEN pc' = "returned" /\ net' = Allocate(net, req_id, Path, found.window)
               ELSE pc' = "crashed"  /\ net' = net
    BY DEF TryWhole
<1>4. CASE ~found.is_free
    <2>1. /\ frame' = NextPath
          /\ block_reason' = "congestion"
          /\ UNCHANGED <<net, was_routed, is_sliced, segments, pc>>
        BY <1>3, <1>4
    <2>2. frame' \in Frame /\ frame'.slices = {} /\ block_reason' \in Reason
        BY <1>1, <2>1, NextPathType DEF Reason
    <2>3. SdnTypeOK'
        BY <1>1, <1>2, <2>1, <2>2 DEF SdnTyped, SdnTypeOK
    <2> QED
        BY <1>1, <1>2, <2>1, <2>2, <2>3 DEF SdnTyped, HandlerTyped
<1>5. CASE found.is_free
    <2>1. found.window \in WindowType /\ found.block_reason \in Reason
        BY <1>1, <1>5, WholeOutcome, SpectrumAssumption, SearchAssumption, RoutingAssumption
           DEF SdnTyped, SdnTypeOK
    <2>2. /\ frame' = NoFrame
          /\ segments' = Append(segments, Segment(bandwidth, found.window))
          /\ block_reason' = found.block_reason
          /\ pc' \in {"returned", "crashed"}
          /\ net' \in {net, Allocate(net, req_id, Path, found.window)}
        BY <1>3, <1>5
    <2>3. was_routed' \in BOOLEAN /\ is_sliced' \in BOOLEAN
        BY <1>3, <1>5
    <2>4. net' \in [Cell -> Int]
        BY <2>2, NetType
    <2>5. segments' \in Seq([bandwidth : Nat, window : WindowType])
        <3>1. Segment(bandwidth, found.window) \in [bandwidth : Nat, window : WindowType]
            BY <1>1, <2>1, RoutingAssumption DEF Segment
        <3> QED
            BY <2>2, <3>1 DEF SdnTyped, SdnTypeOK
    <2>6. SdnTypeOK'
        BY <1>2, <2>1, <2>2, <2>3, <2>4, <2>5, NoFrameType DEF SdnTyped, SdnTypeOK
    <2> QED
        BY <2>2, <2>6, NoFrameType DEF SdnTyped, HandlerTyped
<1> QED
    BY <1>4, <1>5

\* The slices to try are bandwidths below that of the request.
LEMMA TypedTrySliced ==
    ASSUME SdnTyped, TrySliced
    PROVE  SdnTyped'
<1> DEFINE slices == {b \in Bandwidth : /\ ~DynamicLps
                                        /\ b < bandwidth
                                        /\ GetPathMod(ModPerBw[b], FindPathLen(Path)) # NoMod}
           left == IF DynamicLps THEN bandwidth ELSE 0
<1>1. frame \in Frame /\ pc = "path" /\ Path \in Seq(Node) /\ bandwidth \in Bandwidth
    BY PathType DEF SdnTyped, SdnTypeOK, HandlerTyped, TrySliced, AtPath
<1>2. /\ path_list' \in Seq(Node)
      /\ UNCHANGED <<net, req_id, bandwidth, was_routed, is_sliced, block_reason, segments>>
      /\ num_trans' \in {0, num_trans}
      /\ pc' \in {"slices", "lightpaths", "crashed"}
    BY <1>1 DEF TrySliced
<1>3. PICK forced \in Predictions :
        frame' = [frame EXCEPT !.force_slicing = TRUE, !.forced_segments = forced,
                               !.slices = slices, !.remaining = left]
    BY DEF TrySliced
<1>4. frame' \in Frame /\ frame'.slices = slices /\ frame'.remaining >= 0
    <2>1. slices \in SUBSET Bandwidth /\ left \in Int /\ left >= 0 /\ forced \in Int
        BY <1>1, ControllerAssumption, RoutingAssumption
    <2> HIDE DEF slices, left
    <2> QED
        BY <1>1, <1>3, <2>1 DEF Frame
<1>5. SdnTypeOK'
    BY <1>1, <1>2, <1>4 DEF SdnTyped, SdnTypeOK
<1> QED
    BY <1>1, <1>2, <1>4, <1>5 DEF SdnTyped, HandlerTyped

\* A request makes at least one segment of any smaller bandwidth.
LEMMA NumSegmentsType ==
    ASSUME bandwidth \in Bandwidth, NEW b \in Bandwidth, b < bandwidth
    PROVE  NumSegments(b) \in Nat /\ NumSegments(b) >= 1
<1>1. bandwidth \in Nat /\ b \in Nat /\ 0 < b
    BY RoutingAssumption
<1>2. \A m, n \in Nat : 0 < n /\ n < m => m \div n \in Nat /\ m \div n >= 1
    OBVIOUS
<1> QED
    BY <1>1, <1>2 DEF NumSegments

\* The three outcomes for a slice bandwidth.
LEMMA TypedSlices ==
    ASSUME SdnTyped, NEW b \in frame.slices, TooManySegments(b) \/ SkipSlice(b) \/ StartSlice(b)
    PROVE  SdnTyped'
<1>1. /\ frame \in Frame /\ frame.slices \in SUBSET Bandwidth /\ pc = "slices"
      /\ bandwidth \in Bandwidth /\ b \in Bandwidth /\ b < bandwidth
    BY DEF SdnTyped, SdnTypeOK, HandlerTyped, Frame, TooManySegments, SkipSlice, StartSlice
<1>2. UNCHANGED <<net, req_id, bandwidth, path_list, is_sliced, segments>>
    BY DEF TooManySegments, SkipSlice, StartSlice
<1>3. was_routed' \in BOOLEAN
    BY DEF TooManySegments, SkipSlice, StartSlice
<1>4. CASE TooManySegments(b)
    <2>1. /\ block_reason' \in Reason /\ num_trans' \in Nat /\ pc' = "path"
          /\ frame' \in Frame /\ frame'.slices = {}
        BY <1>1, <1>4, NextPathType DEF TooManySegments, Reason
    <2>2. SdnTypeOK'
        BY <1>1, <1>2, <1>3, <2>1 DEF SdnTyped, SdnTypeOK
    <2> QED
        BY <1>1, <1>2, <2>1, <2>2 DEF SdnTyped, HandlerTyped
<1>5. CASE SkipSlice(b)
    <2>1. /\ UNCHANGED <<block_reason, num_trans, pc>>
          /\ frame' = [frame EXCEPT !.slices = frame.slices \ {b}]
        BY <1>5 DEF SkipSlice
    <2>2. frame' \in Frame /\ frame'.slices = frame.slices \ {b}
        BY <1>1, <2>1 DEF Frame
    <2>3. SdnTypeOK'
        BY <1>1, <1>2, <1>3, <2>1, <2>2 DEF SdnTyped, SdnTypeOK
    <2> QED
        BY <1>1, <1>2, <2>1, <2>2, <2>3 DEF SdnTyped, HandlerTyped
<1>6. CASE StartSlice(b)
    <2>1. /\ block_reason' = block_reason
          /\ pc' = "segments"
          /\ num_trans' = NumSegments(b)
          /\ frame' = [frame EXCEPT !.slices = frame.slices \ {b}, !.slice = b,
                                    !.remaining = NumSegments(b)]
        BY <1>6 DEF StartSlice
    <2>2. NumSegments(b) \in Nat /\ NumSegments(b) >= 1 /\ b \in Nat
        BY <1>1, NumSegmentsType, RoutingAssumption
    <2>3. /\ frame' \in Frame /\ frame'.slices = frame.slices \ {b}
          /\ frame'.slice = b /\ frame'.remaining = NumSegments(b)
        <3>1. frame.slices \ {b} \in SUBSET Bandwidth /\ NumSegments(b) \in Int
            BY <1>1, <2>2
        <3>2. frame' = AtSliceOf(frame, frame.slices \ {b}, b, NumSegments(b))
            BY <2>1 DEF AtSliceOf
        <3> QED
            BY <1>1, <2>2, <3>1, <3>2, AtSliceType
    <2>4. SdnTypeOK'
        BY <1>1, <1>2, <1>3, <2>1, <2>2, <2>3 DEF SdnTyped, SdnTypeOK
    <2> QED
        BY <1>1, <1>2, <2>1, <2>2, <2>3, <2>4 DEF SdnTyped, HandlerTyped
<1> QED
    BY <1>4, <1>5, <1>6

\* No slice bandwidth is left.
LEMMA TypedSlicesExhausted ==
    ASSUME SdnTyped, SlicesExhausted
    PROVE  SdnTyped'
<1>1. frame \in Frame /\ pc = "slices" /\ bandwidth \in Bandwidth
    BY DEF SdnTyped, SdnTypeOK, HandlerTyped, SlicesExhausted
<1>2. /\ UNCHANGED <<net, req_id, bandwidth, path_list, was_routed, is_sliced, block_reason, segments>>
      /\ num_trans' \in {1, num_trans}
      /\ pc' \in {"returned", "path"}
      /\ frame' \in {NoFrame, NextPath}
    BY DEF SlicesExhausted
<1>3. frame' \in Frame /\ frame'.slices = {}
    BY <1>1, <1>2, NextPathType, NoFrameType
<1>4. SdnTypeOK'
    BY <1>1, <1>2, <1>3 DEF SdnTyped, SdnTypeOK
<1> QED
    BY <1>1, <1>2, <1>3, <1>4 DEF SdnTyped, HandlerTyped

\* The count of remaining segments stays at one or more while segments are placed.
LEMMA TypedPlaceSegment ==
    ASSUME SdnTyped, PlaceSegment
    PROVE  SdnTyped'
<1>1. /\ frame \in Frame /\ pc = "segments" /\ bandwidth \in Bandwidth
      /\ frame.slice \in Bandwidth /\ frame.slices \in SUBSET Bandwidth
      /\ frame.remaining \in Int /\ frame.remaining >= 1
    BY DEF SdnTyped, SdnTypeOK, HandlerTyped, Frame, PlaceSegment
<1>2. UNCHANGED <<req_id, bandwidth, path_list, num_trans>>
    BY DEF PlaceSegment
<1>3. PICK found \in Outcomes(path_list, <<GetPathMod(ModPerBw[frame.slice], FindPathLen(path_list))>>,
                              SlotsOfSlice) :
         \/ /\ ~found.is_free
            /\ net' = GiveBack
            /\ was_routed' = FALSE
            /\ is_sliced' = FALSE
            /\ block_reason' = "congestion"
            /\ pc' = "slices"
            /\ frame' = [frame EXCEPT !.slice = 0, !.remaining = 0]
            /\ UNCHANGED segments
         \/ /\ found.is_free
            /\ segments' = Append(segments, Segment(frame.slice, found.window))
            /\ block_reason' = found.block_reason
            /\ is_sliced' = (LastSegment \/ is_sliced)
            /\ IF CanAllocate(net, path_list, found.window)
               THEN /\ net' = Allocate(net, req_id, path_list, found.window)
                    /\ pc' = IF LastSegment THEN "returned" ELSE "segments"
               ELSE net' = net /\ pc' = "crashed"
            /\ frame' = IF LastSegment THEN NoFrame ELSE [frame EXCEPT !.remaining = @ - 1]
            /\ UNCHANGED was_routed
    BY DEF PlaceSegment
<1>4. CASE ~found.is_free
    <2>1. /\ net' = Release(net, req_id, path_list)
          /\ block_reason' \in Reason
          /\ pc' = "slices"
          /\ frame' = [frame EXCEPT !.slice = 0, !.remaining = 0]
          /\ segments' = segments
        BY <1>3, <1>4 DEF GiveBack, Reason
    <2>2. was_routed' \in BOOLEAN /\ is_sliced' \in BOOLEAN
        BY <1>3, <1>4
    <2>3. net' \in [Cell -> Int]
        BY <2>1, NetType
    <2>4. frame' \in Frame /\ frame'.slices = frame.slices
        <3>1. frame' = AtSliceOf(frame, frame.slices, 0, 0)
            BY <1>1, <2>1 DEF AtSliceOf, Frame
        <3> QED
            BY <1>1, <3>1, AtSliceType
    <2>5. SdnTypeOK'
        BY <1>1, <1>2, <2>1, <2>2, <2>3, <2>4 DEF SdnTyped, SdnTypeOK
    <2> QED
        BY <1>1, <1>2, <2>1, <2>4, <2>5 DEF SdnTyped, HandlerTyped
<1>5. CASE found.is_free
    <2>1. found.window \in WindowType /\ found.block_reason \in Reason
        BY <1>1, <1>5, SliceOutcome, SpectrumAssumption, SearchAssumption, RoutingAssumption
           DEF SdnTyped, SdnTypeOK
    <2>2. /\ segments' = Append(segments, Segment(frame.slice, found.window))
          /\ block_reason' = found.block_reason
          /\ net' \in {net, Allocate(net, req_id, path_list, found.window)}
          /\ was_routed' = was_routed
        BY <1>3, <1>5
    <2>3. is_sliced' \in BOOLEAN
        BY <1>3, <1>5
    <2>4. net' \in [Cell -> Int]
        BY <2>2, NetType
    <2>5. segments' \in Seq([bandwidth : Nat, window : WindowType])
        <3>1. Segment(frame.slice, found.window) \in [bandwidth : Nat, window : WindowType]
            BY <1>1, <2>1, RoutingAssumption DEF Segment
        <3> QED
            BY <2>2, <3>1 DEF SdnTyped, SdnTypeOK
    <2>6. /\ pc' \in {"returned", "segments", "crashed"}
          /\ frame' \in Frame
          /\ \A b \in frame'.slices : b \in frame.slices
          /\ pc' = "returned" => frame'.slices = {}
          /\ pc' = "segments" => frame'.slice = frame.slice /\ frame'.remaining >= 1
        <3>1. CASE LastSegment
            BY <1>3, <1>5, <3>1, NoFrameType
        <3>2. CASE ~LastSegment
            <4>1. frame.remaining # 1
                BY <3>2 DEF LastSegment
            <4>2. frame' = [frame EXCEPT !.remaining = frame.remaining - 1]
                BY <1>3, <1>5, <3>2
            <4>3. frame' = AtSliceOf(frame, frame.slices, frame.slice, frame.remaining - 1)
                BY <1>1, <4>2 DEF AtSliceOf, Frame
            <4>4. frame.slice \in Nat /\ frame.remaining - 1 \in Int
                BY <1>1 DEF Frame
            <4>5. pc' \in {"segments", "crashed"}
                BY <1>3, <1>5, <3>2
            <4> QED
                BY <1>1, <4>1, <4>3, <4>4, <4>5, AtSliceType
        <3> QED
            BY <3>1, <3>2
    <2>7. SdnTypeOK'
        BY <1>2, <2>1, <2>2, <2>3, <2>4, <2>5, <2>6 DEF SdnTyped, SdnTypeOK
    <2> QED
        BY <1>1, <1>2, <2>6, <2>7 DEF SdnTyped, HandlerTyped
<1> QED
    BY <1>4, <1>5

\* The second round starts at the first path.
LEMMA TypedSliceRound ==
    ASSUME SdnTyped, SliceRound
    PROVE  SdnTyped'
<1>1. /\ UNCHANGED <<net, req_id, bandwidth, path_list, was_routed, is_sliced, num_trans,
                     block_reason, segments, pc>>
      /\ frame \in Frame
      /\ frame' = [frame EXCEPT !.segment_slicing = TRUE, !.path_index = 1]
      /\ pc = "path"
    BY DEF SdnTyped, SdnTypeOK, SliceRound
<1>2. frame' \in Frame /\ frame'.slices = frame.slices
    BY <1>1 DEF Frame
<1>3. SdnTypeOK'
    BY <1>1, <1>2 DEF SdnTyped, SdnTypeOK
<1> QED
    BY <1>1, <1>2, <1>3 DEF SdnTyped, HandlerTyped

\* A blocked request leaves the handler.
LEMMA TypedBlock ==
    ASSUME SdnTyped, Block
    PROVE  SdnTyped'
<1>1. /\ UNCHANGED <<net, req_id, bandwidth, path_list, is_sliced, num_trans, segments>>
      /\ block_reason' \in Reason
      /\ frame' = NoFrame
      /\ pc' = "returned"
    BY DEF Block, Reason
<1>2. was_routed' \in BOOLEAN
    BY DEF Block
<1>3. SdnTypeOK'
    BY <1>1, <1>2, NoFrameType DEF SdnTyped, SdnTypeOK
<1> QED
    BY <1>1, <1>3, NoFrameType DEF SdnTyped, HandlerTyped

\* The remaining bandwidth stays at zero or more while lightpaths are placed.
LEMMA TypedPlaceLightpath ==
    ASSUME SdnTyped, PlaceLightpath
    PROVE  SdnTyped'
<1> DEFINE props == Search(path_list, 1)
           w == Assigned(net, props)
<1>1. /\ frame \in Frame /\ pc = "lightpaths" /\ bandwidth \in Bandwidth
      /\ frame.slices \in SUBSET Bandwidth /\ frame.remaining \in Int /\ frame.slice \in Nat
      /\ frame.remaining >= 0
    BY DEF SdnTyped, SdnTypeOK, HandlerTyped, Frame, PlaceLightpath
<1>2. UNCHANGED <<req_id, bandwidth, path_list>>
    BY DEF PlaceLightpath
<1>3. PICK supported \in SnrBandwidths :
             \/ /\ ~IsFree(net, props) \/ supported = 0
                /\ net' = IF frame.remaining # bandwidth THEN GiveBack ELSE net
                /\ was_routed' = FALSE
                /\ is_sliced' = FALSE
                /\ num_trans' = 1
                /\ block_reason' = "congestion"
                /\ pc' = "path"
                /\ frame' = NextPath
                /\ UNCHANGED segments
             \/ /\ IsFree(net, props) /\ supported # 0
                /\ LET left == Left(supported)
                       bw   == IF supported < frame.remaining THEN supported ELSE frame.remaining
                       ok   == CanAllocate(net, path_list, w)
                   IN  /\ net' = IF ok THEN Allocate(net, req_id, path_list, w) ELSE net
                       /\ segments' = Append(segments, Segment(bw, w))
                       /\ pc' = IF ~ok THEN "crashed"
                                ELSE IF left > 0 THEN "lightpaths" ELSE "returned"
                       /\ frame' = IF left > 0 THEN [frame EXCEPT !.remaining = left] ELSE NoFrame
                /\ was_routed' = TRUE
                /\ is_sliced' = TRUE
                /\ num_trans' = num_trans + 1
                /\ block_reason' = "None"
    BY DEF PlaceLightpath, FindsLightpath
<1> HIDE DEF props
<1>4. CASE ~IsFree(net, props) \/ supported = 0
    <2>1. /\ net' \in {net, Release(net, req_id, path_list)}
          /\ num_trans' = 1
          /\ block_reason' \in Reason
          /\ pc' = "path"
          /\ frame' = NextPath
          /\ segments' = segments
        BY <1>3, <1>4 DEF GiveBack, Reason
    <2>2. was_routed' \in BOOLEAN /\ is_sliced' \in BOOLEAN
        BY <1>3, <1>4
    <2>3. net' \in [Cell -> Int]
        BY <2>1, NetType
    <2>4. frame' \in Frame /\ frame'.slices = {}
        BY <1>1, <2>1, NextPathType
    <2>5. SdnTypeOK'
        BY <1>2, <2>1, <2>2, <2>3, <2>4 DEF SdnTyped, SdnTypeOK
    <2> QED
        BY <1>1, <1>2, <2>1, <2>4, <2>5 DEF SdnTyped, HandlerTyped
<1>5. CASE IsFree(net, props) /\ supported # 0
    <2> DEFINE left == Left(supported)
               bw == IF supported < frame.remaining THEN supported ELSE frame.remaining
               ok == CanAllocate(net, path_list, w)
    <2>1. w \in WindowType
        <3>1. props.forced_core = None /\ props.forced_index = None /\ props.slots_needed \in Int
            BY DEF props, Search
        <3> QED
            BY <1>5, <3>1, AssignedType, SpectrumAssumption, SearchAssumption
    <2>2. supported \in Nat
        BY ControllerAssumption
    <2>3. /\ net' \in {net, Allocate(net, req_id, path_list, w)}
          /\ segments' = Append(segments, Segment(bw, w))
          /\ pc' \in {"crashed", "lightpaths", "returned"}
          /\ frame' = IF left > 0 THEN [frame EXCEPT !.remaining = left] ELSE NoFrame
          /\ num_trans' = num_trans + 1
          /\ block_reason' = "None"
        BY <1>3, <1>5
    <2>4. was_routed' \in BOOLEAN /\ is_sliced' \in BOOLEAN
        BY <1>3, <1>5
    <2>5. net' \in [Cell -> Int]
        BY <2>3, NetType
    <2>6. /\ frame' \in Frame
          /\ \A b \in frame'.slices : b \in frame.slices
          /\ pc' = "returned" => frame'.slices = {}
          /\ pc' = "lightpaths" => frame'.remaining >= 0
        <3>1. left \in Int
            BY <1>1, <2>2 DEF Left
        <3>2. CASE left > 0
            <4>1. frame' = AtSliceOf(frame, frame.slices, frame.slice, left)
                BY <1>1, <2>3, <3>2 DEF AtSliceOf, Frame
            <4>2. pc' # "returned"
                BY <1>3, <1>5, <3>2
            <4> HIDE DEF left
            <4> QED
                BY <1>1, <3>1, <3>2, <4>1, <4>2, AtSliceType
        <3>3. CASE ~(left > 0)
            BY <2>3, <3>3, NoFrameType DEF NoFrame
        <3> QED
            BY <3>2, <3>3
    <2>7. segments' \in Seq([bandwidth : Nat, window : WindowType])
        <3>1. Segment(bw, w) \in [bandwidth : Nat, window : WindowType]
            BY <1>1, <2>1, <2>2 DEF Segment
        <3> QED
            BY <2>3, <3>1 DEF SdnTyped, SdnTypeOK
    <2>8. SdnTypeOK'
        BY <1>2, <2>3, <2>4, <2>5, <2>6, <2>7 DEF SdnTyped, SdnTypeOK, Reason
    <2> QED
        BY <1>1, <1>2, <2>3, <2>6, <2>8 DEF SdnTyped, HandlerTyped
<1> QED
    BY <1>3, <1>4, <1>5

\* All steps of the handler.
LEMMA TypedHandleEvent ==
    ASSUME SdnTyped, HandleEvent
    PROVE  SdnTyped'
BY TypedTryWhole, TypedTrySliced, TypedSlices, TypedSlicesExhausted, TypedPlaceSegment,
   TypedPlaceLightpath, TypedSliceRound, TypedBlock DEF HandleEvent

-----------------------------------------------------------------------------
(* The steps of the engine keep Typed. *)

\* The handler leaves the attributes of the engine alone.
LEMMA TypedControllerStep ==
    ASSUME Typed, ControllerStep
    PROVE  Typed'
<1>1. SdnTyped'
    BY TypedHandleEvent DEF Typed, TypeOK, SdnTyped, ControllerStep
<1>2. UNCHANGED <<iteration, arrived, departed, reqs_dict, reqs_status_dict, served>>
    BY DEF ControllerStep, engineVars
<1>3. EngineTypeOK' /\ RecordsTyped'
    BY <1>2 DEF Typed, TypeOK, EngineTypeOK, RecordsTyped
<1> QED
    BY <1>1, <1>3 DEF Typed, TypeOK, SdnTyped

\* A request arrives with the next id, a bandwidth of the table and the paths of its pair.
LEMMA TypedHandleArrival ==
    ASSUME Typed, HandleArrival
    PROVE  Typed'
<1>1. PICK sd \in DOMAIN Routes, bw \in Bandwidth :
        /\ StartArrival(arrived + 1, sd, bw)
        /\ reqs_dict' = Put(reqs_dict, arrived + 1, [endpoints |-> sd, bandwidth |-> bw])
    BY DEF HandleArrival
<1>2. /\ arrived < MaxReqs /\ arrived' = arrived + 1
      /\ UNCHANGED <<iteration, departed, reqs_status_dict, stats, served>>
    BY DEF HandleArrival, MoreArrivals
<1>3. arrived \in 0..MaxReqs /\ MaxReqs \in Nat
    BY ControllerAssumption DEF Typed, TypeOK, EngineTypeOK
<1>4. SdnTypeOK' /\ HandlerTyped'
    <2>1. /\ req_id' = arrived + 1 /\ bandwidth' = bw /\ segments' = <<>> /\ num_trans' = 1
          /\ pc' = "path"
          /\ frame' = [NoFrame EXCEPT !.routes = Routes[sd], !.path_index = 1]
          /\ UNCHANGED <<net, path_list, was_routed, is_sliced, block_reason>>
        BY <1>1 DEF StartArrival
    <2>2. frame' \in Frame /\ frame'.slices = {}
        <3>1. Routes[sd] \in Seq(Seq(Node))
            BY ControllerAssumption
        <3> QED
            BY <2>1, <3>1, NoFrameType DEF Frame
    <2>3. segments' \in Seq([bandwidth : Nat, window : WindowType])
        BY <2>1
    <2>4. SdnTypeOK'
        BY <1>2, <1>3, <2>1, <2>2, <2>3 DEF Typed, TypeOK, SdnTypeOK
    <2> QED
        BY <2>1, <2>2, <2>4 DEF HandlerTyped
<1>5. EngineTypeOK'
    <2>1. DOMAIN reqs_dict' = 1..arrived'
        BY <1>1, <1>2, <1>3 DEF Typed, TypeOK, EngineTypeOK, Put
    <2> QED
        BY <1>2, <1>3, <2>1 DEF Typed, TypeOK, EngineTypeOK
<1>6. RecordsTyped'
    BY <1>1, <1>2 DEF Typed, RecordsTyped, Put
<1> QED
    BY <1>4, <1>5, <1>6 DEF Typed, TypeOK

\* A blocked request is counted.
LEMMA TypedCountBlocked ==
    ASSUME Typed, CountBlocked
    PROVE  Typed'
<1>1. /\ pc = "returned" /\ pc' = "idle"
      /\ UNCHANGED <<net, req_id, bandwidth, path_list, was_routed, is_sliced, num_trans,
                     block_reason, segments, frame>>
      /\ UNCHANGED <<iteration, arrived, departed, reqs_dict, reqs_status_dict, served>>
    BY DEF CountBlocked
<1>2. SdnTypeOK' /\ HandlerTyped'
    BY <1>1 DEF Typed, TypeOK, SdnTypeOK, HandlerTyped
<1>3. EngineTypeOK' /\ RecordsTyped'
    BY <1>1 DEF Typed, TypeOK, EngineTypeOK, RecordsTyped
<1> QED
    BY <1>2, <1>3 DEF Typed, TypeOK

\* A routed request is counted and recorded with its path.
LEMMA TypedCountRouted ==
    ASSUME Typed, CountRouted, req_id \in 1..arrived
    PROVE  Typed'
<1>1. /\ pc = "returned" /\ pc' \in {"idle", "crashed"}
      /\ UNCHANGED <<net, req_id, bandwidth, path_list, was_routed, is_sliced, num_trans,
                     block_reason, segments, frame>>
      /\ UNCHANGED <<iteration, arrived, departed, reqs_dict>>
    BY DEF CountRouted
<1>2. SdnTypeOK' /\ HandlerTyped'
    BY <1>1 DEF Typed, TypeOK, SdnTypeOK, HandlerTyped
<1>3. CASE CanCount
    <2>1. /\ reqs_status_dict' = Put(reqs_status_dict, req_id,
                                     [path |-> path_list, segments |-> segments])
          /\ served' = served \union {req_id}
        BY <1>3 DEF CountRouted
    <2>2. req_id \in ReqId /\ path_list \in Seq(Node)
        BY ControllerAssumption DEF Typed, TypeOK, SdnTypeOK, EngineTypeOK, ReqId
    <2>3. EngineTypeOK'
        BY <1>1, <2>1, <2>2 DEF Typed, TypeOK, EngineTypeOK, Put
    <2>4. RecordsTyped'
        BY <1>1, <2>1, <2>2 DEF Typed, RecordsTyped, Put
    <2> QED
        BY <1>2, <2>3, <2>4 DEF Typed, TypeOK
<1>4. CASE ~CanCount
    <2>1. UNCHANGED <<reqs_status_dict, served>>
        BY <1>4 DEF CountRouted
    <2>2. EngineTypeOK' /\ RecordsTyped'
        BY <1>1, <2>1 DEF Typed, TypeOK, EngineTypeOK, RecordsTyped
    <2> QED
        BY <1>2, <2>2 DEF Typed, TypeOK
<1> QED
    BY <1>3, <1>4

\* A release walks a path that was recorded.
LEMMA TypedHandleRelease ==
    ASSUME Typed, NEW r \in ReqId, HandleRelease(r)
    PROVE  Typed'
<1>1. /\ r \in 1..arrived /\ pc = "idle" /\ departed' = departed \union {r}
      /\ UNCHANGED <<iteration, arrived, reqs_dict, reqs_status_dict, stats, served>>
    BY DEF HandleRelease
<1>2. reqs_dict[r].bandwidth \in Bandwidth
    BY <1>1 DEF Typed, TypeOK, EngineTypeOK, RecordsTyped
<1>3. /\ req_id' = r /\ bandwidth' = reqs_dict[r].bandwidth
      /\ UNCHANGED <<was_routed, is_sliced, block_reason, pc, frame>>
    BY DEF HandleRelease, ReleaseEvent
<1>4. /\ net' \in {net, Release(net, r, reqs_status_dict[r].path)}
      /\ segments' \in {<<>>, segments}
      /\ num_trans' \in {1, num_trans}
    BY DEF HandleRelease, ReleaseEvent
<1>5. path_list' \in Seq(Node)
    BY DEF HandleRelease, ReleaseEvent, Typed, TypeOK, SdnTypeOK, RecordsTyped
<1>6. net' \in [Cell -> Int]
    <2>1. net \in [Cell -> Int] /\ r \in Int
        BY ControllerAssumption DEF Typed, TypeOK, SdnTypeOK, ReqId
    <2> QED
        BY <1>4, <2>1, ReleaseType
<1>7. segments' \in Seq([bandwidth : Nat, window : WindowType])
    <2>1. <<>> \in Seq([bandwidth : Nat, window : WindowType])
        OBVIOUS
    <2>2. segments \in Seq([bandwidth : Nat, window : WindowType])
        BY DEF Typed, TypeOK, SdnTypeOK
    <2> QED
        BY <1>4, <2>1, <2>2
<1>8. SdnTypeOK'
    BY <1>2, <1>3, <1>4, <1>5, <1>6, <1>7, ControllerAssumption
       DEF Typed, TypeOK, SdnTypeOK, ReqId
<1>9. HandlerTyped'
    BY <1>1, <1>3 DEF Typed, HandlerTyped
<1>10. EngineTypeOK' /\ RecordsTyped'
    BY <1>1 DEF Typed, TypeOK, EngineTypeOK, RecordsTyped
<1> QED
    BY <1>8, <1>9, <1>10 DEF Typed, TypeOK

\* The next iteration starts with no requests.
LEMMA TypedNextIteration ==
    ASSUME Typed, NextIteration
    PROVE  Typed'
<1>1. /\ iteration + 1 < MaxIters /\ iteration' = iteration + 1
      /\ arrived' = 0 /\ departed' = {} /\ reqs_dict' = <<>> /\ served' = {}
      /\ UNCHANGED <<net, req_id, bandwidth, path_list, was_routed, is_sliced, num_trans,
                     block_reason, segments, pc, frame, reqs_status_dict>>
    BY DEF NextIteration, sdnVars
<1>2. SdnTypeOK' /\ HandlerTyped'
    BY <1>1 DEF Typed, TypeOK, SdnTypeOK, HandlerTyped
<1>3. EngineTypeOK' /\ RecordsTyped'
    <2>1. DOMAIN reqs_dict' = {} /\ 1..arrived' = {}
        BY <1>1
    <2>2. iteration' \in 0..(MaxIters - 1) /\ arrived' \in 0..MaxReqs
        BY <1>1, ControllerAssumption, EngineAssumption DEF Typed, TypeOK, EngineTypeOK
    <2> QED
        BY <1>1, <2>1, <2>2 DEF Typed, TypeOK, EngineTypeOK, RecordsTyped
<1> QED
    BY <1>2, <1>3 DEF Typed, TypeOK

\* The run ends.
LEMMA TypedFinish ==
    ASSUME Typed, Finish
    PROVE  Typed'
<1>1. /\ pc' = "done"
      /\ UNCHANGED <<net, req_id, bandwidth, path_list, was_routed, is_sliced, num_trans,
                     block_reason, segments, frame>>
      /\ UNCHANGED <<iteration, arrived, departed, reqs_dict, reqs_status_dict, served>>
    BY DEF Finish, engineVars
<1>2. SdnTypeOK' /\ HandlerTyped'
    BY <1>1 DEF Typed, TypeOK, SdnTypeOK, HandlerTyped
<1>3. EngineTypeOK' /\ RecordsTyped'
    BY <1>1 DEF Typed, TypeOK, EngineTypeOK, RecordsTyped
<1> QED
    BY <1>2, <1>3 DEF Typed, TypeOK

\* Nothing changes.
LEMMA TypedStutter ==
    ASSUME Typed, UNCHANGED vars
    PROVE  Typed'
<1>1. SdnTypeOK' /\ HandlerTyped'
    BY DEF vars, sdnVars, Typed, TypeOK, SdnTypeOK, HandlerTyped
<1>2. EngineTypeOK' /\ RecordsTyped'
    BY DEF vars, engineVars, Typed, TypeOK, EngineTypeOK, RecordsTyped
<1> QED
    BY <1>1, <1>2 DEF Typed, TypeOK

-----------------------------------------------------------------------------
(* Who owns the occupied slots.  The request in the handler is new: it was not  *)
(* counted as routed nor released.  What SlotsHaveOwners says of the holders is *)
(* split into the active requests and the new one, and _handle_dynamic_slicing,  *)
(* which gives back only what a lightpath was placed for, has placed none as     *)
(* long as all of the bandwidth remains.                                         *)

Handling == pc \notin {"idle", "done"}

HandlesNew == Handling => req_id \in 1..arrived /\ req_id \notin served /\ req_id \notin departed

OwnedByActive(x) ==
    \E r \in Active : net[x] \in {r, -r} /\ x[1] \in LinksOf(reqs_status_dict[r].path)

OwnedByNew(x) == net[x] \in {req_id, -req_id} /\ x[1] \in LinksOf(path_list)

SlotsOwned == \A x \in Cell : net[x] # 0 => OwnedByActive(x) \/ (InProgress /\ OwnedByNew(x))

NonePlaced == \A x \in Cell : net[x] # 0 => OwnedByActive(x)

OwnsInv ==
    /\ Typed
    /\ HandlesNew
    /\ served \subseteq DOMAIN reqs_status_dict
    /\ pc = "segments" => was_routed
    /\ pc = "lightpaths" => /\ frame.remaining <= bandwidth
                            /\ frame.remaining = bandwidth => NonePlaced
    /\ SlotsOwned

\* At the start no slot is taken.
LEMMA OwnsInit == Init => OwnsInv
<1> SUFFICES ASSUME Init PROVE OwnsInv
    OBVIOUS
<1>1. Typed
    BY TypedInit
<1>2. pc = "idle" /\ served = {} /\ \A x \in Cell : net[x] = 0
    BY DEF Init, InitController, EmptyNet
<1> QED
    BY <1>1, <1>2 DEF OwnsInv, HandlesNew, Handling, SlotsOwned

\* The two ways of naming the owners agree.
LEMMA OwnersAgree == OwnsInv => SlotsHaveOwners
<1> SUFFICES ASSUME OwnsInv, NEW x \in Cell, net[x] # 0
             PROVE  \E r \in Holders : net[x] \in {r, -r} /\ x[1] \in LinksOf(PathOf(r))
    BY DEF SlotsHaveOwners
<1>1. InProgress => req_id \notin Active
    BY DEF OwnsInv, HandlesNew, Handling, InProgress, Active
<1>2. CASE OwnedByActive(x)
    <2>1. PICK r \in Active : net[x] \in {r, -r} /\ x[1] \in LinksOf(reqs_status_dict[r].path)
        BY <1>2 DEF OwnedByActive
    <2>2. r \in Holders /\ PathOf(r) = reqs_status_dict[r].path
        BY <1>1 DEF Holders, PathOf
    <2> QED
        BY <2>1, <2>2
<1>3. CASE InProgress /\ OwnedByNew(x)
    BY <1>3 DEF OwnedByNew, Holders, PathOf
<1> QED
    BY <1>2, <1>3 DEF OwnsInv, SlotsOwned

\* The cells a step changes were free or owned by the request it is about, and are so after it.
TouchesOnly(id) ==
    \A x \in Cell : net'[x] # net[x] => net[x] \in {0, id, -id} /\ net'[x] \in {0, id, -id}

\* allocate for the new request: what is new on the spectrum is its own, on the path it tries.
LEMMA AllocateStep ==
    ASSUME NEW path, NEW spec, NEW x \in Cell,
           \/ net' = net
           \/ CanAllocate(net, path, spec) /\ net' = Allocate(net, req_id, path, spec)
    PROVE  \/ net'[x] = net[x]
           \/ net[x] = 0 /\ net'[x] \in {req_id, -req_id} /\ x[1] \in LinksOf(path)
BY AllocateCell

\* An active request keeps a cell that is not changed.
LEMMA ActiveKeeps ==
    ASSUME NEW x \in Cell, OwnedByActive(x), net'[x] = net[x],
           UNCHANGED <<served, departed, reqs_status_dict>>
    PROVE  OwnedByActive(x)'
BY DEF OwnedByActive, Active

\* Between two attempts the new request owns nothing.
LEMMA NonePlacedAtPath ==
    ASSUME OwnsInv, pc \in {"path", "slices"}
    PROVE  NonePlaced
BY DEF OwnsInv, SlotsOwned, NonePlaced, InProgress

\* A step that writes no slot leaves all of them to the active requests.
LEMMA QuietStep ==
    ASSUME NonePlaced, net' = net, UNCHANGED <<served, departed, reqs_status_dict>>
    PROVE  NonePlaced' /\ TouchesOnly(req_id)
<1>1. ASSUME NEW x \in Cell, net'[x] # 0
      PROVE  OwnedByActive(x)'
    <2>1. OwnedByActive(x)
        BY <1>1 DEF NonePlaced
    <2> QED
        BY <2>1, ActiveKeeps
<1> QED
    BY <1>1 DEF NonePlaced, TouchesOnly

\* release of a failed attempt: all the new request owned is free again, the rest is kept.
LEMMA GiveBackStep ==
    ASSUME OwnsInv, net' = GiveBack, UNCHANGED <<served, departed, reqs_status_dict>>
    PROVE  NonePlaced' /\ TouchesOnly(req_id)
<1>1. ASSUME NEW x \in Cell
      PROVE  net'[x] # net[x] => net[x] \in {req_id, -req_id} /\ net'[x] = 0
    BY ReleaseCell DEF GiveBack
<1>2. ASSUME NEW x \in Cell, net'[x] # 0
      PROVE  OwnedByActive(x)'
    <2>1. net'[x] = net[x] /\ ~OwnedByNew(x)
        BY <1>2, ReleaseCell DEF GiveBack, OwnedByNew
    <2>2. OwnedByActive(x)
        BY <1>2, <2>1 DEF OwnsInv, SlotsOwned
    <2> QED
        BY <2>1, <2>2, ActiveKeeps
<1> QED
    BY <1>1, <1>2 DEF NonePlaced, TouchesOnly

\* One more window for the new request, on the only path it has slots on.
LEMMA PlacingStep ==
    ASSUME OwnsInv, NEW spec,
           \/ net' = net
           \/ CanAllocate(net, path_list', spec) /\ net' = Allocate(net, req_id, path_list', spec),
           req_id' = req_id, InProgress => path_list' = path_list, InProgress',
           UNCHANGED <<served, departed, reqs_status_dict>>
    PROVE  SlotsOwned' /\ TouchesOnly(req_id)
<1>1. ASSUME NEW x \in Cell
      PROVE  \/ net'[x] = net[x]
             \/ net[x] = 0 /\ net'[x] \in {req_id, -req_id} /\ x[1] \in LinksOf(path_list')
    BY AllocateStep
<1>2. ASSUME NEW x \in Cell, net'[x] # 0
      PROVE  OwnedByActive(x)' \/ OwnedByNew(x)'
    <2>1. CASE net'[x] = net[x]
        <3>1. OwnedByActive(x) \/ (InProgress /\ OwnedByNew(x))
            BY <1>2, <2>1 DEF OwnsInv, SlotsOwned
        <3>2. CASE OwnedByActive(x)
            BY <2>1, <3>2, ActiveKeeps
        <3>3. CASE InProgress /\ OwnedByNew(x)
            BY <2>1, <3>3 DEF OwnedByNew
        <3> QED
            BY <3>1, <3>2, <3>3
    <2>2. CASE net'[x] # net[x]
        BY <1>1, <2>2 DEF OwnedByNew
    <2> QED
        BY <2>1, <2>2
<1>3. TouchesOnly(req_id)
    BY <1>1 DEF TouchesOnly
<1> QED
    BY <1>2, <1>3 DEF SlotsOwned

-----------------------------------------------------------------------------
(* The steps of the handler keep the owners. *)

OwnsHandler ==
    /\ HandlesNew
    /\ pc = "segments" => was_routed
    /\ pc = "lightpaths" => /\ frame.remaining <= bandwidth
                            /\ frame.remaining = bandwidth => NonePlaced
    /\ SlotsOwned

\* A whole request is placed on the path it tries, or not at all.
LEMMA OwnsTryWhole ==
    ASSUME OwnsInv, TryWhole, UNCHANGED engineVars
    PROVE  OwnsHandler' /\ TouchesOnly(req_id)
<1>1. /\ pc = "path" /\ path_list' = Path /\ req_id' = req_id
      /\ UNCHANGED <<arrived, served, departed, reqs_status_dict>>
    BY DEF TryWhole, AtPath, engineVars
<1>2. PICK found \in Outcomes(Path, ModFormats(Path, bandwidth), SlotsOfWhole) :
         \/ net' = net /\ pc' = pc
         \/ /\ was_routed' = TRUE
            /\ IF CanAllocate(net, Path, found.window)
               THEN pc' = "returned" /\ net' = Allocate(net, req_id, Path, found.window)
               ELSE pc' = "crashed"  /\ net' = net
    BY DEF TryWhole
<1>3. HandlesNew'
    BY <1>1, <1>2 DEF OwnsInv, HandlesNew, Handling
<1>4. CASE net' = net /\ pc' = pc
    <2>1. NonePlaced' /\ TouchesOnly(req_id)
        BY <1>1, <1>4, NonePlacedAtPath, QuietStep
    <2> QED
        BY <1>1, <1>3, <1>4, <2>1 DEF OwnsHandler, NonePlaced, SlotsOwned
<1>5. CASE /\ was_routed' = TRUE
           /\ IF CanAllocate(net, Path, found.window)
              THEN pc' = "returned" /\ net' = Allocate(net, req_id, Path, found.window)
              ELSE pc' = "crashed"  /\ net' = net
    <2>1. ~InProgress /\ InProgress'
        BY <1>1, <1>5 DEF InProgress
    <2>2. SlotsOwned' /\ TouchesOnly(req_id)
        BY <1>1, <1>5, <2>1, PlacingStep
    <2> QED
        BY <1>3, <1>5, <2>2 DEF OwnsHandler
<1> QED
    BY <1>2, <1>4, <1>5

\* The steps between two attempts.
LEMMA OwnsQuiet ==
    ASSUME OwnsInv, UNCHANGED engineVars, pc \in {"path", "slices"}, net' = net, req_id' = req_id,
           Handling', pc' = "segments" => was_routed',
           pc' = "lightpaths" => frame'.remaining <= bandwidth'
    PROVE  OwnsHandler' /\ TouchesOnly(req_id)
<1>1. NonePlaced' /\ TouchesOnly(req_id)
    BY NonePlacedAtPath, QuietStep DEF engineVars
<1>2. HandlesNew'
    BY DEF OwnsInv, HandlesNew, Handling, engineVars
<1> QED
    BY <1>1, <1>2 DEF OwnsHandler, NonePlaced, SlotsOwned

\* Slicing starts with nothing placed and all of the bandwidth remaining.
LEMMA OwnsTrySliced ==
    ASSUME OwnsInv, TrySliced, UNCHANGED engineVars
    PROVE  OwnsHandler' /\ TouchesOnly(req_id)
<1>1. /\ pc = "path" /\ net' = net /\ req_id' = req_id /\ bandwidth' = bandwidth
      /\ pc' = IF ~DynamicLps THEN "slices" ELSE IF FixedGrid THEN "lightpaths" ELSE "crashed"
    BY DEF TrySliced, AtPath
<1>2. frame'.remaining = IF DynamicLps THEN bandwidth ELSE 0
    BY DEF TrySliced, OwnsInv, Typed, TypeOK, SdnTypeOK, Frame
<1>3. pc' = "lightpaths" => frame'.remaining <= bandwidth'
    <2>1. bandwidth \in Int
        BY RoutingAssumption DEF OwnsInv, Typed, TypeOK, SdnTypeOK
    <2> QED
        BY <1>1, <1>2, <2>1
<1> QED
    BY <1>1, <1>3, OwnsQuiet DEF Handling

\* The loop over the slice bandwidths and the second round write no slot.
LEMMA OwnsSlices ==
    ASSUME OwnsInv, UNCHANGED engineVars,
           \/ \E b \in frame.slices : TooManySegments(b) \/ SkipSlice(b) \/ StartSlice(b)
           \/ SlicesExhausted
           \/ SliceRound
    PROVE  OwnsHandler' /\ TouchesOnly(req_id)
<1>1. /\ pc \in {"path", "slices"} /\ net' = net /\ req_id' = req_id
      /\ pc' \in {"path", "slices", "segments", "returned"}
      /\ pc' = "segments" => was_routed'
    BY DEF TooManySegments, SkipSlice, StartSlice, SlicesExhausted, SliceRound
<1> QED
    BY <1>1, OwnsQuiet DEF Handling

\* A request is blocked with nothing placed.
LEMMA OwnsBlock ==
    ASSUME OwnsInv, UNCHANGED engineVars, Block
    PROVE  OwnsHandler' /\ TouchesOnly(req_id)
<1>1. pc = "path" /\ net' = net /\ req_id' = req_id /\ pc' = "returned"
    BY DEF Block
<1> QED
    BY <1>1, OwnsQuiet DEF Handling

\* A segment joins the ones before it on the same path, or all of them are given back.
LEMMA OwnsPlaceSegment ==
    ASSUME OwnsInv, UNCHANGED engineVars, PlaceSegment
    PROVE  OwnsHandler' /\ TouchesOnly(req_id)
<1>1. /\ pc = "segments" /\ was_routed /\ UNCHANGED <<req_id, bandwidth, path_list>>
      /\ UNCHANGED <<arrived, served, departed, reqs_status_dict>>
    BY DEF PlaceSegment, OwnsInv, engineVars
<1>2. PICK found \in Outcomes(path_list, <<GetPathMod(ModPerBw[frame.slice], FindPathLen(path_list))>>,
                              SlotsOfSlice) :
         \/ net' = GiveBack /\ pc' = "slices"
         \/ /\ IF CanAllocate(net, path_list, found.window)
               THEN /\ net' = Allocate(net, req_id, path_list, found.window)
                    /\ pc' = IF LastSegment THEN "returned" ELSE "segments"
               ELSE net' = net /\ pc' = "crashed"
            /\ was_routed' = was_routed
    BY DEF PlaceSegment
<1>3. HandlesNew'
    BY <1>1, <1>2 DEF OwnsInv, HandlesNew, Handling
<1>4. CASE net' = GiveBack /\ pc' = "slices"
    <2>1. NonePlaced' /\ TouchesOnly(req_id)
        BY <1>1, <1>4, GiveBackStep
    <2> QED
        BY <1>3, <1>4, <2>1 DEF OwnsHandler, NonePlaced, SlotsOwned
<1>5. CASE /\ IF CanAllocate(net, path_list, found.window)
              THEN /\ net' = Allocate(net, req_id, path_list, found.window)
                   /\ pc' = IF LastSegment THEN "returned" ELSE "segments"
              ELSE net' = net /\ pc' = "crashed"
           /\ was_routed' = was_routed
    <2>1. was_routed' /\ pc' \in {"returned", "segments", "crashed"}
        BY <1>1, <1>5
    <2>2. InProgress'
        BY <2>1 DEF InProgress
    <2>3. SlotsOwned' /\ TouchesOnly(req_id)
        BY <1>1, <1>5, <2>2, PlacingStep
    <2> QED
        BY <1>3, <2>1, <2>3 DEF OwnsHandler
<1> QED
    BY <1>2, <1>4, <1>5

\* A lightpath joins the ones before it, or all of them, if any, are given back.
LEMMA OwnsPlaceLightpath ==
    ASSUME OwnsInv, UNCHANGED engineVars, PlaceLightpath
    PROVE  OwnsHandler' /\ TouchesOnly(req_id)
<1> DEFINE w == Assigned(net, Search(path_list, 1))
           ok == CanAllocate(net, path_list, w)
<1>1. /\ pc = "lightpaths" /\ UNCHANGED <<req_id, bandwidth, path_list>>
      /\ UNCHANGED <<arrived, served, departed, reqs_status_dict>>
    BY DEF PlaceLightpath, engineVars
<1>2. PICK supported \in SnrBandwidths :
             \/ /\ net' = IF frame.remaining # bandwidth THEN GiveBack ELSE net
                /\ pc' = "path"
             \/ /\ supported # 0
                /\ net' = IF ok THEN Allocate(net, req_id, path_list, w) ELSE net
                /\ pc' = IF ~ok THEN "crashed"
                         ELSE IF Left(supported) > 0 THEN "lightpaths" ELSE "returned"
                /\ frame' = IF Left(supported) > 0 THEN [frame EXCEPT !.remaining = Left(supported)]
                            ELSE NoFrame
                /\ was_routed' = TRUE
    BY DEF PlaceLightpath, FindsLightpath
<1>3. HandlesNew'
    BY <1>1, <1>2 DEF OwnsInv, HandlesNew, Handling
<1>4. CASE /\ net' = IF frame.remaining # bandwidth THEN GiveBack ELSE net
           /\ pc' = "path"
    <2>1. NonePlaced' /\ TouchesOnly(req_id)
        <3>1. CASE frame.remaining # bandwidth
            BY <1>1, <1>4, <3>1, GiveBackStep
        <3>2. CASE frame.remaining = bandwidth
            <4>1. NonePlaced
                BY <1>1, <3>2 DEF OwnsInv
            <4> QED
                BY <1>1, <1>4, <3>2, <4>1, QuietStep
        <3> QED
            BY <3>1, <3>2
    <2> QED
        BY <1>3, <1>4, <2>1 DEF OwnsHandler, NonePlaced, SlotsOwned
<1>5. CASE /\ supported # 0
           /\ net' = IF ok THEN Allocate(net, req_id, path_list, w) ELSE net
           /\ pc' = IF ~ok THEN "crashed"
                    ELSE IF Left(supported) > 0 THEN "lightpaths" ELSE "returned"
           /\ frame' = IF Left(supported) > 0 THEN [frame EXCEPT !.remaining = Left(supported)]
                       ELSE NoFrame
           /\ was_routed' = TRUE
    <2>1. pc' \in {"crashed", "lightpaths", "returned"} /\ was_routed'
        BY <1>5
    <2>2. InProgress'
        BY <2>1 DEF InProgress
    <2>3. SlotsOwned' /\ TouchesOnly(req_id)
        BY <1>1, <1>5, <2>2, PlacingStep
    <2>4. pc' = "lightpaths" => frame'.remaining <= bandwidth' /\ frame'.remaining # bandwidth'
        <3> SUFFICES ASSUME pc' = "lightpaths"
                     PROVE  frame'.remaining <= bandwidth' /\ frame'.remaining # bandwidth'
            OBVIOUS
        <3>1. Left(supported) > 0
            BY <1>5
        <3>2. frame'.remaining = Left(supported)
            BY <1>5, <3>1 DEF OwnsInv, Typed, TypeOK, SdnTypeOK, Frame
        <3>3. /\ frame.remaining \in Int /\ bandwidth \in Int /\ frame.remaining <= bandwidth
              /\ supported \in Nat /\ supported # 0
            BY <1>1, <1>5, RoutingAssumption, ControllerAssumption
               DEF OwnsInv, Typed, TypeOK, SdnTypeOK, Frame
        <3> QED
            BY <1>1, <3>2, <3>3 DEF Left
    <2> QED
        BY <1>3, <2>1, <2>3, <2>4 DEF OwnsHandler
<1> QED
    BY <1>2, <1>4, <1>5

\* All steps of the handler.
LEMMA OwnsHandleEvent ==
    ASSUME OwnsInv, UNCHANGED engineVars, HandleEvent
    PROVE  OwnsHandler' /\ TouchesOnly(req_id)
BY OwnsTryWhole, OwnsTrySliced, OwnsSlices, OwnsPlaceSegment, OwnsPlaceLightpath, OwnsBlock
   DEF HandleEvent

-----------------------------------------------------------------------------
(* Every step keeps the owners, and touches only the slots of a request that is *)
(* not active before and after it.                                              *)

Disturbs == TouchesOnly(req_id') /\ (net' = net \/ req_id' \notin Active \intersect Active')

\* The handler works for a request that is not active.
LEMMA OwnsControllerStep ==
    ASSUME OwnsInv, ControllerStep
    PROVE  OwnsInv' /\ Disturbs
<1>1. Typed' /\ UNCHANGED engineVars /\ HandleEvent
    BY TypedControllerStep DEF OwnsInv, ControllerStep
<1>2. OwnsHandler' /\ TouchesOnly(req_id)
    BY <1>1, OwnsHandleEvent
<1>3. Handling /\ req_id' = req_id
    BY <1>1 DEF HandleEvent, TryWhole, TrySliced, AtPath, TooManySegments, SkipSlice, StartSlice,
                SlicesExhausted, PlaceSegment, PlaceLightpath, SliceRound, Block, Handling
<1>4. req_id \notin Active
    BY <1>3 DEF OwnsInv, HandlesNew, Active
<1> QED
    BY <1>1, <1>2, <1>3, <1>4 DEF OwnsInv, OwnsHandler, Disturbs, engineVars

\* Slots of active requests stay theirs when nothing is written.
LEMMA OwnsIdleStep ==
    ASSUME OwnsInv, NonePlaced, net' = net, ~InProgress', UNCHANGED <<served, departed, reqs_status_dict>>
    PROVE  SlotsOwned'
<1>1. ASSUME NEW x \in Cell, net'[x] # 0
      PROVE  OwnedByActive(x)'
    <2>1. OwnedByActive(x)
        BY <1>1 DEF NonePlaced
    <2> QED
        BY <2>1, ActiveKeeps
<1> QED
    BY <1>1 DEF SlotsOwned

\* The id of the request that arrives is not in use.
LEMMA OwnsHandleArrival ==
    ASSUME OwnsInv, HandleArrival
    PROVE  OwnsInv' /\ Disturbs
<1>1. /\ pc = "idle" /\ pc' = "path" /\ net' = net
      /\ req_id' = arrived + 1 /\ arrived' = arrived + 1
      /\ UNCHANGED <<served, departed, reqs_status_dict>>
    BY DEF HandleArrival, StartArrival
<1>2. Typed'
    BY TypedHandleArrival DEF OwnsInv
<1>3. HandlesNew'
    <2>1. arrived \in Nat /\ served \subseteq 1..arrived /\ departed \subseteq 1..arrived
        BY ControllerAssumption DEF OwnsInv, Typed, TypeOK, EngineTypeOK
    <2> QED
        BY <1>1, <2>1 DEF HandlesNew
<1>4. SlotsOwned'
    <2>1. NonePlaced /\ ~InProgress'
        BY <1>1 DEF OwnsInv, SlotsOwned, NonePlaced, InProgress
    <2> QED
        BY <1>1, <2>1, OwnsIdleStep
<1> QED
    BY <1>1, <1>2, <1>3, <1>4 DEF OwnsInv, Disturbs, TouchesOnly

\* A blocked request leaves no slot behind.
LEMMA OwnsCountBlocked ==
    ASSUME OwnsInv, CountBlocked
    PROVE  OwnsInv' /\ Disturbs
<1>1. /\ pc = "returned" /\ ~was_routed /\ pc' = "idle" /\ net' = net
      /\ UNCHANGED <<served, departed, reqs_status_dict>>
    BY DEF CountBlocked
<1>2. Typed'
    BY TypedCountBlocked DEF OwnsInv
<1>3. SlotsOwned'
    <2>1. NonePlaced /\ ~InProgress'
        BY <1>1 DEF OwnsInv, SlotsOwned, NonePlaced, InProgress
    <2> QED
        BY <1>1, <2>1, OwnsIdleStep
<1> QED
    BY <1>1, <1>2, <1>3 DEF OwnsInv, HandlesNew, Handling, Disturbs, TouchesOnly

\* The new request becomes an active one, with the path its slots lie on.
LEMMA OwnsCountRouted ==
    ASSUME OwnsInv, CountRouted
    PROVE  OwnsInv' /\ Disturbs
<1>1. /\ pc = "returned" /\ was_routed /\ pc' = (IF CanCount THEN "idle" ELSE "crashed")
      /\ UNCHANGED <<net, req_id, bandwidth, path_list, was_routed, frame, arrived, departed>>
    BY DEF CountRouted
<1>2. req_id \in 1..arrived /\ req_id \notin served /\ req_id \notin departed
    BY <1>1 DEF OwnsInv, HandlesNew, Handling
<1>3. Typed'
    BY <1>2, TypedCountRouted DEF OwnsInv
<1>4. Disturbs
    BY <1>1 DEF Disturbs, TouchesOnly
<1>5. CASE CanCount
    <2>1. /\ pc' = "idle"
          /\ reqs_status_dict' = Put(reqs_status_dict, req_id,
                                     [path |-> path_list, segments |-> segments])
          /\ served' = served \union {req_id}
        BY <1>1, <1>5 DEF CountRouted
    <2>2. served' \subseteq DOMAIN reqs_status_dict'
        BY <2>1 DEF OwnsInv, Put
    <2>3. Active' = Active \union {req_id}
        BY <1>1, <1>2, <2>1 DEF Active
    <2>4. reqs_status_dict'[req_id].path = path_list
        BY <2>1 DEF Put
    <2>5. \A r \in Active : reqs_status_dict'[r] = reqs_status_dict[r]
        BY <1>2, <2>1 DEF OwnsInv, Active, Put
    <2>6. ASSUME NEW x \in Cell, net'[x] # 0
          PROVE  OwnedByActive(x)'
        <3>1. OwnedByActive(x) \/ OwnedByNew(x)
            BY <1>1, <2>6 DEF OwnsInv, SlotsOwned
        <3>2. CASE OwnedByActive(x)
            BY <1>1, <2>3, <2>5, <3>2 DEF OwnedByActive
        <3>3. CASE OwnedByNew(x)
            BY <1>1, <2>3, <2>4, <3>3 DEF OwnedByActive, OwnedByNew
        <3> QED
            BY <3>1, <3>2, <3>3
    <2> QED
        BY <1>3, <1>4, <2>1, <2>2, <2>6 DEF OwnsInv, HandlesNew, Handling, SlotsOwned
<1>6. CASE ~CanCount
    <2>1. pc' = "crashed" /\ UNCHANGED <<served, reqs_status_dict>>
        BY <1>1, <1>6 DEF CountRouted
    <2>2. ASSUME NEW x \in Cell, net'[x] # 0
          PROVE  OwnedByActive(x)' \/ OwnedByNew(x)'
        <3>1. OwnedByActive(x) \/ OwnedByNew(x)
            BY <1>1, <2>2 DEF OwnsInv, SlotsOwned
        <3> QED
            BY <1>1, <2>1, <3>1 DEF OwnedByActive, OwnedByNew, Active
    <2> QED
        BY <1>1, <1>2, <1>3, <1>4, <2>1, <2>2
           DEF OwnsInv, HandlesNew, Handling, SlotsOwned, InProgress
<1> QED
    BY <1>5, <1>6

\* The leaving request's slots lie on the path release walks, or it never held any.
LEMMA OwnsHandleRelease ==
    ASSUME OwnsInv, NEW r \in ReqId, HandleRelease(r)
    PROVE  OwnsInv' /\ Disturbs
<1>1. /\ pc = "idle" /\ pc' = "idle" /\ req_id' = r /\ departed' = departed \union {r}
      /\ UNCHANGED <<served, reqs_status_dict>>
      /\ net' = IF r \in DOMAIN reqs_status_dict THEN Release(net, r, reqs_status_dict[r].path)
                                                 ELSE net
    BY DEF HandleRelease, ReleaseEvent
<1>2. Typed'
    BY TypedHandleRelease DEF OwnsInv
<1>3. ASSUME NEW x \in Cell
      PROVE  net'[x] # net[x] => net[x] \in {r, -r} /\ net'[x] = 0
    BY <1>1, ReleaseCell
<1>4. ASSUME NEW x \in Cell, net'[x] # 0
      PROVE  OwnedByActive(x)'
    <2>1. net'[x] = net[x]
        BY <1>3, <1>4
    <2>2. PICK q \in Active : net[x] \in {q, -q} /\ x[1] \in LinksOf(reqs_status_dict[q].path)
        BY <1>1, <1>4, <2>1 DEF OwnsInv, SlotsOwned, InProgress, OwnedByActive
    <2>3. q # r
        BY <1>1, <1>4, <2>1, <2>2, ReleaseCell DEF OwnsInv, Active
    <2> QED
        BY <1>1, <2>1, <2>2, <2>3 DEF OwnedByActive, Active
<1>5. r \notin Active'
    BY <1>1 DEF Active
<1> QED
    BY <1>1, <1>2, <1>3, <1>4, <1>5
       DEF OwnsInv, HandlesNew, Handling, SlotsOwned, Disturbs, TouchesOnly

\* When the iteration is over nobody is active any more, so no slot is taken.
LEMMA OverIsEmpty ==
    ASSUME OwnsInv, IterationOver
    PROVE  Active = {} /\ \A x \in Cell : net[x] = 0
<1>1. Active = {}
    BY DEF OwnsInv, Typed, TypeOK, EngineTypeOK, IterationOver, Active, ReqId
<1> QED
    BY <1>1 DEF OwnsInv, SlotsOwned, OwnedByActive, InProgress, IterationOver

\* The ids start again on an empty spectrum.
LEMMA OwnsNextIteration ==
    ASSUME OwnsInv, NextIteration
    PROVE  OwnsInv' /\ Disturbs
<1>1. IterationOver /\ net' = net /\ pc' = pc /\ served' = {}
    BY DEF NextIteration, sdnVars
<1>2. Typed'
    BY TypedNextIteration DEF OwnsInv
<1> QED
    BY <1>1, <1>2, OverIsEmpty
       DEF OwnsInv, HandlesNew, Handling, SlotsOwned, IterationOver, Disturbs, TouchesOnly

\* The run ends on an empty spectrum.
LEMMA OwnsFinish ==
    ASSUME OwnsInv, Finish
    PROVE  OwnsInv' /\ Disturbs
<1>1. /\ IterationOver /\ net' = net /\ pc' = "done"
      /\ UNCHANGED <<served, reqs_status_dict>>
    BY DEF Finish, engineVars
<1>2. Typed'
    BY TypedFinish DEF OwnsInv
<1> QED
    BY <1>1, <1>2, OverIsEmpty
       DEF OwnsInv, HandlesNew, Handling, SlotsOwned, Disturbs, TouchesOnly

\* Nothing changes.
LEMMA OwnsStutter ==
    ASSUME OwnsInv, UNCHANGED vars
    PROVE  OwnsInv' /\ Disturbs
<1>1. Typed'
    BY TypedStutter DEF OwnsInv
<1>2. UNCHANGED <<net, req_id, bandwidth, path_list, was_routed, pc, frame>>
    BY DEF vars, sdnVars
<1>3. UNCHANGED <<arrived, served, departed, reqs_status_dict>>
    BY DEF vars, engineVars
<1> QED
    BY <1>1, <1>2, <1>3
       DEF OwnsInv, HandlesNew, Handling, SlotsOwned, NonePlaced, OwnedByActive, OwnedByNew,
           InProgress, Active, Disturbs, TouchesOnly

\* All steps of the run.
LEMMA OwnsNext ==
    ASSUME OwnsInv, [Next]_vars
    PROVE  OwnsInv' /\ Disturbs
BY OwnsControllerStep, OwnsHandleArrival, OwnsCountBlocked, OwnsCountRouted, OwnsHandleRelease,
   OwnsNextIteration, OwnsFinish, OwnsStutter DEF Next, Ended

\* No step changes a slot of a request that is active before and after it.
LEMMA ActiveSlotsKept ==
    ASSUME OwnsInv, [Next]_vars
    PROVE  \A r \in Active \intersect Active' : \A x \in Cell :
              net[x] \in {r, -r} \/ net'[x] \in {r, -r} => net'[x] = net[x]
<1> SUFFICES ASSUME NEW r \in Active \intersect Active', NEW x \in Cell,
                    net[x] \in {r, -r} \/ net'[x] \in {r, -r}, net'[x] # net[x]
             PROVE  FALSE
    OBVIOUS
<1>1. OwnsInv' /\ Disturbs
    BY OwnsNext
<1>2. /\ net[x] \in {0, req_id', -req_id'} /\ net'[x] \in {0, req_id', -req_id'}
      /\ r # req_id'
    BY <1>1 DEF Disturbs, TouchesOnly
<1>3. r \in Int /\ r >= 1
    BY ControllerAssumption DEF OwnsInv, Typed, TypeOK, EngineTypeOK, Active
<1>4. req_id' \in Int /\ req_id' >= 0
    BY <1>1, ControllerAssumption DEF OwnsInv, Typed, TypeOK, SdnTypeOK
<1> QED
    BY <1>2, <1>3, <1>4

\* OwnsInv is an invariant of the run.
LEMMA OwnsAlways == Spec => []OwnsInv
BY OwnsInit, OwnsNext, PTL DEF Spec

-----------------------------------------------------------------------------
\* Every attribute of the controller and the engine holds a value of its type: a window
\* the search assigned lies in a band and core that exist, and no segment count, path
\* index or remaining bandwidth of the handler leaves its range.
THEOREM TypesHold == Spec => []TypeOK
<1>1. OwnsInv => TypeOK
    BY DEF OwnsInv, Typed
<1> QED
    BY <1>1, OwnsAlways, PTL

\* In every reachable state, an occupied slot belongs to an active request or the one in
\* the handler and lies on the path its release will walk: _handle_slicing, the dynamic
\* slicing, the blocking and the releases of handle_event leak no slot.
THEOREM SlotsAreOwned == Spec => []SlotsHaveOwners
BY OwnsAlways, OwnersAgree, PTL

\* When the last request of an iteration has left, create_topology need not be called
\* again: net_spec_dict is all zeros.
THEOREM NothingIsLeft == Spec => []IterationsEndEmpty
<1>1. OwnsInv => IterationsEndEmpty
    <2> SUFFICES ASSUME OwnsInv, IterationOver PROVE net = EmptyNet
        BY DEF IterationsEndEmpty
    <2>1. net \in [Cell -> Int]
        BY DEF OwnsInv, Typed, TypeOK, SdnTypeOK
    <2> QED
        BY <2>1, OverIsEmpty DEF EmptyNet
<1> QED
    BY <1>1, OwnsAlways, PTL

\* No step of the run, be it an allocation, a rollback, a retry or another release, changes
\* a slot an active request holds, or gives it one more.
THEOREM HeldSlotsAreKept == Spec => HeldUntilRelease
<1> DEFINE Kept == \A r \in Active \intersect Active' : \A x \in Cell :
                     net[x] \in {r, -r} \/ net'[x] \in {r, -r} => net'[x] = net[x]
<1>1. OwnsInv /\ [Next]_vars => [Kept]_vars
    BY ActiveSlotsKept
<1> QED
    BY <1>1, OwnsAlways, PTL DEF Spec, HeldUntilRelease
=============================================================================
