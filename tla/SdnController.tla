--------------------------- MODULE SdnController ----------------------------
(***************************************************************************)
(* SDNController.handle_event for an arrival: the walk over the routes of a *)
(* request, first whole and then sliced, and the release of a request.      *)
(*                                                                          *)
(* A handler is a sequence of steps: one for each path it tries, one for    *)
(* each slice bandwidth _handle_slicing considers, one for each segment.     *)
(* Attributes of sdn_props are variables of the same name, and keep what the *)
(* last request left in them as the object does; the locals of the handler   *)
(* are the fields of frame.  The six parallel stat lists and bandwidth_list  *)
(* are one sequence of segments: the code always appends to all of them.     *)
(*                                                                          *)
(* An exception ends the run (pc is "crashed"): what the handler had written  *)
(* or had still to write then is not told apart.                             *)
(***************************************************************************)
EXTENDS SpectrumAssignment, Routing

CONSTANTS
    Routes,        \* paths_matrix of get_route for each <<source, destination>>
    MaxSegments,   \* engine_props['max_segments']
    DynamicLps,    \* engine_props['dynamic_lps']
    FixedGrid,     \* engine_props['fixed_grid']
    SnrChecked,    \* whether engine_props['snr_type'] names a check
    SnrBandwidths, \* bandwidths check_snr_ext_slicing may support, 0 for none
    Predictions,   \* forced_segments an ML model may predict; -1 is no model
    MaxReqs        \* request ids are 1..MaxReqs

ASSUME ControllerAssumption ==
    /\ DOMAIN Routes \subseteq Node \X Node
    /\ \A sd \in DOMAIN Routes : \A i \in DOMAIN Routes[sd] : IsPath(Routes[sd][i])
    /\ \A sd \in DOMAIN Routes : Routes[sd] \in Seq(Seq(Node))
    /\ MaxSegments \in Nat \ {0}
    /\ {DynamicLps, FixedGrid, SnrChecked} \subseteq BOOLEAN
    /\ SnrBandwidths \subseteq Nat
    /\ Predictions \subseteq Int /\ Predictions # {}
    /\ MaxReqs \in Nat \ {0}

VARIABLES
    net,          \* net_spec_dict
    req_id, bandwidth, path_list, was_routed, is_sliced, num_trans, block_reason,
    segments,     \* bandwidth_list with core_list, band_list, start and end_slot_list
    pc,           \* where the handler is
    frame         \* its locals, NoFrame outside it

sdnVars == <<net, req_id, bandwidth, path_list, was_routed, is_sliced, num_trans,
             block_reason, segments, pc, frame>>

ReqId == 1..MaxReqs
Reason == {"None", "distance", "congestion", "max_segments"}

NoFrame == [routes |-> <<>>, path_index |-> 0, segment_slicing |-> FALSE,
            force_slicing |-> FALSE, forced_segments |-> -1,
            slices |-> {}, slice |-> 0, remaining |-> 0]

InitController ==
    /\ net = EmptyNet                     \* create_topology
    /\ req_id = 0
    /\ bandwidth = 0
    /\ path_list = <<>>
    /\ was_routed = FALSE                 \* None, only ever tested as a condition
    /\ is_sliced = FALSE
    /\ num_trans = 0
    /\ block_reason = "None"
    /\ segments = <<>>
    /\ pc = "idle"
    /\ frame = NoFrame

-----------------------------------------------------------------------------
(* get_spectrum: the formats are tried in turn until one has a free window that     *)
(* passes the SNR check.  The check is numerical: with it, any of the formats with a *)
(* window may be the first to pass, or none; without it, the first one with a window  *)
(* is it.                                                                            *)
Search(path, n) ==
    [path_list |-> path, slots_needed |-> n, forced_core |-> None, forced_index |-> None]

Outcomes(path, mods, slots) ==
    LET free == {i \in DOMAIN mods : mods[i] # NoMod /\ IsFree(net, Search(path, slots[mods[i]]))}
        answer(i) ==
            [is_free      |-> TRUE,
             window       |-> Assigned(net, Search(path, slots[mods[i]])),
             block_reason |-> IF SnrChecked THEN "None"
                              ELSE IF \E j \in DOMAIN mods : j < i /\ mods[j] = NoMod
                              THEN "distance" ELSE block_reason]
        taken == {i \in free : SnrChecked \/ \A j \in free : i <= j}
    IN  {answer(i) : i \in taken}
            \union (IF SnrChecked \/ free = {} THEN {[is_free |-> FALSE]} ELSE {})

\* slots_needed of a format, for the whole request and for a segment of the slice.
SlotsOfWhole == [m \in Mod |-> IF FixedGrid THEN 1 ELSE ModPerBw[bandwidth][m].slots_needed]
SlotsOfSlice == [m \in Mod |-> ModPerBw[frame.slice][m].slots_needed]

\* _update_req_stats.
Segment(bw, w) == [bandwidth |-> bw, window |-> w]

NextPath_SkipsOne == [frame EXCEPT !.path_index = @ + 2, !.slices = {}, !.slice = 0,
                                   !.remaining = 0]

\* The handler leaves a path for the next one.
NextPath == [frame EXCEPT !.path_index = @ + 1, !.slices = {}, !.slice = 0, !.remaining = 0]

Path == frame.routes[frame.path_index]
AtPath == pc = "path" /\ frame.path_index \in DOMAIN frame.routes
Slicing(forced) == frame.segment_slicing \/ frame.force_slicing \/ forced > 1

-----------------------------------------------------------------------------
\* The start of handle_event: _init_req_stats, one transponder, get_route.
StartArrival(id, sd, bw) ==
    /\ pc = "idle"
    /\ req_id' = id
    /\ bandwidth' = bw
    /\ segments' = <<>>
    /\ num_trans' = 1
    /\ pc' = "path"
    /\ frame' = [NoFrame EXCEPT !.routes = Routes[sd], !.path_index = 1]
    /\ UNCHANGED <<net, path_list, was_routed, is_sliced, block_reason>>

\* One path, unsliced.
TryWhole ==
    /\ AtPath
    /\ \E forced \in Predictions : ~Slicing(forced)
    /\ path_list' = Path
    /\ \E found \in Outcomes(Path, ModFormats(Path, bandwidth), SlotsOfWhole) :
         \/ /\ ~found.is_free
            /\ block_reason' = "congestion"
            /\ frame' = NextPath
            /\ UNCHANGED <<net, was_routed, is_sliced, segments, pc>>
         \/ /\ found.is_free
            /\ block_reason' = found.block_reason
            /\ segments' = Append(segments, Segment(bandwidth, found.window))
            /\ was_routed' = TRUE
            /\ is_sliced' = FALSE
            /\ frame' = NoFrame
            /\ IF CanAllocate(net, Path, found.window)
               THEN pc' = "returned" /\ net' = Allocate(net, req_id, Path, found.window)
               ELSE pc' = "crashed"  /\ net' = net
    /\ UNCHANGED <<req_id, bandwidth, num_trans>>

\* One path, sliced: the calls of _handle_slicing and _handle_dynamic_slicing up to
\* their loops.  A slice bandwidth must be smaller than the request's and have a
\* format that reaches.
TrySliced ==
    /\ AtPath
    /\ path_list' = Path
    /\ \E forced \in Predictions :
         /\ Slicing(forced)
         /\ frame' = [frame EXCEPT
                        !.force_slicing = TRUE,
                        !.forced_segments = forced,
                        !.slices = {b \in Bandwidth :
                                      /\ ~DynamicLps
                                      /\ b < bandwidth
                                      /\ GetPathMod(ModPerBw[b], FindPathLen(Path)) # NoMod},
                        !.remaining = IF DynamicLps THEN bandwidth ELSE 0]
    /\ num_trans' = IF DynamicLps THEN 0 ELSE num_trans
    /\ pc' = IF ~DynamicLps THEN "slices" ELSE IF FixedGrid THEN "lightpaths" ELSE "crashed"
    /\ UNCHANGED <<net, req_id, bandwidth, was_routed, is_sliced, block_reason, segments>>

-----------------------------------------------------------------------------
\* The loop of _handle_slicing over the slice bandwidths, largest first.
IsNext(b) == \A c \in frame.slices : b >= c

NumSegments_OneShort(b) == (bandwidth \div b) - 1
NumSegments(b) == bandwidth \div b

AsPredicted_Ignored(b) == TRUE
AsPredicted(b) == frame.forced_segments \in {-1, NumSegments(b)}

\* More segments than allowed: the loop ends, the path failed.
TooManySegments(b) ==
    /\ pc = "slices" /\ IsNext(b)
    /\ NumSegments(b) > MaxSegments
    /\ was_routed' = FALSE
    /\ block_reason' = "max_segments"
    /\ num_trans' = 1
    /\ pc' = "path"
    /\ frame' = NextPath
    /\ UNCHANGED <<net, req_id, bandwidth, path_list, is_sliced, segments>>

\* A bandwidth that does not give the predicted number of segments is passed over.
SkipSlice(b) ==
    /\ pc = "slices" /\ IsNext(b)
    /\ NumSegments(b) <= MaxSegments /\ ~AsPredicted(b)
    /\ was_routed' = FALSE
    /\ frame' = [frame EXCEPT !.slices = @ \ {b}]
    /\ UNCHANGED <<net, req_id, bandwidth, path_list, is_sliced, num_trans, block_reason,
                   segments, pc>>

StartSlice(b) ==
    /\ pc = "slices" /\ IsNext(b)
    /\ NumSegments(b) <= MaxSegments /\ AsPredicted(b)
    /\ was_routed' = TRUE
    /\ num_trans' = NumSegments(b)
    /\ pc' = "segments"
    /\ frame' = [frame EXCEPT !.slices = @ \ {b}, !.slice = b, !.remaining = NumSegments(b)]
    /\ UNCHANGED <<net, req_id, bandwidth, path_list, is_sliced, block_reason, segments>>

\* No bandwidth is left: the flag decides whether handle_event goes on to the next
\* path or returns.
SlicesExhausted ==
    /\ pc = "slices" /\ frame.slices = {}
    /\ IF was_routed
       THEN pc' = "returned" /\ frame' = NoFrame  /\ num_trans' = num_trans
       ELSE pc' = "path"     /\ frame' = NextPath /\ num_trans' = 1
    /\ UNCHANGED <<net, req_id, bandwidth, path_list, was_routed, is_sliced, block_reason,
                   segments>>

GiveBack_Forgotten == net

\* release() on the path being tried: what the failed attempt holds is freed.
GiveBack == Release(net, req_id, path_list)

LastSegment == frame.remaining = 1

\* One round of _allocate_slicing.  After the last segment the request is routed; a
\* segment that finds no room gives back the ones before it.
PlaceSegment ==
    /\ pc = "segments"
    /\ \E found \in Outcomes(path_list, <<GetPathMod(ModPerBw[frame.slice], FindPathLen(path_list))>>,
                            SlotsOfSlice) :
         \/ /\ ~found.is_free
            /\ net' = GiveBack
            /\ was_routed' = FALSE
            /\ is_sliced' = FALSE
            /\ block_reason' = "congestion"
            /\ pc' = "slices"
            /\ frame' = [frame EXCEPT !.slice = 0, !.remaining = 0]
            /\ UNCHANGED segments
         \/ /\ found.is_free
            /\ segments' = Append(segments, Segment(frame.slice, found.window))
            /\ block_reason' = found.block_reason
            /\ is_sliced' = (LastSegment \/ is_sliced)
            /\ IF CanAllocate(net, path_list, found.window)
               THEN /\ net' = Allocate(net, req_id, path_list, found.window)
                    /\ pc' = IF LastSegment THEN "returned" ELSE "segments"
               ELSE net' = net /\ pc' = "crashed"
            /\ frame' = IF LastSegment THEN NoFrame ELSE [frame EXCEPT !.remaining = @ - 1]
            /\ UNCHANGED was_routed
    /\ UNCHANGED <<req_id, bandwidth, path_list, num_trans>>

\* remaining_bw after a lightpath of the supported bandwidth.
Left_CountsSegments(supported) == frame.remaining - supported - supported
Left(supported) == frame.remaining - supported

\* get_spectrum_dynamic_slicing on the fixed grid: a window of one slot is free, and the
\* external SNR data support a bandwidth there.
FindsLightpath(supported) == IsFree(net, Search(path_list, 1)) /\ supported # 0

\* One round of _handle_dynamic_slicing: a lightpath of one slot, of the bandwidth that is
\* supported there; _handle_congestion when there is none.
PlaceLightpath ==
    /\ pc = "lightpaths"
    /\ LET w  == Assigned(net, Search(path_list, 1))
           ok == CanAllocate(net, path_list, w)
       IN  \E supported \in SnrBandwidths :
             \/ /\ ~FindsLightpath(supported)
                /\ net' = IF frame.remaining # bandwidth THEN GiveBack ELSE net
                /\ was_routed' = FALSE
                /\ is_sliced' = FALSE
                /\ num_trans' = 1
                /\ block_reason' = "congestion"
                /\ pc' = "path"
                /\ frame' = NextPath
                /\ UNCHANGED segments
             \/ /\ FindsLightpath(supported)
                /\ LET left == Left(supported)
                       bw   == IF supported < frame.remaining THEN supported ELSE frame.remaining
                   IN  /\ net' = IF ok THEN Allocate(net, req_id, path_list, w) ELSE net
                       /\ segments' = Append(segments, Segment(bw, w))
                       /\ pc' = IF ~ok THEN "crashed"
                                ELSE IF left > 0 THEN "lightpaths" ELSE "returned"
                       /\ frame' = IF left > 0 THEN [frame EXCEPT !.remaining = left] ELSE NoFrame
                /\ was_routed' = TRUE
                /\ is_sliced' = TRUE
                /\ num_trans' = num_trans + 1
                /\ block_reason' = "None"
    /\ UNCHANGED <<req_id, bandwidth, path_list>>

-----------------------------------------------------------------------------
\* All paths failed: a second round, sliced, or the request is blocked.
SliceRoundDue_Always == MaxSegments > 1 /\ bandwidth # 25
SliceRoundDue == MaxSegments > 1 /\ bandwidth # 25 /\ ~frame.segment_slicing

SliceRound ==
    /\ pc = "path" /\ frame.path_index \notin DOMAIN frame.routes
    /\ SliceRoundDue
    /\ frame' = [frame EXCEPT !.segment_slicing = TRUE, !.path_index = 1]
    /\ UNCHANGED <<net, req_id, bandwidth, path_list, was_routed, is_sliced, num_trans,
                   block_reason, segments, pc>>

Block ==
    /\ pc = "path" /\ frame.path_index \notin DOMAIN frame.routes
    /\ ~SliceRoundDue
    /\ block_reason' = "distance"
    /\ was_routed' = FALSE
    /\ pc' = "returned"
    /\ frame' = NoFrame
    /\ UNCHANGED <<net, req_id, bandwidth, path_list, is_sliced, num_trans, segments>>

\* handle_event for a release: path is the one Engine found for the request.
ReleaseEvent(id, bw, path) ==
    /\ pc = "idle"
    /\ req_id' = id
    /\ bandwidth' = bw
    /\ path_list' = path
    /\ segments' = <<>>
    /\ num_trans' = 1
    /\ net' = Release(net, id, path)
    /\ UNCHANGED <<was_routed, is_sliced, block_reason, pc, frame>>

HandleEvent ==
    \/ TryWhole \/ TrySliced
    \/ \E b \in frame.slices : TooManySegments(b) \/ SkipSlice(b) \/ StartSlice(b)
    \/ SlicesExhausted
    \/ PlaceSegment \/ PlaceLightpath
    \/ SliceRound \/ Block
=============================================================================
