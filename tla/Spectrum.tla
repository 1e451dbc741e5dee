------------------------------ MODULE Spectrum ------------------------------
(***************************************************************************)
(* The network spectrum database, net_spec_dict, and the two operations of *)
(* SDNController that write it: allocate and release.                      *)
(*                                                                         *)
(* create_topology stores ONE cores_matrix under both (s, d) and (d, s), so *)
(* a link is modelled as the two-element set {s, d}; writing a link and     *)
(* its reverse writes the same array.  A cell is one frequency slot of one  *)
(* core of one band of one link; it holds 0 when it is free, the id of a    *)
(* request when it carries its data and minus that id when it is its guard. *)
(***************************************************************************)
EXTENDS Integers, FiniteSets, Sequences

CONSTANTS
    Node,        \* nodes of the topology
    Link,        \* its links, two-element sets of nodes
    Band,        \* the configured bands (engine_props['band_list'])
    BandSlots,   \* engine_props[f'{band}_band'], the slots of each band
    CoresPerLink,\* engine_props['cores_per_link']
    GuardSlots   \* engine_props['guard_slots']

ASSUME SpectrumAssumption ==
    /\ \A l \in Link : \E u, v \in Node : u # v /\ l = {u, v}
    /\ BandSlots \in [Band -> Nat \ {0}]
    /\ CoresPerLink \in Nat \ {0}
    /\ GuardSlots \in Nat

Core == 0..(CoresPerLink - 1)
Slot(b) == 0..(BandSlots[b] - 1)
Cell == UNION {Link \X {b} \X Core \X Slot(b) : b \in Band}

\* np.zeros of create_topology.
EmptyNet == [x \in Cell |-> 0]

\* zip(path_list, path_list[1:]) as a set of links.
LinksOf(path) == {{path[i], path[i + 1]} : i \in 1..(Len(path) - 1)}

\* A path the router may return: a simple walk over links of the topology.
IsPath(path) ==
    /\ path \in Seq(Node)
    /\ Len(path) >= 2
    /\ LinksOf(path) \subseteq Link
    /\ \A i, j \in 1..Len(path) : path[i] = path[j] => i = j

-----------------------------------------------------------------------------
\* set(core_arr[from:to]): a numpy slice stops at the end of the array, and is
\* empty when from >= to.
Slice(net, l, b, c, from, to) ==
    {net[<<l, b, c, s>>] : s \in {t \in Slot(b) : from <= t /\ t < to}}

(***************************************************************************)
(* allocate.  spec is what SpectrumAssignment found: a record with fields  *)
(* start_slot, end_slot, core_num and curr_band.  The slice that is        *)
(* written stops before DataStop; the guard slot is written at it.         *)
(***************************************************************************)
DataStop_GuardTakenTwice(spec) ==
    IF GuardSlots # 0 THEN spec.end_slot ELSE spec.end_slot

DataStop(spec) == IF GuardSlots # 0 THEN spec.end_slot - 1 ELSE spec.end_slot + 1

DataSlots(spec) == {s \in Slot(spec.curr_band) : spec.start_slot <= s /\ s < DataStop(spec)}
GuardSlotsOf(spec) == IF GuardSlots # 0 THEN {DataStop(spec)} ELSE {}

\* The checks allocate and _allocate_gb make on one link: the slice must be
\* exactly {0.0} (so an empty slice fails too) and the guard cell exist and be 0.
CanWrite(net, l, spec) ==
    /\ Slice(net, l, spec.curr_band, spec.core_num, spec.start_slot, DataStop(spec)) = {0}
    /\ GuardSlots # 0 =>
          /\ DataStop(spec) \in Slot(spec.curr_band)
          /\ net[<<l, spec.curr_band, spec.core_num, DataStop(spec)>>] = 0

\* allocate returns; when it is false, it raises BufferError or IndexError.
CanAllocate(net, path, spec) == \A l \in LinksOf(path) : CanWrite(net, l, spec)

OnChannel_AnyCore(x, path, spec) == x[1] \in LinksOf(path) /\ x[2] = spec.curr_band

OnChannel(x, path, spec) ==
    x[1] \in LinksOf(path) /\ x[2] = spec.curr_band /\ x[3] = spec.core_num

Allocate(net, id, path, spec) ==
    [x \in Cell |->
        IF OnChannel(x, path, spec) /\ x[4] \in DataSlots(spec) THEN id
        ELSE IF OnChannel(x, path, spec) /\ x[4] \in GuardSlotsOf(spec) THEN -id
        ELSE net[x]]

Release_DataOnly(net, id, path) ==
    [x \in Cell |-> IF x[1] \in LinksOf(path) /\ net[x] = id THEN 0 ELSE net[x]]

Release_FirstLinkOnly(net, id, path) ==
    [x \in Cell |-> IF x[1] = {path[1], path[2]} /\ net[x] \in {id, -id} THEN 0 ELSE net[x]]

Release_WholePath(net, id, path) ==
    [x \in Cell |-> IF x[1] \in LinksOf(path) THEN 0 ELSE net[x]]

\* release: every cell of the path's links that holds the id, or minus the id,
\* in all bands and cores.
Release(net, id, path) ==
    [x \in Cell |-> IF x[1] \in LinksOf(path) /\ net[x] \in {id, -id} THEN 0 ELSE net[x]]

-----------------------------------------------------------------------------
\* Reference: n data slots and the guard slots after them, at slots s to
\* s + n + GuardSlots - 1 of a core and band, are open when they lie in the band and
\* are free on every link of the path.
Open(net, path, n, c, b, s) ==
    /\ s + n + GuardSlots <= BandSlots[b]
    /\ \A l \in LinksOf(path), t \in s..(s + n + GuardSlots - 1) : net[<<l, b, c, t>>] = 0

HasRoom(net, path, n) == \E c \in Core, b \in Band : \E s \in Slot(b) : Open(net, path, n, c, b, s)

\* The cells a request holds, data and guard.
CellsOf(net, id) == {x \in Cell : net[x] \in {id, -id}}
=============================================================================
