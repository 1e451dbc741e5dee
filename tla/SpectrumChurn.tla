--------------------------- MODULE SpectrumChurn ----------------------------
(***************************************************************************)
(* Lightpaths that come and go over SpectrumAssignment and the two writers *)
(* of the spectrum, with nothing of the controller in between: one step is *)
(* a search followed by its allocation, or a release.  It reaches the      *)
(* fragmented spectra on which a search is put to the test, each of them   *)
(* left by earlier searches and not made up.                               *)
(***************************************************************************)
EXTENDS SpectrumAssignment, ChannelHelpers

CONSTANTS
    Paths,        \* the paths requests are provisioned on
    SlotsNeeded,  \* the slots a modulation format may need
    Forced,       \* the <<core, start index>> a caller may force, None for either
    MaxReqs       \* request ids are 1..MaxReqs

ASSUME ChurnAssumption ==
    /\ \A p \in Paths : IsPath(p)
    /\ SlotsNeeded \subseteq Nat \ {0}
    /\ Forced \subseteq (Core \union {None}) \X (Nat \union {None})
    /\ MaxReqs \in Nat
    /\ None \notin [path : Paths, slots : SlotsNeeded, window : WindowType]

VARIABLES
    net,    \* net_spec_dict
    held    \* the lightpath of each request: its path, slots and window, or None

vars == <<net, held>>

ReqId == 1..MaxReqs

\* A demand: a path, the slots it needs, and what is forced upon the search for it.
Demands == Paths \X SlotsNeeded \X Forced

\* spectrum_props as handle_event sets them before the search.
Props(d) == [path_list |-> d[1], slots_needed |-> d[2],
             forced_core |-> d[3][1], forced_index |-> d[3][2]]

Init ==
    /\ net = EmptyNet
    /\ held = [r \in ReqId |-> None]

\* get_spectrum finds a window and allocate writes it.
Provision(r, d) ==
    /\ held[r] = None
    /\ IsFree(net, Props(d))
    /\ LET w == Assigned(net, Props(d))
       IN  /\ CanAllocate(net, d[1], w)
           /\ net' = Allocate(net, r, d[1], w)
           /\ held' = [held EXCEPT ![r] = [path |-> d[1], slots |-> d[2], window |-> w]]

Teardown(r) ==
    /\ held[r] # None
    /\ net' = Release(net, r, held[r].path)
    /\ held' = [held EXCEPT ![r] = None]

Next ==
    \E r \in ReqId :
        \/ \E d \in Demands : Provision(r, d)
        \/ Teardown(r)

Spec == Init /\ [][Next]_vars

-----------------------------------------------------------------------------
\* What is forced on a demand allows the core and start.
Allowed(d, c, s) == d[3][1] \in {None, c} /\ d[3][2] \in {None, s}

\* The position of a band in the order of the search.
BandPlace(b) == CHOOSE j \in DOMAIN BandList : BandList[j] = b

\* <<core, band, start>> comes before <<core, band, start>> in the search for d: in
\* core-major order, or band-major with the BSC priority, which a forced index disregards.
Earlier(d, c1, b1, s1, c2, b2, s2) ==
    LET key(c, b, s) == IF SpectrumPriority = "BSC" /\ d[3][2] = None
                        THEN <<BandPlace(b), c, s>> ELSE <<c, BandPlace(b), s>>
    IN  Precedes(key(c1, b1, s1), key(c2, b2, s2))

-----------------------------------------------------------------------------
\* A search that reports a free window and the allocation that follows agree: on no
\* reachable spectrum does allocate raise BufferError for the window it is given
\* (check_super_channels and check_other_links against the checks of allocate).
SearchAgreesWithAllocate ==
    \A d \in Demands : IsFree(net, Props(d)) =>
        CanAllocate(net, d[1], Assigned(net, Props(d)))

\* A demand is only turned away when no core and band it allows has an open window on
\* the whole path, where it forces one, and a demand the spectrum has no room for is
\* never accepted.
NoFalseBlocking ==
    \A d \in Demands : IsFree(net, Props(d)) <=>
        \E c \in Core, b \in Band : \E s \in Slot(b) :
            Allowed(d, c, s) /\ Open(net, d[1], d[2], c, b, s)

\* A window found for a demand that forces a core or a start index lies there.
ForcedIsObeyed ==
    \A d \in Demands : IsFree(net, Props(d)) =>
        LET w == Assigned(net, Props(d)) IN Allowed(d, w.core_num, w.start_slot)

\* First fit takes the first open window of the path in the search order of cores
\* and bands (docs/sim/spectrum_assignment.rst, First Fit Allocation).
TakesFirstOpen ==
    \A d \in Demands : IsFree(net, Props(d)) =>
        LET w == Assigned(net, Props(d))
        IN  \A c \in Core, b \in Band : \A s \in Slot(b) :
                Allowed(d, c, s) /\ Open(net, d[1], d[2], c, b, s) =>
                    ~Earlier(d, c, b, s, w.core_num, w.curr_band, w.start_slot)

\* A provisioned request holds, on every link of its path and on no other link, one
\* run of exactly the data slots its format needs, followed by its guard slots: same
\* band, core and slots on all links (continuity and contiguity), never more or less.
HoldsItsDemand ==
    \A r \in ReqId : held[r] # None =>
        \E c \in Core, b \in Band : \E s \in Slot(b) :
            LET data  == s..(s + held[r].slots - 1)
                guard == (s + held[r].slots)..(s + held[r].slots + GuardSlots - 1)
            IN  /\ {x \in Cell : net[x] = r}  = LinksOf(held[r].path) \X {b} \X {c} \X data
                /\ {x \in Cell : net[x] = -r} = LinksOf(held[r].path) \X {b} \X {c} \X guard

\* No slot stays occupied after the last lightpath is gone, and a slot is only
\* occupied by a request that still holds a lightpath.
NothingLeaks ==
    \A x \in Cell : net[x] # 0 => \E r \in ReqId : held[r] # None /\ net[x] \in {r, -r}

\* The channels routing and the measurements see as taken are the lightpaths: with guard
\* slots, find_taken_channels yields on each core of each link the data slots of every
\* request held over it, each request once and never two of them as one.
TakenAreLightpaths ==
    GuardSlots # 0 =>
        \A l \in Link, b \in Band, c \in Core :
            FindTakenChannels(net, l, b, c) =
                {{s \in Slot(b) : net[<<l, b, c, s>>] = r} :
                    r \in {q \in ReqId : /\ held[q] # None /\ l \in LinksOf(held[q].path)
                                       /\ held[q].window.core_num = c /\ held[q].window.curr_band = b}}

\* The agents are offered the starts the search could use: with the one guard slot it
\* reckons with, get_super_channels over a path yields its open windows, and so do the
\* free channels find_free_channels finds on each of its links.
ChannelsAreOpen ==
    GuardSlots = 1 =>
        \A d \in Demands, c \in Core, b \in Band :
            LET open == {s \in Slot(b) : Open(net, d[1], d[2], c, b, s)}
            IN  /\ GetSuperChannels(PathAllocArr(net, d[1], b, c), d[2]) = open
                /\ \A s \in Slot(b) :
                      s \in open <=> \A l \in LinksOf(d[1]) : s \in FindFreeChannels(net, l, b, c, d[2] + 1)
=============================================================================
