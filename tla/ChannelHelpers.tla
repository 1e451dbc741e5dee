--------------------------- MODULE ChannelHelpers ---------------------------
(***************************************************************************)
(* sim_helpers: what routing, cross-talk and the learning agents read off   *)
(* the spectrum database.  An array is the function from slots to the values *)
(* of its cells; a channel that is free is named by its first slot and a      *)
(* fraction is the pair of its numerator and denominator.                    *)
(***************************************************************************)
EXTENDS Spectrum, FiniteSetsExt

CoreArr(net, l, b, c) == [s \in Slot(b) |-> net[<<l, b, c, s>>]]

\* np.where(arr == 0).
Zeros(arr) == {s \in DOMAIN arr : arr[s] = 0}

\* find_free_slots, of one core.
FindFreeSlots(net, l, b, c) == Zeros(CoreArr(net, l, b, c))

\* find_free_channels, of one core: every run of n free slots.  A list that starts anew
\* after a gap is only compared with n when it is appended to, so channels of one slot
\* are found in the first run of free slots and in no later one.
FindFreeChannels(net, l, b, c, n) ==
    LET free == FindFreeSlots(net, l, b, c)
    IN  {s \in free : /\ s..(s + n - 1) \subseteq free
                      /\ n = 1 => \A t \in free : t..s \subseteq free}

FindTakenChannels_CutAtFree(net, l, b, c) ==
    LET arr  == CoreArr(net, l, b, c)
        data == {s \in DOMAIN arr : arr[s] > 0}
        with(s) == {t \in data : \A u \in (s..t) \union (t..s) : arr[u] # 0}
    IN  {with(s) : s \in data}

\* find_taken_channels, of one core: a channel lasts until a guard slot; a free slot
\* does not end it.
FindTakenChannels(net, l, b, c) ==
    LET arr  == CoreArr(net, l, b, c)
        data == {s \in DOMAIN arr : arr[s] > 0}
        with(s) == {t \in data : \A u \in (s..t) \union (t..s) : arr[u] >= 0}
    IN  {with(s) : s \in data}

-----------------------------------------------------------------------------
Taken(net, l, b, c) == Cardinality(Slot(b)) - Cardinality(FindFreeSlots(net, l, b, c))

\* find_path_cong: the mean, over the links and bands of a path, of the share of slots
\* that are taken; all links have the same bands and cores.
FindPathCong(net, path) ==
    LET scale  == ProductSet({BandSlots[b] : b \in Band})
        taken(x) == (scale \div BandSlots[x[2]]) * Taken(net, x[1], x[2], x[3])
    IN  <<MapThenSumSet(taken, LinksOf(path) \X Band \X Core),
          scale * CoresPerLink * Cardinality(Band) * Cardinality(LinksOf(path))>>

\* classify_cong.
ClassifyCong(cong) == IF 10 * cong[1] <= 3 * cong[2] THEN 0 ELSE 1

-----------------------------------------------------------------------------
\* combine_and_one_hot over the links of a path, as get_hfrag does.
PathAllocArr(net, path, b, c) ==
    [s \in Slot(b) |-> IF \E l \in LinksOf(path) : net[<<l, b, c, s>>] # 0 THEN 1 ELSE 0]

GetSuperChannels_NoGuard(arr, n) == {s \in DOMAIN arr : s..(s + n - 1) \subseteq Zeros(arr)}

\* get_super_channels: the starts of n slots and one more for the guard.
GetSuperChannels(arr, n) == {s \in DOMAIN arr : s..(s + n) \subseteq Zeros(arr)}
=============================================================================
