--------------------------- MODULE SpectrumProofs ----------------------------
(***************************************************************************)
(* Lemmas the other proofs share.  On finite sets: their sums, which stand   *)
(* for the totals of SimStats and sum() in the code, and their least          *)
(* elements.  The folds are recursive: what they compute for every finite     *)
(* set is proved from a smallest set for which they would not, and there is   *)
(* none.  On the spectrum: what allocate and release change, the windows a    *)
(* search finds, and those it misses.                                         *)
(***************************************************************************)
EXTENDS SpectrumAssignment, FiniteSetTheorems, Functions, TLAPS

(* Sums over finite sets. *)

\* The element the fold takes next, and the table of sums it is the last entry of.
Pick(s) == CHOOSE x \in s : TRUE

IsSum(g, f, S) ==
    g = [s \in SUBSET S |-> IF s = {} THEN 0 ELSE f[Pick(s)] + g[s \ {Pick(s)}]]

\* The fold is the last entry of such a table.
LEMMA SumIs ==
    ASSUME NEW f, NEW S
    PROVE  SumFunctionOnSet(f, S) = (CHOOSE g : IsSum(g, f, S))[S]
BY DEF SumFunctionOnSet, FoldFunctionOnSet, MapThenFoldSet, IsSum, Pick

\* Among some subsets of a finite set there is a smallest one: induction over finite sets.
LEMMA SmallestSubset ==
    ASSUME NEW S, IsFiniteSet(S), NEW T, T \subseteq SUBSET S, T # {}
    PROVE  \E s \in T : \A t \in T : t \subseteq s => t = s
<1>1. IsWellFoundedOn(StrictSubsetOrdering(S), SUBSET S)
    BY FS_StrictSubsetOrderingWellFounded, FS_FiniteSubsetsOfFinite
<1>2. PICK s \in T : \A t \in T : <<t, s>> \notin StrictSubsetOrdering(S)
    BY <1>1, WFMin
<1>3. ASSUME NEW t \in T, t \subseteq s, t # s
      PROVE  FALSE
    <2>1. <<t, s>> \in (SUBSET S) \X (SUBSET S)
        OBVIOUS
    <2> QED
        BY <1>2, <1>3, <2>1 DEF StrictSubsetOrdering
<1> QED
    BY <1>3

\* The element taken is one of the set.
LEMMA PickIn ==
    ASSUME NEW s, s # {}
    PROVE  Pick(s) \in s
BY DEF Pick

\* Two tables of sums agree on the sets they share.
LEMMA SumUnique ==
    ASSUME NEW f, NEW S, NEW S2, IsFiniteSet(S), NEW g, NEW h, IsSum(g, f, S), IsSum(h, f, S2), NEW u, u \subseteq S, u \subseteq S2
    PROVE  g[u] = h[u]
<1> DEFINE Bad == {s \in SUBSET (S \intersect S2) : g[s] # h[s]}
<1>1. SUFFICES ASSUME Bad # {} PROVE FALSE
    OBVIOUS
<1>2. PICK s \in Bad : \A t \in Bad : t \subseteq s => t = s
    <2>1. Bad \subseteq SUBSET S
        OBVIOUS
    <2> HIDE DEF Bad
    <2> QED
        BY <1>1, <2>1, SmallestSubset
<1>3. /\ g[s] = IF s = {} THEN 0 ELSE f[Pick(s)] + g[s \ {Pick(s)}]
      /\ h[s] = IF s = {} THEN 0 ELSE f[Pick(s)] + h[s \ {Pick(s)}]
    BY DEF IsSum
<1>4. s # {} => g[s \ {Pick(s)}] = h[s \ {Pick(s)}]
    BY <1>2, PickIn
<1> QED
    BY <1>3, <1>4

\* There is such a table: the equation of the fold has a solution.
LEMMA SumExists ==
    ASSUME NEW f, NEW S, IsFiniteSet(S)
    PROVE  \E g : IsSum(g, f, S)
<1> DEFINE Bad == {s \in SUBSET S : ~\E g : IsSum(g, f, s)}
           G(t) == (CHOOSE g : IsSum(g, f, t))[t]
<1>1. SUFFICES ASSUME Bad # {} PROVE FALSE
    OBVIOUS
<1>2. PICK s \in Bad : \A t \in Bad : t \subseteq s => t = s
    <2>1. Bad \subseteq SUBSET S
        OBVIOUS
    <2> HIDE DEF Bad
    <2> QED
        BY <1>1, <2>1, SmallestSubset
<1>3. \A t : t \subseteq s /\ t # s => \E g : IsSum(g, f, t)
    BY <1>2
<1> DEFINE V(t) == IF t = {} THEN 0 ELSE f[Pick(t)] + G(t \ {Pick(t)})
<1>4. ASSUME NEW t, t \subseteq s, t # s
      PROVE  G(t) = V(t)
    <2>1. PICK g : g = (CHOOSE h : IsSum(h, f, t)) /\ IsSum(g, f, t)
        BY <1>3, <1>4
    <2>2. g[t] = IF t = {} THEN 0 ELSE f[Pick(t)] + g[t \ {Pick(t)}]
        BY <2>1 DEF IsSum
    <2>3. CASE t # {}
        <3> DEFINE r == t \ {Pick(t)}
        <3>1. r \subseteq s /\ r # s /\ r \subseteq t
            BY <1>4, <2>3, PickIn
        <3>2. PICK h : h = (CHOOSE k : IsSum(k, f, r)) /\ IsSum(h, f, r)
            BY <1>3, <3>1
        <3>3. IsFiniteSet(t)
            BY <1>4, FS_Subset
        <3>4. g[r] = h[r]
            <4> HIDE DEF r
            <4> QED
                BY <2>1, <3>1, <3>2, <3>3, SumUnique
        <3> QED
            BY <2>1, <2>2, <2>3, <3>2, <3>4
    <2> QED
        BY <2>1, <2>2, <2>3
<1> HIDE DEF G
<1> DEFINE h == [t \in SUBSET s |-> IF t = s THEN V(t) ELSE G(t)]
<1>5. \A t \in SUBSET s : t # {} => t \ {Pick(t)} \in SUBSET s /\ t \ {Pick(t)} # s
    BY PickIn
<1>6. \A t \in SUBSET s : h[t] = IF t = {} THEN 0 ELSE f[Pick(t)] + h[t \ {Pick(t)}]
    BY <1>4, <1>5
<1>7. IsSum(h, f, s)
    <2> HIDE DEF V
    <2>1. h = [t \in SUBSET s |-> h[t]]
        OBVIOUS
    <2> HIDE DEF h
    <2> QED
        BY <1>6, <2>1 DEF IsSum
<1> QED
    BY <1>2, <1>7

\* The sum of a set of values, one value at a time.
LEMMA SumStep ==
    ASSUME NEW f, NEW S, IsFiniteSet(S)
    PROVE  /\ S = {} => SumFunctionOnSet(f, S) = 0
           /\ S # {} => SumFunctionOnSet(f, S) = f[Pick(S)] + SumFunctionOnSet(f, S \ {Pick(S)})
<1>1. PICK g : g = (CHOOSE h : IsSum(h, f, S)) /\ IsSum(g, f, S)
    BY SumExists
<1>2. SumFunctionOnSet(f, S) = g[S]
    BY <1>1, SumIs
<1>3. g[S] = IF S = {} THEN 0 ELSE f[Pick(S)] + g[S \ {Pick(S)}]
    BY <1>1 DEF IsSum
<1>4. CASE S # {}
    <2> DEFINE r == S \ {Pick(S)}
    <2>1. IsFiniteSet(r)
        BY FS_Subset
    <2>2. PICK h : h = (CHOOSE k : IsSum(k, f, r)) /\ IsSum(h, f, r)
        BY <2>1, SumExists
    <2>3. g[r] = h[r]
        BY <1>1, <2>2, SumUnique
    <2>4. SumFunctionOnSet(f, r) = h[r]
        BY <2>2, SumIs
    <2> QED
        BY <1>2, <1>3, <1>4, <2>3, <2>4
<1> QED
    BY <1>2, <1>3, <1>4

\* Sums of integers are integers.
LEMMA SumIsInt ==
    ASSUME NEW f, NEW S, IsFiniteSet(S), \A i \in S : f[i] \in Int
    PROVE  SumFunctionOnSet(f, S) \in Int
<1> DEFINE Bad == {s \in SUBSET S : SumFunctionOnSet(f, s) \notin Int}
<1>1. SUFFICES ASSUME Bad # {} PROVE FALSE
    OBVIOUS
<1>2. PICK s \in Bad : \A t \in Bad : t \subseteq s => t = s
    <2>1. Bad \subseteq SUBSET S
        OBVIOUS
    <2> HIDE DEF Bad
    <2> QED
        BY <1>1, <2>1, SmallestSubset
<1>3. IsFiniteSet(s)
    BY FS_Subset
<1>4. s # {} => SumFunctionOnSet(f, s \ {Pick(s)}) \in Int
    BY <1>2, PickIn
<1> QED
    BY <1>2, <1>3, <1>4, SumStep, PickIn

\* The sum depends on the values in the set alone.
LEMMA SumSame ==
    ASSUME NEW f, NEW g, NEW S, IsFiniteSet(S), \A i \in S : f[i] = g[i]
    PROVE  SumFunctionOnSet(f, S) = SumFunctionOnSet(g, S)
<1> DEFINE Bad == {s \in SUBSET S : SumFunctionOnSet(f, s) # SumFunctionOnSet(g, s)}
<1>1. SUFFICES ASSUME Bad # {} PROVE FALSE
    OBVIOUS
<1>2. PICK s \in Bad : \A t \in Bad : t \subseteq s => t = s
    <2>1. Bad \subseteq SUBSET S
        OBVIOUS
    <2> HIDE DEF Bad
    <2> QED
        BY <1>1, <2>1, SmallestSubset
<1>3. IsFiniteSet(s)
    BY FS_Subset
<1>4. s # {} => SumFunctionOnSet(f, s \ {Pick(s)}) = SumFunctionOnSet(g, s \ {Pick(s)})
    BY <1>2, PickIn
<1> QED
    BY <1>2, <1>3, <1>4, SumStep, PickIn

\* Any element may be added last: the choice behind the fold does not matter.
LEMMA SumRemove ==
    ASSUME NEW f, NEW S, IsFiniteSet(S), \A i \in S : f[i] \in Int, NEW x \in S
    PROVE  SumFunctionOnSet(f, S) = f[x] + SumFunctionOnSet(f, S \ {x})
<1> DEFINE Split(s, y) == SumFunctionOnSet(f, s) = f[y] + SumFunctionOnSet(f, s \ {y})
           Bad == {s \in SUBSET S : \E y \in s : ~Split(s, y)}
<1>1. SUFFICES ASSUME Bad # {} PROVE FALSE
    OBVIOUS
<1>2. PICK s \in Bad : \A t \in Bad : t \subseteq s => t = s
    <2>1. Bad \subseteq SUBSET S
        OBVIOUS
    <2> HIDE DEF Bad
    <2> QED
        BY <1>1, <2>1, SmallestSubset
<1>3. PICK y \in s : ~Split(s, y)
    OBVIOUS
<1>4. \A t : t \subseteq s /\ t # s => \A z \in t : Split(t, z)
    BY <1>2
<1>5. PICK p \in s : p = Pick(s)
    BY <1>3, PickIn
<1>6. IsFiniteSet(s) /\ IsFiniteSet(s \ {p}) /\ IsFiniteSet((s \ {p}) \ {y})
    BY FS_Subset
<1>7. SumFunctionOnSet(f, s) = f[p] + SumFunctionOnSet(f, s \ {p})
    BY <1>3, <1>5, <1>6, SumStep
<1>8. p # y
    BY <1>3, <1>7
<1>9. SumFunctionOnSet(f, s \ {p}) = f[y] + SumFunctionOnSet(f, (s \ {p}) \ {y})
    BY <1>4, <1>8, y \in s \ {p}, s \ {p} # s
<1>10. SumFunctionOnSet(f, s \ {y}) = f[p] + SumFunctionOnSet(f, (s \ {y}) \ {p})
    BY <1>4, <1>8, p \in s \ {y}, s \ {y} # s
<1>11. (s \ {y}) \ {p} = (s \ {p}) \ {y}
    OBVIOUS
<1>12. SumFunctionOnSet(f, (s \ {p}) \ {y}) \in Int
    BY <1>6, SumIsInt
<1>13. f[p] \in Int /\ f[y] \in Int
    OBVIOUS
<1> HIDE DEF Bad
<1>14. PICK a \in Int, b \in Int, c \in Int :
          a = f[p] /\ b = f[y] /\ c = SumFunctionOnSet(f, (s \ {p}) \ {y})
    BY <1>12, <1>13
<1>15. SumFunctionOnSet(f, s) = a + (b + c) /\ SumFunctionOnSet(f, s \ {y}) = a + c
    BY <1>7, <1>9, <1>10, <1>11, <1>14
<1>16. a + (b + c) = b + (a + c)
    BY <1>14
<1> QED
    BY <1>3, <1>14, <1>15, <1>16

\* One value more.
LEMMA SumAdd ==
    ASSUME NEW f, NEW S, IsFiniteSet(S), NEW x, x \notin S, \A i \in S \union {x} : f[i] \in Int
    PROVE  SumFunctionOnSet(f, S \union {x}) = SumFunctionOnSet(f, S) + f[x]
<1> DEFINE more == S \union {x}
<1>1. IsFiniteSet(more) /\ x \in more /\ more \ {x} = S
    BY FS_AddElement
<1>2. SumFunctionOnSet(f, S) \in Int /\ f[x] \in Int
    BY SumIsInt
<1> HIDE DEF more
<1>3. \A i \in more : f[i] \in Int
    BY DEF more
<1>4. SumFunctionOnSet(f, more) = f[x] + SumFunctionOnSet(f, S)
    BY <1>1, <1>3, SumRemove
<1> QED
    BY <1>2, <1>4 DEF more

\* A sum does not depend on how its terms are numbered.
LEMMA SumShift ==
    ASSUME NEW n \in Nat, NEW d \in Int, NEW f, NEW h,
           \A i \in 1..n : h[i] = f[i + d] /\ f[i + d] \in Int
    PROVE  SumFunctionOnSet(h, 1..n) = SumFunctionOnSet(f, (d + 1)..(d + n))
<1> DEFINE Moved(s) == {i \in (d + 1)..(d + n) : i - d \in s}
           Bad == {s \in SUBSET (1..n) : SumFunctionOnSet(h, s) # SumFunctionOnSet(f, Moved(s))}
<1>1. SUFFICES ASSUME Bad # {} PROVE FALSE
    <2>1. Moved(1..n) = (d + 1)..(d + n)
        OBVIOUS
    <2> QED
        BY <2>1
<1>2. IsFiniteSet(1..n) /\ IsFiniteSet((d + 1)..(d + n))
    BY FS_Interval
<1>3. PICK s \in Bad : \A t \in Bad : t \subseteq s => t = s
    <2> DEFINE U == 1..n
    <2>1. IsFiniteSet(U) /\ Bad \subseteq SUBSET U
        BY <1>2
    <2> HIDE DEF Bad, U
    <2> QED
        BY <1>1, <2>1, SmallestSubset
<1>4. IsFiniteSet(s) /\ IsFiniteSet(Moved(s))
    BY <1>2, FS_Subset
<1>5. CASE s = {}
    <2>1. Moved(s) = {}
        BY <1>5
    <2> QED
        BY <1>3, <1>4, <1>5, <2>1, SumStep
<1>6. CASE s # {}
    <2>1. PICK p \in s : p = Pick(s)
        BY <1>6, PickIn
    <2>2. p + d \in Moved(s) /\ Moved(s) \ {p + d} = Moved(s \ {p})
        OBVIOUS
    <2>3. SumFunctionOnSet(h, s) = h[p] + SumFunctionOnSet(h, s \ {p})
        BY <1>4, <1>6, <2>1, SumStep
    <2>4. \A i \in Moved(s) : f[i] \in Int
        <3>1. \A i \in Moved(s) : i - d \in 1..n /\ (i - d) + d = i
            OBVIOUS
        <3> QED
            BY <3>1
    <2>5. SumFunctionOnSet(f, Moved(s)) = f[p + d] + SumFunctionOnSet(f, Moved(s) \ {p + d})
        <3> HIDE DEF Moved, Bad
        <3> QED
            BY <1>4, <2>2, <2>4, SumRemove
    <2>6. SumFunctionOnSet(h, s \ {p}) = SumFunctionOnSet(f, Moved(s \ {p}))
        <3>1. s \ {p} \subseteq s /\ s \ {p} # s /\ s \ {p} \in SUBSET (1..n)
            BY <2>1
        <3> QED
            BY <1>3, <3>1
    <2>7. h[p] = f[p + d]
        OBVIOUS
    <2> QED
        BY <2>2, <2>3, <2>5, <2>6, <2>7
<1> QED
    BY <1>5, <1>6

-----------------------------------------------------------------------------
(* The writers of the spectrum. *)

\* A cell is the tuple of its link, band, core and slot.
LEMMA CellIsTuple ==
    ASSUME NEW x \in Cell
    PROVE  /\ x = <<x[1], x[2], x[3], x[4]>>
           /\ x[1] \in Link /\ x[2] \in Band /\ x[3] \in Core /\ x[4] \in Slot(x[2])
<1>1. PICK b \in Band : x \in Link \X {b} \X Core \X Slot(b)
    BY DEF Cell
<1> QED
    BY <1>1

\* A cell of a link, band, core and slot.
LEMMA TupleIsCell ==
    ASSUME NEW l \in Link, NEW b \in Band, NEW c \in Core, NEW t \in Slot(b)
    PROVE  <<l, b, c, t>> \in Cell
BY DEF Cell

\* release clears the cells of a path that hold the id or minus the id, and no other.
LEMMA ReleaseCell ==
    ASSUME NEW net, NEW id, NEW path, NEW x \in Cell
    PROVE  /\ x[1] \in LinksOf(path) /\ net[x] \in {id, -id} => Release(net, id, path)[x] = 0
           /\ ~(x[1] \in LinksOf(path) /\ net[x] \in {id, -id})
                => Release(net, id, path)[x] = net[x]
BY DEF Release

\* allocate changes free cells of the path's links only, into its id or minus its id.
LEMMA AllocateCell ==
    ASSUME NEW net, NEW id, NEW path, NEW spec, CanAllocate(net, path, spec), NEW x \in Cell,
           Allocate(net, id, path, spec)[x] # net[x]
    PROVE  /\ net[x] = 0
           /\ x[1] \in LinksOf(path)
           /\ Allocate(net, id, path, spec)[x] \in {id, -id}
<1> DEFINE new == Allocate(net, id, path, spec)
<1>1. /\ x = <<x[1], x[2], x[3], x[4]>>
      /\ x[4] \in Slot(x[2])
    BY CellIsTuple
<1>2. new[x] = IF OnChannel(x, path, spec) /\ x[4] \in DataSlots(spec) THEN id
               ELSE IF OnChannel(x, path, spec) /\ x[4] \in GuardSlotsOf(spec) THEN -id
               ELSE net[x]
    BY DEF Allocate
<1>3. /\ OnChannel(x, path, spec)
      /\ x[4] \in DataSlots(spec) \/ x[4] \in GuardSlotsOf(spec)
      /\ new[x] \in {id, -id}
    BY <1>2
<1>4. /\ x[1] \in LinksOf(path) /\ x[2] = spec.curr_band /\ x[3] = spec.core_num
      /\ CanWrite(net, x[1], spec)
      /\ x = <<x[1], spec.curr_band, spec.core_num, x[4]>>
    BY <1>1, <1>3 DEF OnChannel, CanAllocate
<1>5. CASE x[4] \in DataSlots(spec)
    <2>1. net[<<x[1], spec.curr_band, spec.core_num, x[4]>>]
            \in Slice(net, x[1], spec.curr_band, spec.core_num, spec.start_slot, DataStop(spec))
        BY <1>5 DEF DataSlots, Slice
    <2>2. net[x] = net[<<x[1], spec.curr_band, spec.core_num, x[4]>>]
        BY <1>4
    <2> QED
        BY <1>3, <1>4, <2>1, <2>2 DEF CanWrite
<1>6. CASE x[4] \in GuardSlotsOf(spec)
    <2>1. GuardSlots # 0 /\ x[4] = DataStop(spec)
        BY <1>6 DEF GuardSlotsOf
    <2> QED
        BY <1>3, <1>4, <2>1 DEF CanWrite
<1> QED
    BY <1>3, <1>5, <1>6

\* allocate leaves a spectrum of integers.
LEMMA AllocateType ==
    ASSUME NEW net \in [Cell -> Int], NEW id \in Int, NEW path, NEW spec
    PROVE  Allocate(net, id, path, spec) \in [Cell -> Int]
BY DEF Allocate

\* The same of release.
LEMMA ReleaseType ==
    ASSUME NEW net \in [Cell -> Int], NEW id \in Int, NEW path
    PROVE  Release(net, id, path) \in [Cell -> Int]
BY DEF Release

-----------------------------------------------------------------------------
\* First answers with one of the windows that pass.
LEMMA FirstIsOneOf ==
    ASSUME NEW S, S # {}
    PROVE  First(S) \in S
<1> DEFINE least == {p \in S : \A q \in S \ {p} : Precedes(p.rank, q.rank)}
<1>1. \E p \in S : least # {} => p \in least
    OBVIOUS
<1> HIDE DEF least
<1>2. (CHOOSE p \in S : least # {} => p \in least) \in S
    BY <1>1
<1> QED
    BY <1>2 DEF First, least

\* The cores a search without a forced core goes through are cores of the link.
LEMMA CoreListType ==
    ASSUME SpectrumAssumption, SearchAssumption, NEW props, props.forced_core = None
    PROVE  \A i \in DOMAIN CoreList(props) : CoreList(props)[i] \in Core
<1>1. CASE AllocationMethod \in {"priority_first", "priority_last"}
    <2>1. CoreList(props) = <<0, 2, 4, 1, 3, 5, 6>>
        BY <1>1 DEF CoreList
    <2>2. CoresPerLink \in Nat /\ CoresPerLink >= 7
        BY <1>1 DEF SpectrumAssumption, SearchAssumption
    <2>3. CoreList(props) \in Seq(0..6)
        BY <2>1
    <2>4. \A i \in DOMAIN CoreList(props) : CoreList(props)[i] \in 0..6
        BY <2>3
    <2>5. 0..6 \subseteq Core
        BY <2>2 DEF Core
    <2> QED
        BY <2>4, <2>5
<1>2. CASE AllocationMethod \notin {"priority_first", "priority_last"}
    <2>1. CoreList(props) = [i \in 1..CoresPerLink |-> i - 1]
        BY <1>2 DEF CoreList
    <2> QED
        BY <2>1 DEF Core, SpectrumAssumption
<1> QED
    BY <1>1, <1>2

\* The cores a search goes through are cores of the link, and the forced one if any.
LEMMA CoresSearched ==
    ASSUME SpectrumAssumption, SearchAssumption,
           NEW props, props.forced_core \in Core \union {None}, NEW i \in DOMAIN CoreList(props)
    PROVE  /\ CoreList(props)[i] \in Core
           /\ props.forced_core # None => CoreList(props)[i] = props.forced_core
<1>1. CASE props.forced_core = None
    BY <1>1, CoreListType
<1>2. CASE props.forced_core # None
    <2>1. CoreList(props) = <<props.forced_core>>
        BY <1>2 DEF CoreList
    <2> QED
        BY <1>2, <2>1
<1> QED
    BY <1>1, <1>2

\* What handle_first_last finds is a window of a band and a core, with integer ends.
LEMMA FirstLastType ==
    ASSUME SpectrumAssumption, SearchAssumption,
           NEW net, NEW props, props.forced_core \in Core \union {None}, NEW flag,
           NEW p \in FirstLast(net, props, flag)
    PROVE  p.window \in WindowType
<1> DEFINE path == props.path_list
           n == props.slots_needed
           cores == CoreList(props)
           fits(i, j, t) ==
               OtherLinksFree(net, path, BandList[j], cores[i], n, t, EndIndex(t, n))
           place(i, j, r, s) == Place(flag, i, j, r, IF Descending(flag) THEN -s ELSE s)
           window(i, j, s) == Window(BandList[j], cores[i], s, EndIndex(s, n))
           starts(i, j, r) == {t \in Reached(r, n, flag, props.forced_index) : fits(i, j, t)}
           runs(i, j) == OpenRuns(net, {path[1], path[2]}, BandList[j], cores[i])
           inRun(i, j, r) ==
               {[rank |-> place(i, j, r, s), window |-> window(i, j, s)] : s \in starts(i, j, r)}
           inCore(i, j) == UNION {inRun(i, j, r) : r \in runs(i, j)}
<1>1. FirstLast(net, props, flag) = UNION {inCore(i, j) : i \in DOMAIN cores, j \in DOMAIN BandList}
    BY DEF FirstLast
<1>2. PICK i \in DOMAIN cores, j \in DOMAIN BandList : p \in inCore(i, j)
    <2> HIDE DEF inCore
    <2> QED
        BY <1>1
<1>3. PICK r \in runs(i, j) : p \in inRun(i, j, r)
    <2> HIDE DEF inRun, runs
    <2> QED
        BY <1>2
<1>4. PICK s \in starts(i, j, r) : p.window = window(i, j, s)
    <2> HIDE DEF starts, place, window
    <2> QED
        BY <1>3
<1>5. BandList[j] \in Band /\ cores[i] \in Core
    <2>1. BandList[j] \in Band
        BY DEF SearchAssumption
    <2>2. cores[i] \in Core
        BY CoresSearched
    <2> QED
        BY <2>1, <2>2
<1>6. r[1] \in Int /\ r[2] \in Int
    BY <1>5 DEF OpenRuns, Slot, SpectrumAssumption
<1>7. s \in Int /\ EndIndex(s, n) \in Int
    <2>1. s \in r[1]..r[2] /\ (~Descending(flag) => s <= s) /\ (Descending(flag) => s >= s)
        BY <1>6 DEF Reached
    <2>2. EndIndex(s, n) \in r[1]..r[2]
        BY <2>1 DEF Reached
    <2> QED
        BY <1>6, <2>1, <2>2
<1> QED
    BY <1>4, <1>5, <1>7 DEF Window, WindowType, SpectrumAssumption

\* The same of best fit.
LEMMA BestFitType ==
    ASSUME SpectrumAssumption, SearchAssumption,
           NEW net, NEW props, props.slots_needed \in Int, NEW p \in BestFit(net, props)
    PROVE  p.window \in WindowType
<1> DEFINE path == props.path_list
           n == props.slots_needed
           cores == {c \in Core : props.forced_core \in {None, c}}
           end(s) == (s + n + GuardSlots) - 1
           fits(c, j, t) == OtherLinksFree(net, path, BandList[j], c, n, t, end(t))
           place(k, c, j, r, s) == <<RunSize(r), k, c, j, r[1], s>>
           window(c, j, s) == [curr_band |-> BandList[j], core_num |-> c,
                               start_slot |-> s, end_slot |-> end(s)]
           starts(c, j, r) == {t \in r[1]..r[2] : end(t) <= r[2] /\ fits(c, j, t)}
           runs(k, c, j) == {q \in OpenRuns(net, {path[k], path[k + 1]}, BandList[j], c) :
                               RunSize(q) >= n}
           inRun(k, c, j, r) ==
               {[rank |-> place(k, c, j, r, s), window |-> window(c, j, s)] : s \in starts(c, j, r)}
           inCore(k, c, j) == UNION {inRun(k, c, j, r) : r \in runs(k, c, j)}
<1>1. BestFit(net, props) =
        UNION {inCore(k, c, j) : k \in 1..(Len(path) - 1), c \in cores, j \in DOMAIN BandList}
    BY DEF BestFit
<1>2. PICK k \in 1..(Len(path) - 1), c \in cores, j \in DOMAIN BandList : p \in inCore(k, c, j)
    <2> HIDE DEF inCore, cores, path
    <2> QED
        BY <1>1, SMT
<1>3. PICK r \in runs(k, c, j) : p \in inRun(k, c, j, r)
    <2> HIDE DEF inRun, runs
    <2> QED
        BY <1>2
<1>4. PICK s \in starts(c, j, r) : p.window = window(c, j, s)
    <2> HIDE DEF starts, place, window
    <2> QED
        BY <1>3
<1>5. BandList[j] \in Band
    BY DEF SearchAssumption
<1>6. r[1] \in Int /\ r[2] \in Int
    BY <1>5 DEF OpenRuns, Slot, SpectrumAssumption
<1>7. s \in Int /\ c \in Core
    BY <1>6
<1>8. end(s) \in Int
    <2>1. n \in Int /\ GuardSlots \in Int
        BY DEF SpectrumAssumption
    <2> HIDE DEF n, starts, runs
    <2> QED
        BY <1>7, <2>1
<1> HIDE DEF end
<1> QED
    BY <1>4, <1>5, <1>7, <1>8 DEF WindowType

\* A search that succeeds assigns such a window.
LEMMA AssignedType ==
    ASSUME SpectrumAssumption, SearchAssumption,
           NEW net, NEW props, props.forced_core \in Core \union {None},
           props.slots_needed \in Int, IsFree(net, props)
    PROVE  Assigned(net, props) \in WindowType
<1>1. First(Passing(net, props)) \in Passing(net, props)
    BY FirstIsOneOf DEF IsFree
<1>2. CASE props.forced_index = None /\ AllocationMethod = "best_fit"
    BY <1>1, <1>2, BestFitType DEF Assigned, Passing
<1>3. CASE ~(props.forced_index = None /\ AllocationMethod = "best_fit")
    BY <1>1, <1>3, FirstLastType DEF Assigned, Passing
<1> QED
    BY <1>2, <1>3

-----------------------------------------------------------------------------
\* The slots from low to high of a core and band of a link are free.
FreeOn(net, l, b, c, low, high) == \A t \in Int : low <= t /\ t <= high => net[<<l, b, c, t>>] = 0

\* The same on every link of a path.
FreeAlong(net, path, b, c, low, high) == \A l \in LinksOf(path) : FreeOn(net, l, b, c, low, high)

\* What Open says, in those terms.
LEMMA OpenIsFree ==
    ASSUME SpectrumAssumption, NEW net, NEW path, NEW n \in Nat, NEW c, NEW b, NEW s \in Int
    PROVE  Open(net, path, n, c, b, s) <=>
              /\ s + n + GuardSlots <= BandSlots[b]
              /\ FreeAlong(net, path, b, c, s, s + n + GuardSlots - 1)
<1>1. GuardSlots \in Nat
    BY DEF SpectrumAssumption
<1> QED
    BY <1>1 DEF Open, FreeOn, FreeAlong

\* A run is free from end to end.
LEMMA RunIsFree ==
    ASSUME SpectrumAssumption, NEW net, NEW l, NEW b \in Band, NEW c, NEW r \in OpenRuns(net, l, b, c)
    PROVE  /\ r[1] \in 0..(BandSlots[b] - 1) /\ r[2] \in 0..(BandSlots[b] - 1) /\ r[1] <= r[2]
           /\ FreeOn(net, l, b, c, r[1], r[2])
           /\ r = <<r[1], r[2]>>
BY DEF OpenRuns, Slot, SpectrumAssumption, FreeOn

Less == {ss \in Nat \X Nat : ss[1] < ss[2]}

\* Every set of natural numbers that is not empty has a least element.
LEMMA LeastNatural ==
    ASSUME NEW T, T \subseteq Nat, T # {}
    PROVE  \E m \in T : \A k \in T : m <= k
<1>1. IsWellFoundedOn(Less, Nat)
    BY NatLessThanWellFounded DEF OpToRel, Less
<1>2. \E m \in T : \A k \in T : <<k, m>> \notin Less
    BY <1>1, WFMin
<1>3. PICK m \in T : \A k \in T : <<k, m>> \notin Less
    BY <1>2
<1>4. \A k \in T : ~(k < m)
    BY <1>3 DEF Less
<1> QED
    BY <1>4

\* Every free stretch of slots lies in a run.
LEMMA RunAround ==
    ASSUME SpectrumAssumption, NEW net, NEW l, NEW b \in Band, NEW c,
           NEW low \in Int, NEW high \in Int, 0 <= low, low <= high, high < BandSlots[b],
           FreeOn(net, l, b, c, low, high)
    PROVE  \E r \in OpenRuns(net, l, b, c) : r[1] <= low /\ high <= r[2]
<1>1. BandSlots[b] \in Nat
    BY DEF SpectrumAssumption
<1> DEFINE free(s) == s \in Slot(b) /\ net[<<l, b, c, s>>] = 0
           Lows == {a \in Nat : a <= low /\ FreeOn(net, l, b, c, a, low)}
           Highs == {d \in Nat : high <= BandSlots[b] - 1 - d
                                 /\ FreeOn(net, l, b, c, high, BandSlots[b] - 1 - d)}
<1>2. low \in Lows
    BY DEF FreeOn
<1>3. BandSlots[b] - 1 - high \in Highs
    BY <1>1 DEF FreeOn
<1>4. PICK a \in Lows : \A k \in Lows : a <= k
    <2> HIDE DEF Lows
    <2>1. Lows \subseteq Nat
        BY DEF Lows
    <2> QED
        BY <1>2, <2>1, LeastNatural
<1>5. PICK d \in Highs : \A k \in Highs : d <= k
    <2> HIDE DEF Highs
    <2>1. Highs \subseteq Nat
        BY DEF Highs
    <2> QED
        BY <1>3, <2>1, LeastNatural
<1>6. PICK z \in Int : z = BandSlots[b] - 1 - d
    BY <1>1
<1>7. ~free(a - 1)
    <2> SUFFICES ASSUME a - 1 >= 0, net[<<l, b, c, a - 1>>] = 0
                 PROVE  FALSE
        BY DEF Slot
    <2>1. FreeOn(net, l, b, c, a - 1, low)
        BY DEF FreeOn
    <2>2. a - 1 \in Lows
        BY <2>1
    <2> QED
        BY <1>4, <2>2
<1>8. ~free(z + 1)
    <2> SUFFICES ASSUME z + 1 < BandSlots[b], net[<<l, b, c, z + 1>>] = 0
                 PROVE  FALSE
        BY <1>1, <1>6 DEF Slot
    <2>1. FreeOn(net, l, b, c, high, BandSlots[b] - 1 - (d - 1))
        BY <1>1, <1>6 DEF FreeOn
    <2>2. d - 1 \in Highs
        BY <1>1, <1>6, <2>1
    <2> QED
        BY <1>5, <2>2
<1>9. \A s \in a..z : free(s)
    BY <1>1, <1>6 DEF FreeOn, Slot
<1>10. <<a, z>> \in OpenRuns(net, l, b, c)
    <2>1. a \in Slot(b) /\ z \in Slot(b) /\ a <= z
        BY <1>1, <1>6 DEF Slot
    <2> QED
        BY <1>7, <1>8, <1>9, <2>1 DEF OpenRuns
<1> QED
    BY <1>6, <1>10

\* Two runs of a core do not meet: the one that begins earlier ends earlier.
LEMMA RunsApart ==
    ASSUME SpectrumAssumption, NEW net, NEW l, NEW b \in Band, NEW c,
           NEW q \in OpenRuns(net, l, b, c), NEW r \in OpenRuns(net, l, b, c)
    PROVE  /\ q[1] < r[1] => q[2] < r[1]
           /\ q[1] = r[1] => q = r
<1>1. /\ q[1] \in Int /\ q[2] \in Int /\ r[1] \in Int /\ r[2] \in Int
      /\ q = <<q[1], q[2]>> /\ r = <<r[1], r[2]>>
    BY DEF OpenRuns, Slot, SpectrumAssumption
<1> DEFINE free(s) == s \in Slot(b) /\ net[<<l, b, c, s>>] = 0
<1>2. /\ \A s \in q[1]..q[2] : free(s)
      /\ \A s \in r[1]..r[2] : free(s)
      /\ ~free(q[2] + 1) /\ ~free(r[1] - 1) /\ ~free(r[2] + 1)
      /\ q[1] <= q[2] /\ r[1] <= r[2]
    BY DEF OpenRuns
<1> HIDE DEF free
<1> QED
    BY <1>1, <1>2

-----------------------------------------------------------------------------
\* A window with room for n data slots and the guard slots on every link of a path.
Fits(net, path, n, w) ==
    /\ w.curr_band \in Band /\ w.core_num \in Core
    /\ w.start_slot \in Slot(w.curr_band)
    /\ DataStop(w) = w.start_slot + n
    /\ Open(net, path, n, w.core_num, w.curr_band, w.start_slot)

\* The methods whose windows fit: best fit only without guard slots, of which it takes
\* one for data, and no method with more than one, where allocate reckons with one.
SearchFits == GuardSlots <= 1 /\ (AllocationMethod = "best_fit" => GuardSlots = 0)

\* The lowest slot of the window that starts, as the method counts, at s.
LowSlot(s, n) == IF AllocationMethod = "last_fit" THEN EndIndex(s, n) ELSE s

\* What _check_free_spectrum accepts is free, slot by slot.
LEMMA CheckedIsFree ==
    ASSUME SpectrumAssumption, GuardSlots <= 1,
           NEW net, NEW l, NEW b \in Band, NEW c, NEW n \in Nat \ {0}, NEW s \in Int,
           CheckFreeSpectrum(net, l, b, c, n, s, EndIndex(s, n)),
           LowSlot(s, n) >= 0, LowSlot(s, n) + n + GuardSlots <= BandSlots[b]
    PROVE  FreeOn(net, l, b, c, LowSlot(s, n), LowSlot(s, n) + n + GuardSlots - 1)
<1>1. BandSlots[b] \in Nat /\ GuardSlots \in 0..1
    BY DEF SpectrumAssumption
<1>2. CASE n = 1 /\ GuardSlots = 0
    <2>1. net[<<l, b, c, s>>] = 0 /\ LowSlot(s, n) = s
        BY <1>2 DEF CheckFreeSpectrum, EndIndex, LowSlot
    <2> QED
        BY <1>2, <2>1 DEF FreeOn
<1>3. CASE ~(n = 1 /\ GuardSlots = 0)
    <2> DEFINE to == (IF GuardSlots = 0 THEN EndIndex(s, n) + 1 ELSE EndIndex(s, n)) + GuardSlots
    <2>1. Slice(net, l, b, c, s, to) = {0}
        BY <1>3 DEF CheckFreeSpectrum
    <2>2. CASE AllocationMethod = "last_fit"
        <3>1. to <= s
            BY <1>1, <1>3, <2>2 DEF EndIndex
        <3>2. to \in Int
            BY <1>1, <2>2 DEF EndIndex
        <3> HIDE DEF to
        <3>3. {t \in Slot(b) : s <= t /\ t < to} = {}
            BY <3>1, <3>2, <1>1 DEF Slot
        <3>4. Slice(net, l, b, c, s, to) = {}
            BY <3>3 DEF Slice
        <3> QED
            BY <2>1, <3>4
    <2>3. CASE AllocationMethod # "last_fit"
        <3>1. to = s + n + GuardSlots /\ LowSlot(s, n) = s
            BY <1>1, <2>3 DEF EndIndex, LowSlot
        <3>2. ASSUME NEW t \in Int, s <= t, t <= s + n + GuardSlots - 1
              PROVE  net[<<l, b, c, t>>] \in Slice(net, l, b, c, s, to)
            <4>1. t \in Slot(b) /\ s <= t /\ t < to
                BY <1>1, <3>1, <3>2 DEF Slot
            <4> HIDE DEF to
            <4> QED
                BY <4>1 DEF Slice
        <3> QED
            BY <2>1, <3>1, <3>2 DEF FreeOn
    <2> QED
        BY <2>2, <2>3
<1> QED
    BY <1>2, <1>3

\* And but for last fit, whose check is always of an empty slice, it accepts what is free.
LEMMA FreeIsChecked ==
    ASSUME SpectrumAssumption, GuardSlots <= 1, AllocationMethod # "last_fit",
           NEW net, NEW l, NEW b \in Band, NEW c, NEW n \in Nat \ {0}, NEW s \in Nat,
           s + n + GuardSlots <= BandSlots[b],
           FreeOn(net, l, b, c, s, s + n + GuardSlots - 1)
    PROVE  CheckFreeSpectrum(net, l, b, c, n, s, EndIndex(s, n))
<1>1. BandSlots[b] \in Nat /\ GuardSlots \in 0..1
    BY DEF SpectrumAssumption
<1>2. net[<<l, b, c, s>>] = 0
    BY <1>1 DEF FreeOn
<1>3. ASSUME NEW to, to = s + n + GuardSlots
      PROVE  Slice(net, l, b, c, s, to) = {0}
    <2>1. {t \in Slot(b) : s <= t /\ t < to} = s..(s + n + GuardSlots - 1)
        BY <1>1, <1>3 DEF Slot
    <2>2. \A t \in s..(s + n + GuardSlots - 1) : net[<<l, b, c, t>>] = 0
        BY <1>1 DEF FreeOn
    <2>3. s \in s..(s + n + GuardSlots - 1)
        BY <1>1
    <2>4. 0 \in Slice(net, l, b, c, s, to)
        BY <2>1, <2>2, <2>3 DEF Slice
    <2>5. \A x \in Slice(net, l, b, c, s, to) : x = 0
        BY <2>1, <2>2 DEF Slice
    <2> QED
        BY <2>4, <2>5
<1>4. (IF GuardSlots = 0 THEN EndIndex(s, n) + 1 ELSE EndIndex(s, n)) + GuardSlots
        = s + n + GuardSlots
    BY <1>1 DEF EndIndex
<1> QED
    BY <1>2, <1>3, <1>4 DEF CheckFreeSpectrum

\* The first link of a path and, on a path of two nodes, the only one.
FirstOf(path) == {path[1], path[2]}

\* The first link is a link of the path, and on a path of two nodes the only one.
LEMMA FirstLink ==
    ASSUME NEW path, IsPath(path)
    PROVE  /\ FirstOf(path) \in LinksOf(path)
           /\ 1 \in 1..(Len(path) - 1)
           /\ Len(path) <= 2 => \A l \in LinksOf(path) : l = FirstOf(path)
<1>1. Len(path) \in Nat /\ Len(path) >= 2
    BY DEF IsPath
<1> QED
    BY <1>1 DEF LinksOf, FirstOf

\* check_other_links accepts what is free on every link of the path.
LEMMA OthersAreFree ==
    ASSUME SpectrumAssumption, GuardSlots <= 1, NEW net, NEW path, IsPath(path),
           NEW b \in Band, NEW c, NEW n \in Nat \ {0}, NEW s \in Int,
           LowSlot(s, n) >= 0, LowSlot(s, n) + n + GuardSlots <= BandSlots[b],
           OtherLinksFree(net, path, b, c, n, s, EndIndex(s, n)),
           FreeOn(net, FirstOf(path), b, c, LowSlot(s, n), LowSlot(s, n) + n + GuardSlots - 1)
    PROVE  FreeAlong(net, path, b, c, LowSlot(s, n), LowSlot(s, n) + n + GuardSlots - 1)
<1>1. CASE Len(path) <= 2
    <2>1. \A l \in LinksOf(path) : l = FirstOf(path)
        BY <1>1, FirstLink
    <2> QED
        BY <2>1 DEF FreeAlong
<1>2. CASE ~(Len(path) <= 2)
    <2>1. Len(path) > 2
        BY <1>2 DEF IsPath
    <2>2. \A l \in LinksOf(path) : CheckFreeSpectrum(net, l, b, c, n, s, EndIndex(s, n))
        BY <2>1 DEF OtherLinksFree
    <2> SUFFICES ASSUME NEW l \in LinksOf(path)
                 PROVE  FreeOn(net, l, b, c, LowSlot(s, n), LowSlot(s, n) + n + GuardSlots - 1)
        BY DEF FreeAlong
    <2>3. CheckFreeSpectrum(net, l, b, c, n, s, EndIndex(s, n))
        BY <2>2
    <2> QED
        BY <2>3, CheckedIsFree
<1> QED
    BY <1>1, <1>2

\* A window in a run of the first link that _check_free_spectrum accepts on the others fits.
LEMMA RunWindowFits ==
    ASSUME SpectrumAssumption, GuardSlots <= 1,
           NEW net, NEW path, IsPath(path), NEW b \in Band, NEW c \in Core, NEW n \in Nat \ {0},
           NEW r \in OpenRuns(net, FirstOf(path), b, c), NEW s \in Int,
           r[1] <= s, s <= r[2], r[1] <= EndIndex(s, n), EndIndex(s, n) <= r[2],
           OtherLinksFree(net, path, b, c, n, s, EndIndex(s, n))
    PROVE  Fits(net, path, n, Window(b, c, s, EndIndex(s, n)))
<1>1. /\ r[1] \in 0..(BandSlots[b] - 1) /\ r[2] \in 0..(BandSlots[b] - 1)
      /\ FreeOn(net, FirstOf(path), b, c, r[1], r[2])
    BY RunIsFree
<1>2. BandSlots[b] \in Nat /\ GuardSlots \in 0..1
    BY DEF SpectrumAssumption
<1> DEFINE low == LowSlot(s, n)
<1>3. /\ low \in Int /\ EndIndex(s, n) \in Int
      /\ r[1] <= low /\ low + n + GuardSlots - 1 <= r[2]
    BY <1>1, <1>2 DEF EndIndex, LowSlot
<1>4. LET w == Window(b, c, s, EndIndex(s, n))
      IN  /\ w.curr_band = b /\ w.core_num = c /\ w.start_slot = low
          /\ DataStop(w) = low + n
    BY <1>1, <1>2, <1>3 DEF Window, DataStop, EndIndex, LowSlot
<1> HIDE DEF low
<1>5. low \in 0..(BandSlots[b] - 1) /\ low + n + GuardSlots <= BandSlots[b]
    BY <1>1, <1>2, <1>3
<1>6. FreeOn(net, FirstOf(path), b, c, low, low + n + GuardSlots - 1)
    BY <1>1, <1>2, <1>3 DEF FreeOn
<1>7. FreeAlong(net, path, b, c, low, low + n + GuardSlots - 1)
    BY <1>5, <1>6, OthersAreFree DEF low
<1>8. Open(net, path, n, c, b, low)
    BY <1>5, <1>7, OpenIsFree
<1> QED
    BY <1>4, <1>5, <1>8 DEF Fits, Slot

\* The windows handle_first_last comes to, by the loops that come to them.
FoundAt(net, props, flag, i, j, r, s) ==
    LET c == CoreList(props)[i]
        n == props.slots_needed
    IN  /\ i \in DOMAIN CoreList(props) /\ j \in DOMAIN BandList
        /\ r \in OpenRuns(net, {props.path_list[1], props.path_list[2]}, BandList[j], c)
        /\ s \in Reached(r, n, flag, props.forced_index)
        /\ OtherLinksFree(net, props.path_list, BandList[j], c, n, s, EndIndex(s, n))

Entry(props, flag, i, j, r, s) ==
    [rank   |-> Place(flag, i, j, r, IF Descending(flag) THEN -s ELSE s),
     window |-> Window(BandList[j], CoreList(props)[i], s, EndIndex(s, props.slots_needed))]

\* What first, last and forced-index fit find is exactly the starts FoundAt admits.
LEMMA FirstLastMember ==
    ASSUME NEW net, NEW props, NEW flag, NEW p
    PROVE  p \in FirstLast(net, props, flag) <=>
              \E i, j, r, s : FoundAt(net, props, flag, i, j, r, s) /\ p = Entry(props, flag, i, j, r, s)
<1> DEFINE path == props.path_list
           n == props.slots_needed
           cores == CoreList(props)
           fits(i, j, t) ==
               OtherLinksFree(net, path, BandList[j], cores[i], n, t, EndIndex(t, n))
           starts(i, j, r) == {t \in Reached(r, n, flag, props.forced_index) : fits(i, j, t)}
           runs(i, j) == OpenRuns(net, {path[1], path[2]}, BandList[j], cores[i])
           inRun(i, j, r) == {Entry(props, flag, i, j, r, s) : s \in starts(i, j, r)}
           inCore(i, j) == UNION {inRun(i, j, r) : r \in runs(i, j)}
<1>1. FirstLast(net, props, flag) = UNION {inCore(i, j) : i \in DOMAIN cores, j \in DOMAIN BandList}
    BY DEF FirstLast, Entry
<1>2. p \in FirstLast(net, props, flag) <=>
         \E i \in DOMAIN cores, j \in DOMAIN BandList : p \in inCore(i, j)
    <2> HIDE DEF inCore
    <2> QED
        BY <1>1
<1>3. ASSUME NEW i, NEW j
      PROVE  p \in inCore(i, j) <=> \E r \in runs(i, j) : p \in inRun(i, j, r)
    <2> HIDE DEF inRun, runs
    <2> QED
        OBVIOUS
<1>4. ASSUME NEW i, NEW j, NEW r
      PROVE  p \in inRun(i, j, r) <=> \E s \in starts(i, j, r) : p = Entry(props, flag, i, j, r, s)
    <2> HIDE DEF starts
    <2> QED
        OBVIOUS
<1>5. ASSUME NEW i, NEW j, NEW r, NEW s
      PROVE  FoundAt(net, props, flag, i, j, r, s) <=>
                /\ i \in DOMAIN cores /\ j \in DOMAIN BandList /\ r \in runs(i, j)
                /\ s \in starts(i, j, r)
    BY DEF FoundAt
<1> HIDE DEF inCore, inRun, starts, runs, cores
<1> QED
    BY <1>2, <1>3, <1>4, <1>5

-----------------------------------------------------------------------------
\* The props of a search: its path, the slots it needs and what is forced upon it.
PropsOk(props) ==
    /\ IsPath(props.path_list)
    /\ props.slots_needed \in Nat \ {0}
    /\ props.forced_core \in Core \union {None}
    /\ props.forced_index \in Nat \union {None}

\* A core and a start that the props allow.
Permitted(props, c, s) == props.forced_core \in {None, c} /\ props.forced_index \in {None, s}

\* What handle_first_last finds fits, and lies where it is forced to.
LEMMA FirstLastFits ==
    ASSUME SpectrumAssumption, SearchAssumption, GuardSlots <= 1,
           NEW net, NEW props, PropsOk(props), NEW flag, NEW p \in FirstLast(net, props, flag)
    PROVE  /\ Fits(net, props.path_list, props.slots_needed, p.window)
           /\ props.forced_core # None => p.window.core_num = props.forced_core
           /\ flag = "forced_index" /\ AllocationMethod # "last_fit" =>
                  p.window.start_slot = props.forced_index
<1>1. PICK i, j, r, s : FoundAt(net, props, flag, i, j, r, s) /\ p = Entry(props, flag, i, j, r, s)
    BY FirstLastMember
<1>2. /\ BandList[j] \in Band /\ CoreList(props)[i] \in Core
      /\ props.forced_core # None => CoreList(props)[i] = props.forced_core
      /\ props.slots_needed \in Nat \ {0} /\ IsPath(props.path_list)
    <2>1. i \in DOMAIN CoreList(props) /\ j \in DOMAIN BandList
        BY <1>1 DEF FoundAt
    <2>2. BandList[j] \in Band
        BY <2>1 DEF SearchAssumption
    <2> QED
        BY <2>1, <2>2, CoresSearched DEF PropsOk
<1> PICK path : path = props.path_list
    OBVIOUS
<1>3. PICK b \in Band, c \in Core, n \in Nat \ {0} :
          b = BandList[j] /\ c = CoreList(props)[i] /\ n = props.slots_needed
    BY <1>2
<1>4. /\ r \in OpenRuns(net, FirstOf(path), b, c)
      /\ OtherLinksFree(net, path, b, c, n, s, EndIndex(s, n))
      /\ p.window = Window(b, c, s, EndIndex(s, n))
    BY <1>1, <1>3 DEF FoundAt, Entry, FirstOf
<1>5. /\ s \in r[1]..r[2] /\ EndIndex(s, n) \in r[1]..r[2]
      /\ flag = "forced_index" => s = props.forced_index
    <2>1. s \in r[1]..r[2] /\ (flag = "forced_index" => s = props.forced_index)
        BY <1>1 DEF FoundAt, Reached
    <2>2. s <= s /\ s >= s
        BY <2>1, <1>4, RunIsFree
    <2> QED
        BY <1>1, <1>3, <2>1, <2>2 DEF FoundAt, Reached
<1>6. PICK t \in Int : t = s
    BY <1>4, <1>5, RunIsFree
<1>7. /\ r[1] <= t /\ t <= r[2]
      /\ r[1] <= EndIndex(t, n) /\ EndIndex(t, n) <= r[2]
    BY <1>4, <1>5, <1>6, RunIsFree
<1>8. IsPath(path) /\ OtherLinksFree(net, path, b, c, n, t, EndIndex(t, n))
    BY <1>2, <1>3, <1>4, <1>6
<1>9. Fits(net, path, n, Window(b, c, t, EndIndex(t, n)))
    BY <1>4, <1>7, <1>8, RunWindowFits
<1>10. /\ p.window.core_num = c
       /\ AllocationMethod # "last_fit" => p.window.start_slot = t
    BY <1>4, <1>6 DEF Window
<1> QED
    BY <1>2, <1>3, <1>4, <1>5, <1>6, <1>9, <1>10

\* The windows best fit comes to, by the loops that come to them.
FoundBest(net, props, k, c, j, r, s) ==
    LET path == props.path_list
        n    == props.slots_needed
        end  == (s + n + GuardSlots) - 1
    IN  /\ k \in 1..(Len(path) - 1) /\ j \in DOMAIN BandList
        /\ c \in Core /\ props.forced_core \in {None, c}
        /\ r \in OpenRuns(net, {path[k], path[k + 1]}, BandList[j], c)
        /\ RunSize(r) >= n
        /\ s \in r[1]..r[2] /\ end <= r[2]
        /\ OtherLinksFree(net, path, BandList[j], c, n, s, end)

BestEntry(props, k, c, j, r, s) ==
    [rank   |-> <<RunSize(r), k, c, j, r[1], s>>,
     window |-> [curr_band |-> BandList[j], core_num |-> c, start_slot |-> s,
                 end_slot |-> (s + props.slots_needed + GuardSlots) - 1]]

\* What best fit finds is exactly the starts FoundBest admits.
LEMMA BestFitMember ==
    ASSUME NEW net, NEW props, NEW p
    PROVE  p \in BestFit(net, props) <=>
              \E k, c, j, r, s : FoundBest(net, props, k, c, j, r, s) /\ p = BestEntry(props, k, c, j, r, s)
<1> DEFINE path == props.path_list
           n == props.slots_needed
           cores == {c \in Core : props.forced_core \in {None, c}}
           end(s) == (s + n + GuardSlots) - 1
           fits(c, j, t) == OtherLinksFree(net, path, BandList[j], c, n, t, end(t))
           starts(c, j, r) == {t \in r[1]..r[2] : end(t) <= r[2] /\ fits(c, j, t)}
           runs(k, c, j) == {q \in OpenRuns(net, {path[k], path[k + 1]}, BandList[j], c) :
                               RunSize(q) >= n}
           inRun(k, c, j, r) == {BestEntry(props, k, c, j, r, s) : s \in starts(c, j, r)}
           inCore(k, c, j) == UNION {inRun(k, c, j, r) : r \in runs(k, c, j)}
<1>1. BestFit(net, props) =
        UNION {inCore(k, c, j) : k \in 1..(Len(path) - 1), c \in cores, j \in DOMAIN BandList}
    BY DEF BestFit, BestEntry
<1>2. p \in BestFit(net, props) <=>
        \E k \in 1..(Len(path) - 1), c \in cores, j \in DOMAIN BandList : p \in inCore(k, c, j)
    <2> HIDE DEF inCore, cores, path
    <2> QED
        BY <1>1, SMT
<1>3. ASSUME NEW k, NEW c, NEW j
      PROVE  p \in inCore(k, c, j) <=> \E r \in runs(k, c, j) : p \in inRun(k, c, j, r)
    <2> HIDE DEF inRun, runs
    <2> QED
        OBVIOUS
<1>4. ASSUME NEW k, NEW c, NEW j, NEW r
      PROVE  p \in inRun(k, c, j, r) <=> \E s \in starts(c, j, r) : p = BestEntry(props, k, c, j, r, s)
    <2> HIDE DEF starts
    <2> QED
        OBVIOUS
<1>5. ASSUME NEW k, NEW c, NEW j, NEW r, NEW s
      PROVE  FoundBest(net, props, k, c, j, r, s) <=>
                /\ k \in 1..(Len(path) - 1) /\ c \in cores /\ j \in DOMAIN BandList
                /\ r \in runs(k, c, j) /\ s \in starts(c, j, r)
    BY DEF FoundBest
<1> HIDE DEF inCore, inRun, starts, runs, cores, path
<1> QED
    BY <1>2, <1>3, <1>4, <1>5

\* A window in a run of any link that _check_free_spectrum accepts fits, without guard slots.
LEMMA BestWindowFits ==
    ASSUME SpectrumAssumption, AllocationMethod = "best_fit", GuardSlots = 0,
           NEW net, NEW path, IsPath(path), NEW b \in Band, NEW c \in Core, NEW n \in Nat \ {0},
           NEW k \in 1..(Len(path) - 1),
           NEW r \in OpenRuns(net, {path[k], path[k + 1]}, b, c), NEW s \in Int,
           r[1] <= s, s + n - 1 <= r[2],
           OtherLinksFree(net, path, b, c, n, s, EndIndex(s, n))
    PROVE  /\ Open(net, path, n, c, b, s)
           /\ s \in Slot(b)
<1> PICK l : l = {path[k], path[k + 1]}
    OBVIOUS
<1>1. /\ r[1] \in 0..(BandSlots[b] - 1) /\ r[2] \in 0..(BandSlots[b] - 1)
      /\ FreeOn(net, l, b, c, r[1], r[2])
    <2>1. r \in OpenRuns(net, l, b, c)
        OBVIOUS
    <2> QED
        BY <2>1, RunIsFree
<1>2. BandSlots[b] \in Nat
    BY DEF SpectrumAssumption
<1>3. s \in 0..(BandSlots[b] - 1) /\ s + n + GuardSlots <= BandSlots[b]
    BY <1>1, <1>2
<1>4. FreeOn(net, l, b, c, s, s + n + GuardSlots - 1)
    BY <1>1, <1>2 DEF FreeOn
<1>5. LowSlot(s, n) = s
    BY DEF LowSlot
<1>6. FreeAlong(net, path, b, c, s, s + n + GuardSlots - 1)
    <2>1. CASE Len(path) <= 2
        <3>0. Len(path) \in Nat /\ Len(path) >= 2
            BY DEF IsPath
        <3>1. \A m \in Nat : m >= 2 /\ m <= 2 => m = 2
            OBVIOUS
        <3>2. k = 1
            BY <2>1, <3>0, <3>1
        <3>3. \A m \in LinksOf(path) : m = FirstOf(path)
            BY <2>1, FirstLink
        <3>4. l = FirstOf(path)
            BY <3>2 DEF FirstOf
        <3>5. \A m \in LinksOf(path) : m = l
            BY <3>3, <3>4
        <3> QED
            BY <1>4, <3>5 DEF FreeAlong
    <2>2. CASE ~(Len(path) <= 2)
        <3>1. Len(path) > 2
            BY <2>2 DEF IsPath
        <3>2. \A m \in LinksOf(path) : CheckFreeSpectrum(net, m, b, c, n, s, EndIndex(s, n))
            BY <3>1 DEF OtherLinksFree
        <3> SUFFICES ASSUME NEW m \in LinksOf(path)
                     PROVE  FreeOn(net, m, b, c, s, s + n + GuardSlots - 1)
            BY DEF FreeAlong
        <3>3. CheckFreeSpectrum(net, m, b, c, n, s, EndIndex(s, n))
            BY <3>2
        <3>4. LowSlot(s, n) >= 0 /\ LowSlot(s, n) + n + GuardSlots <= BandSlots[b]
            BY <1>3, <1>5
        <3>5. FreeOn(net, m, b, c, LowSlot(s, n), LowSlot(s, n) + n + GuardSlots - 1)
            BY <3>3, <3>4, CheckedIsFree
        <3> QED
            BY <1>5, <3>5
    <2> QED
        BY <2>1, <2>2
<1> QED
    BY <1>3, <1>6, OpenIsFree DEF Slot

\* What best fit finds without guard slots fits.
LEMMA BestFitFits ==
    ASSUME SpectrumAssumption, SearchAssumption, AllocationMethod = "best_fit", GuardSlots = 0,
           NEW net, NEW props, PropsOk(props), NEW p \in BestFit(net, props)
    PROVE  /\ Fits(net, props.path_list, props.slots_needed, p.window)
           /\ props.forced_core # None => p.window.core_num = props.forced_core
<1>1. PICK k, c, j, r, s : FoundBest(net, props, k, c, j, r, s) /\ p = BestEntry(props, k, c, j, r, s)
    BY BestFitMember
<1>2. /\ BandList[j] \in Band /\ c \in Core
      /\ props.forced_core # None => c = props.forced_core
      /\ props.slots_needed \in Nat \ {0} /\ IsPath(props.path_list)
    <2>1. j \in DOMAIN BandList /\ c \in Core /\ props.forced_core \in {None, c}
        BY <1>1 DEF FoundBest
    <2>2. BandList[j] \in Band
        BY <2>1 DEF SearchAssumption
    <2> QED
        BY <2>1, <2>2 DEF PropsOk
<1> PICK path : path = props.path_list
    OBVIOUS
<1>3. PICK b \in Band, n \in Nat \ {0} : b = BandList[j] /\ n = props.slots_needed
    BY <1>2
<1>4. /\ k \in 1..(Len(path) - 1)
      /\ r \in OpenRuns(net, {path[k], path[k + 1]}, b, c)
      /\ s \in r[1]..r[2] /\ (s + n + GuardSlots) - 1 <= r[2]
      /\ OtherLinksFree(net, path, b, c, n, s, (s + n + GuardSlots) - 1)
    BY <1>1, <1>3 DEF FoundBest
<1>5. r[1] \in Int /\ r[2] \in Int
    <2>1. r \in OpenRuns(net, {path[k], path[k + 1]}, b, c)
        BY <1>4
    <2> QED
        BY <2>1, RunIsFree
<1>6. PICK t \in Int : t = s
    BY <1>4, <1>5
<1>7. /\ r[1] <= t /\ t + n - 1 <= r[2]
      /\ EndIndex(t, n) = t + n - 1
      /\ (s + n + GuardSlots) - 1 = EndIndex(t, n)
    BY <1>4, <1>5, <1>6 DEF EndIndex
<1>8. OtherLinksFree(net, path, b, c, n, t, EndIndex(t, n))
    BY <1>4, <1>6, <1>7
<1>9. Open(net, path, n, c, b, t) /\ t \in Slot(b)
    BY <1>2, <1>3, <1>4, <1>7, <1>8, BestWindowFits
<1>10. /\ p.window.curr_band = b /\ p.window.core_num = c /\ p.window.start_slot = t
       /\ p.window.end_slot = t + n - 1
    BY <1>1, <1>3, <1>6, <1>7 DEF BestEntry
<1>11. DataStop(p.window) = t + n
    BY <1>10 DEF DataStop
<1> QED
    BY <1>2, <1>3, <1>9, <1>10, <1>11 DEF Fits

\* What a search finds fits, and lies where it is forced to.
LEMMA PassingFits ==
    ASSUME SpectrumAssumption, SearchAssumption, SearchFits,
           NEW net, NEW props, PropsOk(props), NEW p \in Passing(net, props)
    PROVE  /\ Fits(net, props.path_list, props.slots_needed, p.window)
           /\ props.forced_core # None => p.window.core_num = props.forced_core
           /\ props.forced_index # None /\ AllocationMethod # "last_fit" =>
                  p.window.start_slot = props.forced_index
<1>1. GuardSlots <= 1
    BY DEF SearchFits
<1>2. CASE props.forced_index # None
    BY <1>1, <1>2, FirstLastFits DEF Passing
<1>3. CASE props.forced_index = None /\ AllocationMethod = "best_fit"
    BY <1>3, BestFitFits DEF Passing, SearchFits
<1>4. CASE props.forced_index = None /\ AllocationMethod # "best_fit"
    BY <1>1, <1>4, FirstLastFits DEF Passing
<1> QED
    BY <1>2, <1>3, <1>4

\* The window a search answers with fits and lies where it is permitted.
LEMMA AssignedFits ==
    ASSUME SpectrumAssumption, SearchAssumption, SearchFits,
           NEW net, NEW props, PropsOk(props), IsFree(net, props)
    PROVE  LET w == Assigned(net, props)
           IN  /\ Fits(net, props.path_list, props.slots_needed, w)
               /\ AllocationMethod # "last_fit" \/ props.forced_index = None =>
                      Permitted(props, w.core_num, w.start_slot)
<1>1. First(Passing(net, props)) \in Passing(net, props)
    BY FirstIsOneOf DEF IsFree
<1> QED
    BY <1>1, PassingFits DEF Assigned, Permitted

\* allocate accepts a window that fits.
LEMMA FitsIsWritten ==
    ASSUME SpectrumAssumption, NEW net, NEW path, NEW n \in Nat \ {0}, NEW w, Fits(net, path, n, w),
           GuardSlots <= 1
    PROVE  CanAllocate(net, path, w)
<1>0. PICK b \in Band, c \in Core, s \in Int :
          b = w.curr_band /\ c = w.core_num /\ s = w.start_slot /\ s \in Slot(b)
    BY DEF Fits, Slot
<1>1. /\ DataStop(w) = s + n
      /\ Open(net, path, n, c, b, s)
      /\ BandSlots[b] \in Nat /\ GuardSlots \in 0..1
    BY <1>0 DEF Fits, SpectrumAssumption
<1>2. s \in Nat /\ s + n + GuardSlots <= BandSlots[b]
      /\ FreeAlong(net, path, b, c, s, s + n + GuardSlots - 1)
    BY <1>0, <1>1, OpenIsFree DEF Slot
<1> SUFFICES ASSUME NEW l \in LinksOf(path)
             PROVE  CanWrite(net, l, w)
    BY DEF CanAllocate
<1>3. FreeOn(net, l, b, c, s, s + n + GuardSlots - 1)
    BY <1>2 DEF FreeAlong
<1>4. Slice(net, l, b, c, s, s + n) = {0}
    <2>1. s \in Slot(b) /\ s <= s /\ s < s + n
        BY <1>0, <1>1, <1>2
    <2>2. \A t \in Slot(b) : s <= t /\ t < s + n => net[<<l, b, c, t>>] = 0
        BY <1>1, <1>2, <1>3 DEF FreeOn, Slot
    <2>3. 0 \in Slice(net, l, b, c, s, s + n)
        BY <2>1, <2>2 DEF Slice
    <2>4. \A x \in Slice(net, l, b, c, s, s + n) : x = 0
        BY <2>2 DEF Slice
    <2> QED
        BY <2>3, <2>4
<1>5. GuardSlots # 0 => s + n \in Slot(b) /\ net[<<l, b, c, s + n>>] = 0
    BY <1>1, <1>2, <1>3 DEF Slot, FreeOn
<1> QED
    BY <1>0, <1>1, <1>4, <1>5 DEF CanWrite

-----------------------------------------------------------------------------
\* check_super_channels gets to every start of a run whose window lies in the run.
LEMMA StartIsReached ==
    ASSUME SpectrumAssumption, AllocationMethod # "last_fit",
           NEW net, NEW l, NEW b \in Band, NEW c, NEW r \in OpenRuns(net, l, b, c),
           NEW n \in Nat \ {0}, NEW flag, ~Descending(flag), NEW s \in Int, NEW forced,
           flag = "forced_index" => s = forced,
           r[1] <= s, s + n + GuardSlots - 1 <= r[2]
    PROVE  s \in Reached(r, n, flag, forced)
<1>1. r[1] \in Int /\ r[2] \in Int /\ GuardSlots \in Nat
    BY RunIsFree DEF SpectrumAssumption
<1> DEFINE starts == {t \in r[1]..r[2] : flag = "forced_index" => t = forced}
<1>2. s \in starts
    BY <1>1
<1>3. FitsIn(r, n)
    BY <1>1 DEF FitsIn, RunSize
<1>4. ASSUME NEW t \in starts, t <= s
      PROVE  EndIndex(t, n) \in r[1]..r[2]
    BY <1>1, <1>4 DEF EndIndex
<1> QED
    BY <1>2, <1>3, <1>4 DEF Reached

\* The methods that find a window whenever one is open: last fit rejects every window of
\* a path of several links, the descending priority search gives up at its first start,
\* and the priority order only names seven cores.
SearchIsComplete ==
    \/ AllocationMethod = "first_fit"
    \/ AllocationMethod = "priority_first" /\ CoresPerLink = 7
    \/ AllocationMethod = "best_fit"

\* check_other_links accepts an open window.
LEMMA OthersAccept ==
    ASSUME SpectrumAssumption, GuardSlots <= 1, AllocationMethod # "last_fit",
           NEW net, NEW path, NEW b \in Band, NEW c, NEW n \in Nat \ {0}, NEW s \in Nat,
           Open(net, path, n, c, b, s)
    PROVE  OtherLinksFree(net, path, b, c, n, s, EndIndex(s, n))
<1>1. s + n + GuardSlots <= BandSlots[b] /\ FreeAlong(net, path, b, c, s, s + n + GuardSlots - 1)
    BY OpenIsFree
<1>2. ASSUME NEW l \in LinksOf(path)
      PROVE  CheckFreeSpectrum(net, l, b, c, n, s, EndIndex(s, n))
    <2>1. FreeOn(net, l, b, c, s, s + n + GuardSlots - 1)
        BY <1>1 DEF FreeAlong
    <2> QED
        BY <1>1, <2>1, FreeIsChecked
<1> QED
    BY <1>2 DEF OtherLinksFree

\* The window of n data slots and the guard slots at s lies in the run.
Around(r, s, n) ==
    /\ r[1] \in Int /\ r[2] \in Int
    /\ r[1] <= s /\ s + n + GuardSlots - 1 <= r[2]

\* n slots and their guard lying in a run fit in it.
LEMMA AroundFits ==
    ASSUME SpectrumAssumption, NEW r, NEW s \in Nat, NEW n \in Nat \ {0}, Around(r, s, n)
    PROVE  RunSize(r) >= n /\ s \in r[1]..r[2] /\ (s + n + GuardSlots) - 1 <= r[2]
<1>1. GuardSlots \in Nat
    BY DEF SpectrumAssumption
<1> QED
    BY <1>1 DEF Around, RunSize

\* On each link of the path, an open window lies in a run.
LEMMA OpenLiesInRun ==
    ASSUME SpectrumAssumption, NEW net, NEW path, NEW b \in Band, NEW c,
           NEW n \in Nat \ {0}, NEW s \in Nat, Open(net, path, n, c, b, s), NEW l \in LinksOf(path)
    PROVE  \E r \in OpenRuns(net, l, b, c) : Around(r, s, n)
<1>1. s + n + GuardSlots <= BandSlots[b] /\ FreeAlong(net, path, b, c, s, s + n + GuardSlots - 1)
    BY OpenIsFree
<1>2. FreeOn(net, l, b, c, s, s + n + GuardSlots - 1)
    BY <1>1 DEF FreeAlong
<1>3. GuardSlots \in Nat /\ BandSlots[b] \in Nat
    BY DEF SpectrumAssumption
<1>4. PICK high \in Int : high = s + n + GuardSlots - 1
    BY <1>3
<1>5. s <= high /\ high < BandSlots[b] /\ FreeOn(net, l, b, c, s, high)
    BY <1>1, <1>2, <1>3, <1>4
<1>6. PICK r \in OpenRuns(net, l, b, c) : r[1] <= s /\ high <= r[2]
    BY <1>5, RunAround
<1>7. r[1] \in Int /\ r[2] \in Int
    BY RunIsFree
<1> QED
    BY <1>4, <1>6, <1>7 DEF Around

\* handle_first_last comes to every open window on the cores and bands it goes through.
LEMMA OpenIsFound ==
    ASSUME SpectrumAssumption, SearchAssumption, GuardSlots <= 1, AllocationMethod # "last_fit",
           NEW net, NEW props, PropsOk(props), NEW flag, ~Descending(flag),
           NEW i \in DOMAIN CoreList(props), NEW j \in DOMAIN BandList, NEW s \in Nat,
           flag = "forced_index" => s = props.forced_index,
           Open(net, props.path_list, props.slots_needed, CoreList(props)[i], BandList[j], s)
    PROVE  \E r : FoundAt(net, props, flag, i, j, r, s)
<1>0. BandList[j] \in Band /\ props.slots_needed \in Nat \ {0}
    BY DEF PropsOk, SearchAssumption
<1> PICK path, c : path = props.path_list /\ c = CoreList(props)[i]
    OBVIOUS
<1>1. PICK b \in Band, n \in Nat \ {0} : b = BandList[j] /\ n = props.slots_needed
    BY <1>0
<1>2. IsPath(path) /\ Open(net, path, n, c, b, s)
    BY <1>1 DEF PropsOk
<1>3. OtherLinksFree(net, path, b, c, n, s, EndIndex(s, n))
    BY <1>2, OthersAccept
<1>4. FirstOf(path) \in LinksOf(path)
    BY <1>2, FirstLink
<1>5. PICK r \in OpenRuns(net, FirstOf(path), b, c) : Around(r, s, n)
    BY <1>2, <1>4, OpenLiesInRun
<1>6. s \in Reached(r, n, flag, props.forced_index)
    <2>1. r[1] <= s /\ s + n + GuardSlots - 1 <= r[2] /\ s \in Int
        BY <1>5 DEF Around
    <2>2. PICK forced : forced = props.forced_index
        OBVIOUS
    <2>3. flag = "forced_index" => s = forced
        BY <2>2
    <2> QED
        BY <2>1, <2>2, <2>3, StartIsReached
<1> QED
    BY <1>1, <1>3, <1>5, <1>6 DEF FoundAt, FirstOf

\* So does best fit.
LEMMA OpenIsFoundBest ==
    ASSUME SpectrumAssumption, SearchAssumption, SearchFits, AllocationMethod = "best_fit",
           NEW net, NEW props, PropsOk(props),
           NEW c \in Core, NEW s \in Nat, Permitted(props, c, s), NEW j \in DOMAIN BandList,
           Open(net, props.path_list, props.slots_needed, c, BandList[j], s)
    PROVE  \E r : FoundBest(net, props, 1, c, j, r, s)
<1>0. BandList[j] \in Band /\ props.slots_needed \in Nat \ {0}
    BY DEF PropsOk, SearchAssumption
<1> PICK path : path = props.path_list
    OBVIOUS
<1>1. PICK b \in Band, n \in Nat \ {0} : b = BandList[j] /\ n = props.slots_needed
    BY <1>0
<1>2. IsPath(path) /\ Open(net, path, n, c, b, s)
    BY <1>1 DEF PropsOk
<1>3. OtherLinksFree(net, path, b, c, n, s, EndIndex(s, n))
    <2>1. GuardSlots <= 1 /\ AllocationMethod # "last_fit"
        BY DEF SearchFits
    <2> QED
        BY <1>2, <2>1, OthersAccept
<1>4. PICK r \in OpenRuns(net, FirstOf(path), b, c) : Around(r, s, n)
    <2>1. FirstOf(path) \in LinksOf(path)
        BY <1>2, FirstLink
    <2> QED
        BY <1>2, <2>1, OpenLiesInRun
<1>5. RunSize(r) >= n /\ s \in r[1]..r[2] /\ (s + n + GuardSlots) - 1 <= r[2]
    BY <1>4, AroundFits
<1>6. 1 \in 1..(Len(path) - 1)
    BY <1>2, FirstLink
<1>7. (s + n + GuardSlots) - 1 = EndIndex(s, n)
    BY DEF EndIndex
<1> QED
    <2>1. FoundBest(net, props, 1, c, j, r, s)
        <3>1. 1 + 1 = 2
            OBVIOUS
        <3>2. r \in OpenRuns(net, {path[1], path[1 + 1]}, b, c)
            BY <1>4, <3>1 DEF FirstOf
        <3> QED
            BY <1>1, <1>3, <1>5, <1>6, <1>7, <3>2 DEF FoundBest, Permitted
    <2> QED
        BY <2>1

\* The priority order names the cores of the fiber.
CoresAreNamed == AllocationMethod \in {"priority_first", "priority_last"} => CoresPerLink = 7

\* A core is one of those a search goes through.
IsSearched(props, c) == \E i \in DOMAIN CoreList(props) : CoreList(props)[i] = c

\* A search without a forced core goes through every core, a search with one through that.
LEMMA CoreIsSearched ==
    ASSUME SpectrumAssumption, SearchAssumption, CoresAreNamed,
           NEW props, NEW s, NEW c \in Core, Permitted(props, c, s)
    PROVE  IsSearched(props, c)
<1> SUFFICES \E i \in DOMAIN CoreList(props) : CoreList(props)[i] = c
    BY DEF IsSearched
<1>1. CASE props.forced_core # None
    <2>1. CoreList(props) = <<c>>
        BY <1>1 DEF CoreList, Permitted
    <2>2. 1 \in DOMAIN CoreList(props) /\ CoreList(props)[1] = c
        BY <2>1
    <2> QED
        BY <2>2
<1>2. CASE props.forced_core = None /\ AllocationMethod \in {"priority_first", "priority_last"}
    <2> DEFINE order == <<0, 2, 4, 1, 3, 5, 6>>
    <2>1. CoreList(props) = order
        BY <1>2 DEF CoreList
    <2>2. c \in 0..6
        BY <1>2 DEF Core, CoresAreNamed
    <2>3. \E i \in 1..7 : <<0, 2, 4, 1, 3, 5, 6>>[i] = c
        <3>1. /\ <<0, 2, 4, 1, 3, 5, 6>>[1] = 0 /\ <<0, 2, 4, 1, 3, 5, 6>>[4] = 1
              /\ <<0, 2, 4, 1, 3, 5, 6>>[2] = 2 /\ <<0, 2, 4, 1, 3, 5, 6>>[5] = 3
              /\ <<0, 2, 4, 1, 3, 5, 6>>[3] = 4 /\ <<0, 2, 4, 1, 3, 5, 6>>[6] = 5
              /\ <<0, 2, 4, 1, 3, 5, 6>>[7] = 6
            OBVIOUS
        <3>2. c = 0 \/ c = 1 \/ c = 2 \/ c = 3 \/ c = 4 \/ c = 5 \/ c = 6
            BY <2>2
        <3> QED
            BY <3>1, <3>2
    <2>4. PICK i \in 1..7 : <<0, 2, 4, 1, 3, 5, 6>>[i] = c
        BY <2>3
    <2>5. i \in DOMAIN CoreList(props)
        BY <2>1
    <2>6. CoreList(props)[i] = c
        BY <2>1, <2>4
    <2> QED
        BY <2>5, <2>6
<1>3. CASE props.forced_core = None /\ AllocationMethod \notin {"priority_first", "priority_last"}
    <2>1. CoreList(props) = [i \in 1..CoresPerLink |-> i - 1]
        BY <1>3 DEF CoreList
    <2>2. c + 1 \in 1..CoresPerLink /\ (c + 1) - 1 = c
        BY DEF Core, SpectrumAssumption
    <2>3. c + 1 \in DOMAIN CoreList(props) /\ CoreList(props)[c + 1] = c
        BY <2>1, <2>2
    <2> QED
        BY <2>3
<1> QED
    BY <1>1, <1>2, <1>3

\* A search is only turned away when no window is open where it may look.
LEMMA OpenIsNotMissed ==
    ASSUME SpectrumAssumption, SearchAssumption, SearchFits, SearchIsComplete,
           NEW net, NEW props, PropsOk(props),
           NEW c \in Core, NEW b \in Band, NEW s \in Slot(b), Permitted(props, c, s),
           Open(net, props.path_list, props.slots_needed, c, b, s)
    PROVE  IsFree(net, props)
<1>1. GuardSlots <= 1 /\ AllocationMethod # "last_fit" /\ s \in Nat
    BY DEF SearchFits, SearchIsComplete, Slot
<1>2. props.forced_core \in {None, c} /\ props.forced_index \in {None, s}
    BY DEF Permitted
<1>3. PICK i \in DOMAIN CoreList(props) : CoreList(props)[i] = c
    <2>1. CoresAreNamed
        BY DEF SearchIsComplete, CoresAreNamed
    <2>2. IsSearched(props, c)
        BY <2>1, CoreIsSearched
    <2> QED
        BY <2>2 DEF IsSearched
<1>4. PICK j \in DOMAIN BandList : BandList[j] = b
    <2>1. BandList \in Seq(Band)
        BY DEF SearchAssumption
    <2>2. \E j \in 1..Len(BandList) : BandList[j] = b
        BY Zenon DEF SearchAssumption
    <2>3. DOMAIN BandList = 1..Len(BandList)
        BY <2>1
    <2> QED
        BY <2>2, <2>3, Zenon
<1>5. ASSUME NEW flag, ~Descending(flag), flag = "forced_index" => s = props.forced_index
      PROVE  FirstLast(net, props, flag) # {}
    <2>1. PICK r : FoundAt(net, props, flag, i, j, r, s)
        BY <1>1, <1>3, <1>4, <1>5, OpenIsFound
    <2>2. Entry(props, flag, i, j, r, s) \in FirstLast(net, props, flag)
        BY <2>1, FirstLastMember
    <2> QED
        BY <2>2
<1>6. CASE props.forced_index # None
    <2>1. ~Descending("forced_index") /\ s = props.forced_index
        BY <1>2, <1>6 DEF Descending
    <2>2. FirstLast(net, props, "forced_index") # {}
        BY <1>5, <2>1
    <2> QED
        BY <1>6, <2>2 DEF IsFree, Passing
<1>7. CASE props.forced_index = None /\ AllocationMethod # "best_fit"
    <2>1. ~Descending(AllocationMethod) /\ AllocationMethod # "forced_index"
        BY <1>7 DEF Descending, SearchIsComplete
    <2>2. FirstLast(net, props, AllocationMethod) # {}
        BY <1>5, <2>1
    <2> QED
        BY <1>7, <2>2 DEF IsFree, Passing
<1>8. CASE props.forced_index = None /\ AllocationMethod = "best_fit"
    <2>2. PICK r : FoundBest(net, props, 1, c, j, r, s)
        BY <1>1, <1>2, <1>4, <1>8, OpenIsFoundBest
    <2>3. BestEntry(props, 1, c, j, r, s) \in BestFit(net, props)
        BY <2>2, BestFitMember
    <2> QED
        BY <1>8, <2>3 DEF IsFree, Passing
<1> QED
    BY <1>6, <1>7, <1>8

-----------------------------------------------------------------------------
RankOk(p) == \A m \in 1..4 : p.rank[m] \in Nat

\* Of the entries of a set, those whose rank is least at place m.
LeastAt(S, m) == {p \in S : \A q \in S : p.rank[m] <= q.rank[m]}

\* Among ranks of naturals one is least at a given place.
LEMMA LeastAtExists ==
    ASSUME NEW S, S # {}, \A p \in S : RankOk(p), NEW m \in 1..4
    PROVE  LeastAt(S, m) # {} /\ LeastAt(S, m) \subseteq S
<1> DEFINE T == {p.rank[m] : p \in S}
<1>1. T \subseteq Nat /\ T # {}
    BY DEF RankOk
<1>2. PICK least \in T : \A k \in T : least <= k
    <2> HIDE DEF T
    <2> QED
        BY <1>1, LeastNatural
<1>3. PICK p \in S : p.rank[m] = least
    OBVIOUS
<1>4. p \in LeastAt(S, m)
    BY <1>2, <1>3 DEF LeastAt
<1> QED
    BY <1>4 DEF LeastAt

\* When ranks are four natural numbers and no two entries share one, the entry First
\* answers with precedes all others.
LEMMA FirstIsLeast ==
    ASSUME NEW S, S # {},
           \A p \in S : RankOk(p) /\ DOMAIN p.rank = 1..4,
           \A p, q \in S : (\A m \in 1..4 : p.rank[m] = q.rank[m]) => p = q
    PROVE  /\ First(S) \in S
           /\ \A q \in S \ {First(S)} : Precedes(First(S).rank, q.rank)
<1> DEFINE S1 == LeastAt(S, 1)
           S2 == LeastAt(S1, 2)
           S3 == LeastAt(S2, 3)
           S4 == LeastAt(S3, 4)
           least == {p \in S : \A q \in S \ {p} : Precedes(p.rank, q.rank)}
<1>1. S1 # {} /\ S1 \subseteq S
    BY LeastAtExists
<1>2. S2 # {} /\ S2 \subseteq S1
    <2> HIDE DEF S1
    <2>1. \A p \in S1 : RankOk(p)
        BY <1>1
    <2> QED
        BY <1>1, <2>1, LeastAtExists
<1>3. S3 # {} /\ S3 \subseteq S2
    <2> HIDE DEF S2
    <2>1. \A p \in S2 : RankOk(p)
        BY <1>1, <1>2
    <2> QED
        BY <1>2, <2>1, LeastAtExists
<1>4. S4 # {} /\ S4 \subseteq S3
    <2> HIDE DEF S1, S2, S3
    <2>1. \A p \in S3 : RankOk(p)
        BY <1>1, <1>2, <1>3
    <2>2. LeastAt(S3, 4) # {} /\ LeastAt(S3, 4) \subseteq S3
        BY <1>3, <2>1, LeastAtExists
    <2> QED
        BY <2>2
<1>5. PICK p : p \in S4
    BY <1>4
<1>6. p \in S /\ p \in S1 /\ p \in S2 /\ p \in S3
    BY <1>1, <1>2, <1>3, <1>4, <1>5
<1>7. ASSUME NEW q \in S \ {p}
      PROVE  Precedes(p.rank, q.rank)
    <2> DEFINE pr(m) == p.rank[m]
               qr(m) == q.rank[m]
    <2>1. \A m \in 1..4 : pr(m) \in Nat /\ qr(m) \in Nat
        BY <1>6 DEF RankOk
    <2>2. DOMAIN p.rank = 1..4
        BY <1>6
    <2>3. pr(1) <= qr(1)
        BY <1>6 DEF LeastAt
    <2>4. pr(1) = qr(1) => q \in S1 /\ pr(2) <= qr(2)
        <3>1. pr(1) = qr(1) => q \in S1
            BY <1>6 DEF LeastAt
        <3>2. q \in S1 => pr(2) <= qr(2)
            <4> HIDE DEF S1
            <4> QED
                BY <1>6 DEF LeastAt
        <3> QED
            BY <3>1, <3>2
    <2>5. pr(1) = qr(1) /\ pr(2) = qr(2) => q \in S2 /\ pr(3) <= qr(3)
        <3>1. q \in S1 /\ pr(2) = qr(2) => q \in S2
            <4> HIDE DEF S1
            <4> QED
                BY <1>6 DEF LeastAt
        <3>2. q \in S2 => pr(3) <= qr(3)
            <4> HIDE DEF S2
            <4> QED
                BY <1>6 DEF LeastAt
        <3> HIDE DEF S1, S2, pr, qr
        <3> QED
            BY <2>4, <3>1, <3>2
    <2>6. pr(1) = qr(1) /\ pr(2) = qr(2) /\ pr(3) = qr(3) => pr(4) <= qr(4)
        <3>1. q \in S2 /\ pr(3) = qr(3) => q \in S3
            <4> HIDE DEF S2
            <4> QED
                BY <1>6 DEF LeastAt
        <3>2. q \in S3 => pr(4) <= qr(4)
            <4> HIDE DEF S3
            <4> QED
                BY <1>5 DEF LeastAt
        <3> HIDE DEF S2, S3, pr, qr
        <3> QED
            BY <2>5, <3>1, <3>2
    <2>7. ~(pr(1) = qr(1) /\ pr(2) = qr(2) /\ pr(3) = qr(3) /\ pr(4) = qr(4))
        <3>1. (\A m \in 1..4 : p.rank[m] = q.rank[m]) => p = q
            BY <1>6
        <3> QED
            BY <3>1
    <2>8. \E m \in 1..4 : pr(m) < qr(m) /\ \A k \in 1..(m - 1) : pr(k) = qr(k)
        <3> HIDE DEF S1, S2, S3, pr, qr
        <3>1. CASE pr(1) < qr(1)
            BY <3>1
        <3>2. CASE pr(1) = qr(1) /\ pr(2) < qr(2)
            BY <3>2
        <3>3. CASE pr(1) = qr(1) /\ pr(2) = qr(2) /\ pr(3) < qr(3)
            BY <3>3
        <3>4. CASE pr(1) = qr(1) /\ pr(2) = qr(2) /\ pr(3) = qr(3) /\ pr(4) < qr(4)
            BY <3>4
        <3>5. pr(1) \in Nat /\ pr(2) \in Nat /\ pr(3) \in Nat /\ pr(4) \in Nat
              /\ qr(1) \in Nat /\ qr(2) \in Nat /\ qr(3) \in Nat /\ qr(4) \in Nat
            BY <2>1
        <3> QED
            BY <2>3, <2>4, <2>5, <2>6, <2>7, <3>1, <3>2, <3>3, <3>4, <3>5
    <2> QED
        BY <2>2, <2>8 DEF Precedes
<1>8. p \in least
    BY <1>6, <1>7
<1>9. First(S) \in least
    <2> HIDE DEF least
    <2>1. \E x \in S : least # {} => x \in least
        BY <1>8, <1>6
    <2>2. LET x == CHOOSE x \in S : least # {} => x \in least IN least # {} => x \in least
        BY <2>1
    <2>3. First(S) = CHOOSE x \in S : least # {} => x \in least
        BY DEF First, least
    <2> QED
        BY <1>8, <2>2, <2>3
<1> QED
    BY <1>9

-----------------------------------------------------------------------------
\* The runs of the first link that a search goes through at core i and band j.
FirstRuns(net, props, i, j) ==
    OpenRuns(net, {props.path_list[1], props.path_list[2]}, BandList[j], CoreList(props)[i])

\* Of two runs of one core, the one that starts first ends before the other starts.
LEMMA FirstRunsApart ==
    ASSUME SpectrumAssumption, NEW net, NEW props, NEW i, NEW j, BandList[j] \in Band,
           NEW q \in FirstRuns(net, props, i, j), NEW r \in FirstRuns(net, props, i, j)
    PROVE  /\ q[1] < r[1] => q[2] < r[1]
           /\ q[1] = r[1] => q = r
           /\ q[1] \in Nat /\ q[2] \in Nat
<1> PICK l, c : l = {props.path_list[1], props.path_list[2]} /\ c = CoreList(props)[i]
    OBVIOUS
<1>1. q \in OpenRuns(net, l, BandList[j], c) /\ r \in OpenRuns(net, l, BandList[j], c)
    BY DEF FirstRuns
<1>2. /\ q[1] < r[1] => q[2] < r[1]
      /\ q[1] = r[1] => q = r
    BY <1>1, RunsApart
<1>3. q[1] \in 0..(BandSlots[BandList[j]] - 1) /\ q[2] \in 0..(BandSlots[BandList[j]] - 1)
    BY <1>1, RunIsFree
<1> QED
    BY <1>2, <1>3

\* The places of a search and its starts are natural numbers.
LEMMA FoundType ==
    ASSUME SpectrumAssumption, SearchAssumption, NEW net, NEW props, NEW flag,
           NEW i, NEW j, NEW r, NEW s, FoundAt(net, props, flag, i, j, r, s)
    PROVE  /\ i \in Nat /\ j \in Nat /\ i \in DOMAIN CoreList(props) /\ j \in DOMAIN BandList
           /\ BandList[j] \in Band /\ r \in FirstRuns(net, props, i, j)
           /\ r[1] \in Nat /\ r[2] \in Nat /\ s \in Nat /\ r[1] <= s /\ s <= r[2]
<1>1. i \in DOMAIN CoreList(props) /\ j \in DOMAIN BandList
    BY DEF FoundAt
<1>2. BandList[j] \in Band /\ j \in Nat
    <2>1. PICK m \in Nat : BandList \in [1..m -> Band]
        BY DEF SearchAssumption
    <2>2. j \in 1..m
        BY <1>1, <2>1
    <2> QED
        BY <2>1, <2>2
<1>3. i \in Nat
    <2>1. CASE props.forced_core # None
        <3>1. CoreList(props) = <<props.forced_core>>
            BY <2>1 DEF CoreList
        <3>2. DOMAIN CoreList(props) = 1..1
            BY <3>1
        <3> QED
            BY <1>1, <3>2
    <2>2. CASE props.forced_core = None /\ AllocationMethod \in {"priority_first", "priority_last"}
        <3>1. CoreList(props) = <<0, 2, 4, 1, 3, 5, 6>>
            BY <2>2 DEF CoreList
        <3>2. DOMAIN CoreList(props) = 1..7
            BY <3>1
        <3>3. i \in 1..7
            BY <1>1, <3>2, Zenon
        <3> QED
            BY <3>3
    <2>3. CASE props.forced_core = None /\ AllocationMethod \notin {"priority_first", "priority_last"}
        <3>1. CoreList(props) = [k \in 1..CoresPerLink |-> k - 1]
            BY <2>3 DEF CoreList
        <3> QED
            BY <1>1, <3>1 DEF SpectrumAssumption
    <2> QED
        BY <2>1, <2>2, <2>3
<1>4. r \in FirstRuns(net, props, i, j)
    BY DEF FoundAt, FirstRuns
<1>5. r[1] \in Nat /\ r[2] \in Nat
    BY <1>2, <1>4, FirstRunsApart
<1>6. s \in r[1]..r[2]
    <2>1. s \in Reached(r, props.slots_needed, flag, props.forced_index)
        BY DEF FoundAt
    <2> QED
        BY <2>1 DEF Reached
<1>7. s \in Nat /\ r[1] <= s /\ s <= r[2]
    BY <1>5, <1>6
<1> QED
    BY <1>1, <1>2, <1>3, <1>4, <1>5, <1>7

\* The rank of an entry, place by place.
HasRank(p, a, b, c, d) ==
    /\ DOMAIN p.rank = 1..4
    /\ p.rank[1] = a /\ p.rank[2] = b /\ p.rank[3] = c /\ p.rank[4] = d

\* The entries of an ascending search are ranked by core, band, run and start, or by
\* band, core, run and start.
LEMMA EntryRank ==
    ASSUME NEW props, NEW flag, ~Descending(flag), NEW i, NEW j, NEW r, NEW s
    PROVE  /\ BandsFirst(flag) => HasRank(Entry(props, flag, i, j, r, s), j, i, r[1], s)
           /\ ~BandsFirst(flag) => HasRank(Entry(props, flag, i, j, r, s), i, j, r[1], s)
<1>1. Entry(props, flag, i, j, r, s).rank =
          IF BandsFirst(flag) THEN <<j, i, r[1], s>> ELSE <<i, j, r[1], s>>
    BY DEF Entry, Place
<1> QED
    BY <1>1 DEF HasRank

\* Its ranks are natural numbers and tell its entries apart.
LEMMA RanksTellApart ==
    ASSUME SpectrumAssumption, SearchAssumption, NEW net, NEW props, NEW flag, ~Descending(flag)
    PROVE  LET S == FirstLast(net, props, flag)
           IN  /\ \A p \in S : RankOk(p) /\ DOMAIN p.rank = 1..4
               /\ \A p, q \in S : (\A m \in 1..4 : p.rank[m] = q.rank[m]) => p = q
<1> DEFINE S == FirstLast(net, props, flag)
<1>1. ASSUME NEW p \in S
      PROVE  RankOk(p) /\ DOMAIN p.rank = 1..4
    <2>1. PICK i, j, r, s : FoundAt(net, props, flag, i, j, r, s) /\ p = Entry(props, flag, i, j, r, s)
        BY FirstLastMember
    <2>2. i \in Nat /\ j \in Nat /\ r[1] \in Nat /\ s \in Nat
        BY <2>1, FoundType
    <2>3. HasRank(p, j, i, r[1], s) \/ HasRank(p, i, j, r[1], s)
        BY <2>1, EntryRank
    <2>4. DOMAIN p.rank = 1..4
        BY <2>3 DEF HasRank
    <2>5. p.rank[1] \in Nat /\ p.rank[2] \in Nat /\ p.rank[3] \in Nat /\ p.rank[4] \in Nat
        BY <2>2, <2>3 DEF HasRank
    <2>6. RankOk(p)
        BY <2>5 DEF RankOk
    <2> QED
        BY <2>4, <2>6
<1>2. ASSUME NEW p \in S, NEW q \in S, \A m \in 1..4 : p.rank[m] = q.rank[m]
      PROVE  p = q
    <2>1. PICK i, j, r, s : FoundAt(net, props, flag, i, j, r, s) /\ p = Entry(props, flag, i, j, r, s)
        BY FirstLastMember
    <2>2. PICK i2, j2, r2, s2 :
              FoundAt(net, props, flag, i2, j2, r2, s2) /\ q = Entry(props, flag, i2, j2, r2, s2)
        BY FirstLastMember
    <2>3. p.rank[1] = q.rank[1] /\ p.rank[2] = q.rank[2] /\ p.rank[3] = q.rank[3] /\ p.rank[4] = q.rank[4]
        BY <1>2
    <2>4. \/ HasRank(p, j, i, r[1], s) /\ HasRank(q, j2, i2, r2[1], s2)
          \/ HasRank(p, i, j, r[1], s) /\ HasRank(q, i2, j2, r2[1], s2)
        BY <2>1, <2>2, EntryRank
    <2>5. i = i2 /\ j = j2 /\ r[1] = r2[1] /\ s = s2
        BY <2>3, <2>4 DEF HasRank
    <2>6. Entry(props, flag, i, j, r, s) = Entry(props, flag, i, j, r2, s)
        BY <2>5 DEF Entry, Place
    <2> QED
        BY <2>1, <2>2, <2>5, <2>6
<1> QED
    BY <1>1, <1>2

\* The order of triples, by the first place at which they differ.
LexLess(a1, a2, a3, b1, b2, b3) ==
    \/ a1 < b1
    \/ a1 = b1 /\ a2 < b2
    \/ a1 = b1 /\ a2 = b2 /\ a3 < b3

\* The order of three numbers is strict.
LEMMA LexLessOneWay ==
    ASSUME NEW a1 \in Nat, NEW a2 \in Nat, NEW a3 \in Nat,
           NEW b1 \in Nat, NEW b2 \in Nat, NEW b3 \in Nat,
           LexLess(a1, a2, a3, b1, b2, b3)
    PROVE  ~LexLess(b1, b2, b3, a1, a2, a3)
BY DEF LexLess

\* Core i1, band j1 and start s1 come before core i2, band j2 and start s2.
Sooner(flag, i1, j1, s1, i2, j2, s2) ==
    IF BandsFirst(flag) THEN LexLess(j1, i1, s1, j2, i2, s2) ELSE LexLess(i1, j1, s1, i2, j2, s2)

\* No open window comes sooner in the loops than the one they answer with.
LEMMA FirstComesFirst ==
    ASSUME SpectrumAssumption, SearchAssumption, GuardSlots <= 1, AllocationMethod # "last_fit",
           NEW net, NEW props, PropsOk(props), NEW flag, ~Descending(flag),
           NEW i2 \in DOMAIN CoreList(props), NEW j2 \in DOMAIN BandList, NEW s2 \in Nat,
           flag = "forced_index" => s2 = props.forced_index,
           Open(net, props.path_list, props.slots_needed, CoreList(props)[i2], BandList[j2], s2)
    PROVE  \E i, j, r, s :
              /\ FoundAt(net, props, flag, i, j, r, s)
              /\ First(FirstLast(net, props, flag)) = Entry(props, flag, i, j, r, s)
              /\ ~Sooner(flag, i2, j2, s2, i, j, s)
<1> DEFINE S == FirstLast(net, props, flag)
           p == First(S)
<1>1. PICK r2 : FoundAt(net, props, flag, i2, j2, r2, s2)
    BY OpenIsFound
<1>2. PICK q : q = Entry(props, flag, i2, j2, r2, s2)
    OBVIOUS
<1>3. q \in S
    BY <1>1, <1>2, FirstLastMember
<1>4. p \in S /\ \A x \in S \ {p} : Precedes(p.rank, x.rank)
    <2>1. /\ \A x \in S : RankOk(x) /\ DOMAIN x.rank = 1..4
          /\ \A x, y \in S : (\A m \in 1..4 : x.rank[m] = y.rank[m]) => x = y
        BY RanksTellApart
    <2> HIDE DEF S
    <2> QED
        BY <1>3, <2>1, FirstIsLeast
<1>5. PICK i, j, r, s : FoundAt(net, props, flag, i, j, r, s) /\ p = Entry(props, flag, i, j, r, s)
    BY <1>4, FirstLastMember
<1> HIDE DEF S, p
<1>6. /\ i \in Nat /\ j \in Nat /\ r[1] \in Nat /\ r[2] \in Nat /\ s \in Nat /\ r[1] <= s /\ s <= r[2]
      /\ BandList[j] \in Band
      /\ r \in FirstRuns(net, props, i, j)
    BY <1>5, FoundType
<1>7. /\ i2 \in Nat /\ j2 \in Nat /\ r2[1] \in Nat /\ r2[2] \in Nat /\ s2 \in Nat
      /\ r2[1] <= s2 /\ s2 <= r2[2]
      /\ r2 \in FirstRuns(net, props, i2, j2)
    BY <1>1, FoundType
<1>8. ~Sooner(flag, i2, j2, s2, i, j, s)
    <2>1. \/ HasRank(p, j, i, r[1], s) /\ HasRank(q, j2, i2, r2[1], s2) /\ BandsFirst(flag)
          \/ HasRank(p, i, j, r[1], s) /\ HasRank(q, i2, j2, r2[1], s2) /\ ~BandsFirst(flag)
        BY <1>2, <1>5, EntryRank
    <2>2. CASE q = p
        <3>1. i2 = i /\ j2 = j /\ s2 = s
            BY <2>1, <2>2 DEF HasRank
        <3> QED
            BY <1>6, <3>1 DEF Sooner, LexLess
    <2>3. CASE q # p
        <3>1. Precedes(p.rank, q.rank)
            BY <1>3, <1>4, <2>3
        <3>2. \E m \in 1..4 : p.rank[m] < q.rank[m] /\ \A k \in 1..(m - 1) : p.rank[k] = q.rank[k]
            BY <2>1, <3>1 DEF Precedes, HasRank
        <3>3. \/ p.rank[1] < q.rank[1]
              \/ p.rank[1] = q.rank[1] /\ p.rank[2] < q.rank[2]
              \/ p.rank[1] = q.rank[1] /\ p.rank[2] = q.rank[2] /\ p.rank[3] < q.rank[3]
              \/ p.rank[1] = q.rank[1] /\ p.rank[2] = q.rank[2] /\ p.rank[3] = q.rank[3]
                    /\ p.rank[4] < q.rank[4]
            <4>1. PICK m \in 1..4 : p.rank[m] < q.rank[m] /\ \A k \in 1..(m - 1) : p.rank[k] = q.rank[k]
                BY <3>2
            <4>2. CASE m = 1
                BY <4>1, <4>2
            <4>3. CASE m = 2
                <5>1. 1 \in 1..(m - 1)
                    BY <4>3
                <5> QED
                    BY <4>1, <4>3, <5>1
            <4>4. CASE m = 3
                <5>1. 1 \in 1..(m - 1) /\ 2 \in 1..(m - 1)
                    BY <4>4
                <5> QED
                    BY <4>1, <4>4, <5>1
            <4>5. CASE m = 4
                <5>1. 1 \in 1..(m - 1) /\ 2 \in 1..(m - 1) /\ 3 \in 1..(m - 1)
                    BY <4>5
                <5> QED
                    BY <4>1, <4>5, <5>1
            <4> QED
                BY <4>2, <4>3, <4>4, <4>5
        <3>4. i = i2 /\ j = j2 /\ r[1] < r2[1] => s < s2
            <4>1. i = i2 /\ j = j2 => r2 \in FirstRuns(net, props, i, j)
                BY <1>7
            <4>2. i = i2 /\ j = j2 /\ r[1] < r2[1] => r[2] < r2[1]
                BY <1>6, <4>1, FirstRunsApart
            <4>3. r[2] < r2[1] => s < s2
                <5>1. PICK a \in Nat, b \in Nat, c \in Nat, d \in Nat :
                          a = s /\ b = r[2] /\ c = r2[1] /\ d = s2
                    BY <1>6, <1>7
                <5>2. a <= b /\ c <= d
                    BY <1>6, <1>7, <5>1
                <5>3. b < c => a < d
                    BY <5>2
                <5> QED
                    BY <5>1, <5>3
            <4> QED
                BY <4>2, <4>3
        <3>5. CASE BandsFirst(flag)
            <4>1. \/ j < j2
                  \/ j = j2 /\ i < i2
                  \/ j = j2 /\ i = i2 /\ r[1] < r2[1]
                  \/ j = j2 /\ i = i2 /\ r[1] = r2[1] /\ s < s2
                BY <2>1, <3>3, <3>5 DEF HasRank
            <4>2. LexLess(j, i, s, j2, i2, s2)
                BY <3>4, <4>1 DEF LexLess
            <4> QED
                BY <1>6, <1>7, <3>5, <4>2, LexLessOneWay DEF Sooner
        <3>6. CASE ~BandsFirst(flag)
            <4>1. \/ i < i2
                  \/ i = i2 /\ j < j2
                  \/ i = i2 /\ j = j2 /\ r[1] < r2[1]
                  \/ i = i2 /\ j = j2 /\ r[1] = r2[1] /\ s < s2
                BY <2>1, <3>3, <3>6 DEF HasRank
            <4>2. LexLess(i, j, s, i2, j2, s2)
                BY <3>4, <4>1 DEF LexLess
            <4> QED
                BY <1>6, <1>7, <3>6, <4>2, LexLessOneWay DEF Sooner
        <3> QED
            BY <3>5, <3>6
    <2> QED
        BY <2>2, <2>3
<1> QED
    BY <1>5, <1>8 DEF p, S
=============================================================================
