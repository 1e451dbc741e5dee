-------------------------- MODULE MeasurementsProofs --------------------------
(***************************************************************************)
(* Theorems about lightpaths routed by the state of the spectrum.           *)
(***************************************************************************)
EXTENDS Measurements, ChurnProofs

(* The largest and the least of a set of numbers. *)

\* Min of some naturals is the least of them.
LEMMA MinIsLeast ==
    ASSUME NEW S, S \subseteq Nat, S # {}
    PROVE  Min(S) \in S /\ \A k \in S : Min(S) <= k
<1>1. \E m \in S : \A k \in S : m <= k
    BY LeastNatural
<1> QED
    BY <1>1 DEF Min

\* Max of some naturals that are bounded is the largest of them.
LEMMA MaxIsLargest ==
    ASSUME NEW S, S \subseteq Nat, S # {}, NEW top \in Nat, \A k \in S : k <= top
    PROVE  Max(S) \in S /\ \A k \in S : k <= Max(S)
<1> DEFINE T == {top - k : k \in S}
<1>1. T \subseteq Nat /\ T # {}
    OBVIOUS
<1>2. PICK m \in T : \A k \in T : m <= k
    BY <1>1, LeastNatural
<1>3. PICK x \in S : m = top - x
    BY <1>2
<1>4. ASSUME NEW k \in S
      PROVE  x >= k
    <2>1. top - k \in T
        BY <1>4
    <2>2. m <= top - k
        BY <1>2, <2>1
    <2> QED
        BY <1>3, <2>2
<1>5. \E y \in S : \A k \in S : y >= k
    BY <1>4
<1> QED
    BY <1>5 DEF Max

\* Adding zero to some naturals leaves their maximum.
LEMMA MaxOfMore ==
    ASSUME NEW S, S \subseteq 0..7, S # {}
    PROVE  Max({0} \union S) = Max(S)
<1> DEFINE T == {0} \union S
<1>1. S \subseteq Nat /\ \A k \in S : k <= 7
    OBVIOUS
<1>2. T \subseteq Nat /\ T # {} /\ \A k \in T : k <= 7
    OBVIOUS
<1>3. Max(S) \in S /\ \A k \in S : k <= Max(S)
    BY <1>1, MaxIsLargest
<1>4. Max(T) \in T /\ \A k \in T : k <= Max(T)
    <2> HIDE DEF T
    <2> QED
        BY <1>2, MaxIsLargest
<1>5. PICK m \in Nat : m = Max(T)
    BY <1>2, <1>4
<1>6. PICK k \in Nat : k = Max(S)
    BY <1>1, <1>3
<1>7. k <= m /\ m <= k
    <2>1. k \in T
        BY <1>3, <1>6
    <2>2. m = 0 \/ m \in S
        BY <1>4, <1>5
    <2> QED
        BY <1>3, <1>4, <1>5, <1>6, <2>1, <2>2
<1> QED
    BY <1>5, <1>6, <1>7

-----------------------------------------------------------------------------
(* What get_route returns. *)

\* The formats sort_nested_dict_vals returns are formats.
LEMMA SortedAreMods ==
    ASSUME NEW mods \in [Mod -> [max_length : Nat, slots_needed : Nat \ {0}]]
    PROVE  ModsByReach(mods) \in [1..3 -> Mod]
<1> DEFINE Sorted(m) ==
        /\ \A i, j \in 1..3 : m[i] = m[j] => i = j
        /\ \A i \in 1..2 : mods[m[i]].max_length <= mods[m[i + 1]].max_length
           Triple(x, y, z) == [i \in 1..3 |-> IF i = 1 THEN x ELSE IF i = 2 THEN y ELSE z]
<1>1. ASSUME NEW x \in Mod, NEW y \in Mod, NEW z \in Mod, x # y, y # z, x # z,
             mods[x].max_length <= mods[y].max_length, mods[y].max_length <= mods[z].max_length
      PROVE  \E m \in [1..3 -> Mod] : Sorted(m)
    <2>1. Triple(x, y, z) \in [1..3 -> Mod]
        OBVIOUS
    <2>2. \A i, j \in 1..3 : Triple(x, y, z)[i] = Triple(x, y, z)[j] => i = j
        BY <1>1
    <2>3. \A i \in 1..2 : mods[Triple(x, y, z)[i]].max_length <= mods[Triple(x, y, z)[i + 1]].max_length
        <3> SUFFICES ASSUME NEW i \in 1..2
                     PROVE  mods[Triple(x, y, z)[i]].max_length <= mods[Triple(x, y, z)[i + 1]].max_length
            OBVIOUS
        <3>1. i = 1 \/ i = 2
            OBVIOUS
        <3> QED
            BY <1>1, <3>1
    <2> HIDE DEF Triple
    <2> QED
        BY <2>1, <2>2, <2>3
<1>2. PICK a \in Nat, b \in Nat, c \in Nat :
          a = mods["QPSK"].max_length /\ b = mods["16-QAM"].max_length /\ c = mods["64-QAM"].max_length
    BY DEF Mod
<1>3. "QPSK" \in Mod /\ "16-QAM" \in Mod /\ "64-QAM" \in Mod
    BY DEF Mod
<1>4. "QPSK" # "16-QAM" /\ "16-QAM" # "64-QAM" /\ "QPSK" # "64-QAM"
    OBVIOUS
<1> HIDE DEF Sorted
<1>5. \/ (a <= b /\ b <= c) \/ (a <= c /\ c <= b) \/ (b <= a /\ a <= c)
      \/ (b <= c /\ c <= a) \/ (c <= a /\ a <= b) \/ (c <= b /\ b <= a)
    OBVIOUS
<1>6. \E m \in [1..3 -> Mod] : Sorted(m)
    BY <1>1, <1>2, <1>3, <1>4, <1>5
<1> USE DEF Sorted
<1>7. ModsByReach(mods) = CHOOSE m \in [1..3 -> Mod] : Sorted(m)
    BY DEF ModsByReach
<1> HIDE DEF Sorted
<1> QED
    BY <1>6, <1>7

\* The paths between the nodes of a request: some, and all of them paths.
LEMMA PathsBetweenAre ==
    ASSUME NEW pq \in Pairs
    PROVE  /\ PathsBetween(pq) # {} /\ PathsBetween(pq) \subseteq Paths
           /\ \A p \in PathsBetween(pq) : IsPath(p) /\ Len(p) \in Nat /\ LinksOf(p) # {}
<1>1. PICK p : p \in SimplePaths(pq[1], pq[2])
    BY MeasurementsAssumption DEF MeasurementsAssumption
<1>2. p \in Paths
    BY <1>1, MeasurementsAssumption DEF MeasurementsAssumption
<1>3. p[1] = pq[1] /\ p[Len(p)] = pq[2]
    BY <1>1 DEF SimplePaths
<1>4. PathsBetween(pq) # {} /\ PathsBetween(pq) \subseteq Paths
    BY <1>2, <1>3 DEF PathsBetween
<1>5. ASSUME NEW q \in PathsBetween(pq)
      PROVE  IsPath(q) /\ Len(q) \in Nat /\ LinksOf(q) # {}
    <2>1. IsPath(q)
        BY <1>4, ChurnAssumption DEF ChurnAssumption
    <2> QED
        BY <2>1, FirstLink DEF IsPath
<1> QED
    BY <1>4, <1>5

\* There are candidates: the shortest paths.
LEMMA CandidatesAre ==
    ASSUME NEW pq \in Pairs
    PROVE  Candidates(pq) # {} /\ Candidates(pq) \subseteq PathsBetween(pq)
<1> DEFINE T == {Len(p) : p \in PathsBetween(pq)}
<1>1. T \subseteq Nat /\ T # {}
    BY PathsBetweenAre
<1>2. PICK m \in T : \A k \in T : m <= k
    BY <1>1, LeastNatural
<1>3. PICK p \in PathsBetween(pq) : m = Len(p)
    BY <1>2
<1>4. \A q \in PathsBetween(pq) : Len(p) <= Len(q) + 1
    BY <1>1, <1>2, <1>3
<1> QED
    BY <1>4 DEF Candidates

-----------------------------------------------------------------------------
(* The slots of a link, free and taken. *)

\* A finite union of sets without common elements has the sum of their sizes.
LEMMA DisjointSum ==
    ASSUME NEW f, NEW C, NEW S, IsFiniteSet(S),
           \A i \in S : IsFiniteSet(C[i]) /\ Cardinality(C[i]) = f[i],
           \A i, j \in S : i # j => C[i] \intersect C[j] = {},
           NEW U, \A x : x \in U <=> \E i \in S : x \in C[i]
    PROVE  IsFiniteSet(U) /\ Cardinality(U) = SumFunctionOnSet(f, S)
<1> DEFINE All(s) == UNION {C[i] : i \in s}
           Good(s) == IsFiniteSet(All(s)) /\ Cardinality(All(s)) = SumFunctionOnSet(f, s)
           Bad == {s \in SUBSET S : ~Good(s)}
<1>0. U = All(S)
    OBVIOUS
<1>1. SUFFICES ASSUME Bad # {} PROVE FALSE
    BY <1>0
<1>2. PICK s \in Bad : \A t \in Bad : t \subseteq s => t = s
    <2>1. Bad \subseteq SUBSET S
        OBVIOUS
    <2> HIDE DEF Bad
    <2> QED
        BY <1>1, <2>1, SmallestSubset
<1>3. IsFiniteSet(s) /\ s \subseteq S /\ ~Good(s)
    BY FS_Subset
<1>4. CASE s = {}
    <2>1. All(s) = {}
        BY <1>4
    <2>2. SumFunctionOnSet(f, s) = 0
        BY <1>3, <1>4, SumStep
    <2> QED
        BY <1>3, <2>1, <2>2, FS_EmptySet
<1>5. CASE s # {}
    <2>1. PICK p \in s : p = Pick(s)
        BY <1>5, PickIn
    <2> DEFINE r == s \ {p}
    <2>2. r \subseteq S /\ r # s
        BY <1>3
    <2>3. Good(r)
        BY <1>2, <2>2
    <2>4. SumFunctionOnSet(f, s) = f[p] + SumFunctionOnSet(f, r)
        BY <1>3, <1>5, <2>1, <2>2, SumStep
    <2>5. All(s) = C[p] \union All(r) /\ C[p] \intersect All(r) = {}
        BY <1>3, <2>2
    <2>6. IsFiniteSet(C[p]) /\ Cardinality(C[p]) = f[p]
        BY <1>3
    <2> HIDE DEF All, r
    <2>7. /\ IsFiniteSet(C[p] \union All(r))
          /\ Cardinality(C[p] \union All(r)) =
                Cardinality(C[p]) + Cardinality(All(r)) - Cardinality(C[p] \intersect All(r))
        BY <2>3, <2>6, FS_Union
    <2>8. /\ Cardinality(C[p]) \in Nat /\ Cardinality(All(r)) \in Nat /\ Cardinality({}) = 0
        BY <2>3, <2>6, FS_CardinalityType, FS_EmptySet
    <2>9. IsFiniteSet(All(s))
        BY <2>5, <2>7
    <2>10. Cardinality(All(s)) = Cardinality(C[p]) + Cardinality(All(r))
        <3>1. C[p] \union All(r) = All(s) /\ Cardinality(C[p] \intersect All(r)) = 0
            BY <2>5, <2>8
        <3>2. Cardinality(All(s)) = Cardinality(C[p]) + Cardinality(All(r)) - 0
            BY <2>7, <3>1
        <3> QED
            BY <2>8, <3>2
    <2>11. Cardinality(All(r)) = SumFunctionOnSet(f, r)
        BY <2>3
    <2>12. Cardinality(All(s)) = SumFunctionOnSet(f, s)
        BY <2>4, <2>6, <2>10, <2>11
    <2> QED
        BY <1>3, <2>9, <2>12
<1> QED
    BY <1>4, <1>5

\* The slots of a link, as <<band, core, slot>>.
SlotsOfLink == UNION {{b} \X Core \X Slot(b) : b \in Band}

\* What a function gives on a finite set is a finite set.
LEMMA ImageIsFinite ==
    ASSUME NEW g, IsFiniteSet(DOMAIN g), g = [x \in DOMAIN g |-> g[x]]
    PROVE  IsFiniteSet({g[x] : x \in DOMAIN g})
<1> DEFINE T == {g[x] : x \in DOMAIN g}
<1>1. g \in Surjection(DOMAIN g, T)
    BY DEF Surjection
<1> QED
    BY <1>1, FS_Surjection

\* There are finitely many.
LEMMA LinkIsFinite == IsFiniteSet(SlotsOfLink)
<1>1. IsFiniteSet(Band)
    <2>1. BandList \in Seq(Band) /\ Len(BandList) \in Nat /\ DOMAIN BandList = 1..Len(BandList)
        BY SearchAssumption DEF SearchAssumption
    <2>2. IsFiniteSet(DOMAIN BandList)
        BY <2>1, FS_Interval
    <2>3. IsFiniteSet({BandList[j] : j \in DOMAIN BandList})
        BY <2>1, <2>2, ImageIsFinite
    <2>4. Band \subseteq {BandList[j] : j \in DOMAIN BandList}
        BY BandIsListed, SearchAssumption
    <2> QED
        BY <2>3, <2>4, FS_Subset
<1>2. ASSUME NEW b \in Band
      PROVE  IsFiniteSet({b} \X Core \X Slot(b))
    <2> DEFINE g == [x \in Core \X Slot(b) |-> <<b, x[1], x[2]>>]
    <2>1. IsFiniteSet(Core) /\ IsFiniteSet(Slot(b))
        BY SpectrumAssumption, FS_Interval DEF Core, Slot, SpectrumAssumption
    <2>2. IsFiniteSet(Core \X Slot(b))
        BY <2>1, FS_Product
    <2>3. IsFiniteSet({g[x] : x \in DOMAIN g})
        BY <2>2, ImageIsFinite
    <2>4. ASSUME NEW y \in {b} \X Core \X Slot(b)
          PROVE  y \in {g[x] : x \in DOMAIN g}
        <3>1. PICK c \in Core, t \in Slot(b) : y = <<b, c, t>>
            OBVIOUS
        <3>2. <<c, t>> \in DOMAIN g /\ g[<<c, t>>] = y
            BY <3>1
        <3> QED
            BY <3>2
    <2>5. {b} \X Core \X Slot(b) \subseteq {g[x] : x \in DOMAIN g}
        BY <2>4
    <2> HIDE DEF g
    <2> QED
        BY <2>3, <2>5, FS_Subset
<1> DEFINE h == [b \in Band |-> {b} \X Core \X Slot(b)]
<1>3. IsFiniteSet({h[b] : b \in DOMAIN h})
    BY <1>1, ImageIsFinite
<1>4. \A x \in {h[b] : b \in DOMAIN h} : IsFiniteSet(x)
    BY <1>2
<1>5. SlotsOfLink = UNION {h[b] : b \in DOMAIN h}
    BY DEF SlotsOfLink
<1> QED
    BY <1>3, <1>4, <1>5, FS_UNION

\* The free slots of a link are those whose cell is free.
LEMMA FreeOfLinkAre ==
    ASSUME NEW ne, NEW l
    PROVE  FreeOfLink(ne, l) = {x \in SlotsOfLink : ne[<<l, x[1], x[2], x[3]>>] = 0}
<1>1. ASSUME NEW b \in Band, NEW c \in Core, NEW t
      PROVE  t \in FindFreeSlots(ne, l, b, c) <=> t \in Slot(b) /\ ne[<<l, b, c, t>>] = 0
    BY DEF FindFreeSlots, Zeros, CoreArr
<1>2. ASSUME NEW x \in FreeOfLink(ne, l)
      PROVE  x \in SlotsOfLink /\ ne[<<l, x[1], x[2], x[3]>>] = 0
    <2>1. PICK b \in Band, c \in Core : x \in {b} \X {c} \X FindFreeSlots(ne, l, b, c)
        BY DEF FreeOfLink
    <2>2. PICK t \in FindFreeSlots(ne, l, b, c) : x = <<b, c, t>>
        BY <2>1
    <2>3. t \in Slot(b) /\ ne[<<l, b, c, t>>] = 0
        BY <1>1, <2>2
    <2>4. x \in SlotsOfLink
        BY <2>2, <2>3 DEF SlotsOfLink
    <2> QED
        BY <2>2, <2>3, <2>4
<1>3. ASSUME NEW x \in SlotsOfLink, ne[<<l, x[1], x[2], x[3]>>] = 0
      PROVE  x \in FreeOfLink(ne, l)
    <2>1. PICK b \in Band : x \in {b} \X Core \X Slot(b)
        BY DEF SlotsOfLink
    <2>2. PICK c \in Core, t \in Slot(b) : x = <<b, c, t>>
        BY <2>1
    <2>3. t \in FindFreeSlots(ne, l, b, c)
        BY <1>1, <1>3, <2>2
    <2>4. x \in {b} \X {c} \X FindFreeSlots(ne, l, b, c)
        BY <2>2, <2>3
    <2> DEFINE Free(e, f) == {e} \X {f} \X FindFreeSlots(ne, l, e, f)
    <2>5. FreeOfLink(ne, l) = UNION {Free(e, f) : e \in Band, f \in Core}
        BY DEF FreeOfLink
    <2>6. x \in Free(b, c)
        BY <2>4
    <2> HIDE DEF Free
    <2> QED
        BY <2>5, <2>6
<1> QED
    BY <1>2, <1>3

\* A slot of a link names a cell.
LEMMA SlotIsCell ==
    ASSUME NEW l \in Link, NEW x \in SlotsOfLink
    PROVE  /\ <<l, x[1], x[2], x[3]>> \in Cell /\ x = <<x[1], x[2], x[3]>>
           /\ x[1] \in Band /\ x[2] \in Core /\ x[3] \in Slot(x[1])
<1>1. PICK b \in Band : x \in {b} \X Core \X Slot(b)
    BY DEF SlotsOfLink
<1>2. PICK c \in Core, t \in Slot(b) : x = <<b, c, t>>
    BY <1>1
<1> QED
    BY <1>2, TupleIsCell

\* The slots each request takes on a link, its guards counted in.
TakenBy == [r \in ReqId |-> held[r].slots + GuardSlots]
TakenOn(l) == [r \in ReqId |-> {x \in SlotsOfLink : net[<<l, x[1], x[2], x[3]>>] \in {r, -r}}]

\* Load adds up what the requests over a link take.
LEMMA LoadIs ==
    ASSUME NEW l
    PROVE  Load(l) = SumFunctionOnSet(TakenBy, HeldOn(l))
<1> DEFINE IsLoad(g) ==
        g = [s \in SUBSET HeldOn(l) |-> IF s = {} THEN 0 ELSE (held[Pick(s)].slots + GuardSlots) + g[s \ {Pick(s)}]]
<1>1. Load(l) = (CHOOSE g : IsLoad(g))[HeldOn(l)]
    BY DEF Load, MapThenSumSet, MapThenFoldSet, Pick
<1>2. ASSUME NEW s \in SUBSET HeldOn(l), s # {}
      PROVE  TakenBy[Pick(s)] = held[Pick(s)].slots + GuardSlots
    BY <1>2, PickIn DEF HeldOn, TakenBy
<1>3. ASSUME NEW g
      PROVE  IsLoad(g) <=> IsSum(g, TakenBy, HeldOn(l))
    BY <1>2 DEF IsSum
<1>4. IsFiniteSet(HeldOn(l))
    <2>1. IsFiniteSet(ReqId) /\ HeldOn(l) \subseteq ReqId
        BY ChurnAssumption, FS_Interval DEF ReqId, ChurnAssumption, HeldOn
    <2> QED
        BY <2>1, FS_Subset
<1>5. PICK g : IsSum(g, TakenBy, HeldOn(l))
    BY <1>4, SumExists
<1> HIDE DEF IsLoad
<1>6. IsLoad(CHOOSE h : IsLoad(h))
    BY <1>3, <1>5
<1>7. PICK h : h = (CHOOSE k : IsLoad(k)) /\ IsSum(h, TakenBy, HeldOn(l))
    BY <1>3, <1>6
<1>8. PICK k : k = (CHOOSE m : IsSum(m, TakenBy, HeldOn(l))) /\ IsSum(k, TakenBy, HeldOn(l))
    BY <1>5
<1>9. h[HeldOn(l)] = k[HeldOn(l)]
    BY <1>4, <1>7, <1>8, SumUnique
<1> QED
    BY <1>1, <1>7, <1>8, <1>9, SumIs

\* A lightpath takes its slots and guards on each link of its path.
LEMMA TakenIsBlock ==
    ASSUME NEW l \in Link, ExactInv, NEW r \in HeldOn(l)
    PROVE  IsFiniteSet(TakenOn(l)[r]) /\ Cardinality(TakenOn(l)[r]) = TakenBy[r]
<1>1. PICK h : h = held[r] /\ h \in HeldRecord /\ r \in ReqId /\ l \in LinksOf(h.path)
    BY DEF ExactInv, LeakInv, HeldOn
<1>2. Holding(net, r, h.path, h.slots, h.window)
    BY <1>1 DEF ExactInv, HeldOn
<1>3. PICK b \in Band, c \in Core, a \in Nat, n \in Nat \ {0} :
          b = h.window.curr_band /\ c = h.window.core_num /\ a = h.window.start_slot /\ n = h.slots
    <2>1. h.slots \in Nat \ {0}
        BY <1>1, ChurnAssumption DEF ChurnAssumption, HeldRecord
    <2> QED
        BY <1>2, <2>1 DEF Holding, Slot
<1>4. BandSlots[b] \in Nat /\ GuardSlots \in Nat /\ a + n + GuardSlots <= BandSlots[b]
    BY <1>2, <1>3, SpectrumAssumption DEF Holding, SpectrumAssumption
<1> DEFINE I == a..(a + n + GuardSlots - 1)
           g == [t \in I |-> <<b, c, t>>]
           T == TakenOn(l)[r]
<1>5. T = {x \in SlotsOfLink : net[<<l, x[1], x[2], x[3]>>] \in {r, -r}}
    BY <1>1 DEF TakenOn
<1>6. ASSUME NEW x \in SlotsOfLink
      PROVE  x \in T <=> x[1] = b /\ x[2] = c /\ x[3] \in I
    <2>1. PICK y \in Cell : y = <<l, x[1], x[2], x[3]>>
        BY SlotIsCell
    <2>2. x[3] \in Int
        <3>1. x[3] \in Slot(x[1])
            BY SlotIsCell
        <3> QED
            BY <3>1 DEF Slot
    <2>3. OnChannel(y, h.path, h.window) <=> x[1] = b /\ x[2] = c
        BY <1>1, <1>3, <2>1 DEF OnChannel
    <2>4. y[4] = x[3]
        BY <2>1
    <2>5. /\ net[y] = r <=> OnChannel(y, h.path, h.window) /\ a <= y[4] /\ y[4] < a + n
          /\ net[y] = -r <=> OnChannel(y, h.path, h.window) /\ a + n <= y[4] /\ y[4] < a + n + GuardSlots
        BY <1>2, <1>3 DEF Holding
    <2> QED
        BY <1>4, <1>5, <2>1, <2>2, <2>3, <2>4, <2>5
<1>7. \A t \in I : <<b, c, t>> \in SlotsOfLink
    <2> SUFFICES ASSUME NEW t \in I
                 PROVE  <<b, c, t>> \in SlotsOfLink
        OBVIOUS
    <2>1. t \in Slot(b)
        BY <1>4 DEF Slot
    <2> QED
        BY <2>1 DEF SlotsOfLink
<1> HIDE DEF T
<1>8. g \in Bijection(I, T)
    <2>1. \A t \in I : g[t] \in T
        BY <1>6, <1>7
    <2>2. \A x \in T : \E t \in I : g[t] = x
        <3> SUFFICES ASSUME NEW x \in T
                     PROVE  \E t \in I : g[t] = x
            OBVIOUS
        <3>1. x \in SlotsOfLink
            BY <1>5
        <3>2. x[1] = b /\ x[2] = c /\ x[3] \in I /\ x = <<x[1], x[2], x[3]>>
            BY <1>6, <3>1, SlotIsCell
        <3> QED
            BY <3>2
    <2>3. \A s, t \in I : g[s] = g[t] => s = t
        OBVIOUS
    <2>4. g \in [I -> T]
        BY <2>1
    <2> HIDE DEF I, g
    <2> QED
        BY <2>2, <2>3, <2>4 DEF Bijection, Injection, Surjection, IsInjective
<1>9. IsFiniteSet(I) /\ Cardinality(I) = n + GuardSlots
    <2>1. PICK high \in Int : high = a + n + GuardSlots - 1 /\ a <= high
        BY <1>4
    <2>2. IsFiniteSet(a..high) /\ Cardinality(a..high) = IF a > high THEN 0 ELSE high - a + 1
        BY <2>1, FS_Interval
    <2> QED
        BY <1>4, <2>1, <2>2
<1>10. IsFiniteSet(T) /\ Cardinality(T) = Cardinality(I)
    <2>1. ExistsBijection(I, T)
        BY <1>8, Zenon DEF ExistsBijection
    <2> QED
        BY <1>9, <2>1, FS_Bijection
<1> QED
    BY <1>1, <1>3, <1>9, <1>10 DEF T, TakenBy

\* What is free on a link and what its lightpaths take add up to its slots.
LEMMA FreeAndLoad ==
    ASSUME NEW l \in Link, ExactInv
    PROVE  /\ FreeOnLink(net, l) = Cardinality(SlotsOfLink) - Load(l)
           /\ FreeOnLink(net, l) \in Nat /\ Load(l) \in Nat
           /\ Cardinality(SlotsOfLink) \in Nat
<1> DEFINE S == HeldOn(l)
           C == TakenOn(l)
           U == UNION {C[i] : i \in S}
           F == FreeOfLink(net, l)
<1>1. IsFiniteSet(S) /\ S \subseteq ReqId
    <2>1. IsFiniteSet(ReqId) /\ S \subseteq ReqId
        BY ChurnAssumption, FS_Interval DEF ReqId, ChurnAssumption, HeldOn
    <2> QED
        BY <2>1, FS_Subset
<1>2. \A i \in S : IsFiniteSet(C[i]) /\ Cardinality(C[i]) = TakenBy[i]
    BY TakenIsBlock
<1>3. \A i, j \in S : i # j => C[i] \intersect C[j] = {}
    BY <1>1 DEF TakenOn, ReqId
<1>4. IsFiniteSet(U) /\ Cardinality(U) = SumFunctionOnSet(TakenBy, S)
    <2>1. \A x : x \in U <=> \E i \in S : x \in C[i]
        OBVIOUS
    <2> HIDE DEF S, C, U
    <2> QED
        BY <1>1, <1>2, <1>3, <2>1, DisjointSum
<1>5. F = {x \in SlotsOfLink : net[<<l, x[1], x[2], x[3]>>] = 0}
    BY FreeOfLinkAre
<1>6. ASSUME NEW x \in SlotsOfLink
      PROVE  x \in U <=> x \notin F
    <2>1. PICK y \in Cell : y = <<l, x[1], x[2], x[3]>>
        BY SlotIsCell
    <2>2. ASSUME net[y] # 0
          PROVE  x \in U
        <3>1. PICK r \in ReqId : held[r] # None /\ net[y] \in {r, -r} /\ y[1] \in LinksOf(held[r].path)
            BY <2>2 DEF ExactInv, LeakInv
        <3>2. r \in S
            BY <2>1, <3>1 DEF HeldOn
        <3>3. x \in C[r]
            BY <2>1, <3>1 DEF TakenOn
        <3> QED
            BY <3>2, <3>3
    <2>3. ASSUME x \in U
          PROVE  net[y] # 0
        <3>1. PICK r \in S : x \in C[r]
            BY <2>3
        <3>2. net[y] \in {r, -r} /\ r # 0 /\ r \in Int
            BY <1>1, <2>1, <3>1 DEF TakenOn, ReqId
        <3> QED
            BY <3>2
    <2> QED
        BY <1>5, <2>1, <2>2, <2>3
<1>7. U \subseteq SlotsOfLink
    BY <1>1 DEF TakenOn
<1>8. F = SlotsOfLink \ U /\ SlotsOfLink \intersect U = U
    BY <1>5, <1>6, <1>7
<1>9. Cardinality(F) = Cardinality(SlotsOfLink) - Cardinality(U)
    <2>1. Cardinality(SlotsOfLink \ U) = Cardinality(SlotsOfLink) - Cardinality(SlotsOfLink \intersect U)
        BY LinkIsFinite, FS_Difference
    <2> QED
        BY <1>8, <2>1
<1>10. Cardinality(U) = Load(l)
    BY <1>4, LoadIs
<1>11. IsFiniteSet(F)
    <2>1. IsFiniteSet(SlotsOfLink \ U)
        BY LinkIsFinite, FS_Difference
    <2> QED
        BY <1>8, <2>1
<1> HIDE DEF F, U
<1> QED
    BY <1>4, <1>9, <1>10, <1>11, LinkIsFinite, FS_CardinalityType DEF FreeOnLink, F

\* The fullest link of a path carries what is not free on it.
LEMMA FullestLink ==
    ASSUME ExactInv, NEW path, IsPath(path)
    PROVE  LET full == Max({Load(l) : l \in LinksOf(path)})
           IN  /\ FindMostCongLink(net, path) = Cardinality(SlotsOfLink) - full
               /\ FindMostCongLink(net, path) \in Nat /\ full \in Nat
               /\ Cardinality(SlotsOfLink) \in Nat
<1> DEFINE L == LinksOf(path)
           A == {Load(l) : l \in L}
           B == {FreeOnLink(net, l) : l \in L}
<1>1. L # {} /\ L \subseteq Link
    BY FirstLink DEF IsPath
<1>2. PICK k \in L : TRUE
    BY <1>1
<1>3. PICK size \in Nat : size = Cardinality(SlotsOfLink)
    BY <1>1, <1>2, FreeAndLoad
<1>4. \A l \in L : /\ FreeOnLink(net, l) = size - Load(l)
                   /\ FreeOnLink(net, l) \in Nat /\ Load(l) \in Nat
    BY <1>1, <1>3, FreeAndLoad
<1> HIDE DEF L
<1>5. A \subseteq Nat /\ A # {} /\ \A x \in A : x <= size
    BY <1>2, <1>4
<1>6. B \subseteq Nat /\ B # {}
    BY <1>2, <1>4
<1>7. Max(A) \in A /\ \A x \in A : x <= Max(A)
    <2> HIDE DEF A
    <2> QED
        BY <1>5, MaxIsLargest
<1>8. Min(B) \in B /\ \A x \in B : Min(B) <= x
    <2> HIDE DEF B
    <2> QED
        BY <1>6, MinIsLeast
<1>9. PICK i \in L : Max(A) = Load(i)
    BY <1>7
<1>10. PICK j \in L : Min(B) = FreeOnLink(net, j)
    BY <1>8
<1>11. Load(j) <= Load(i) /\ FreeOnLink(net, j) <= FreeOnLink(net, i)
    <2>1. Load(j) \in A /\ FreeOnLink(net, i) \in B
        OBVIOUS
    <2> QED
        BY <1>7, <1>8, <1>9, <1>10, <2>1
<1>12. Min(B) = size - Max(A)
    BY <1>4, <1>9, <1>10, <1>11
<1>13. FindMostCongLink(net, path) = Min(B)
    BY DEF FindMostCongLink, L
<1> QED
    BY <1>3, <1>4, <1>9, <1>10, <1>12, <1>13 DEF L

\* find_least_cong takes, of the candidates, one whose fullest link has most free slots,
\* and the shortest of those.
LEMMA LeastCongIs ==
    ASSUME ExactInv, NEW pq \in Pairs
    PROVE  LET best == FindLeastCong(net, pq)
           IN  /\ best \in Candidates(pq)
               /\ \A p \in Candidates(pq) :
                     \/ FindMostCongLink(net, best) > FindMostCongLink(net, p)
                     \/ /\ FindMostCongLink(net, best) = FindMostCongLink(net, p)
                        /\ Len(best) <= Len(p)
<1> DEFINE C == Candidates(pq)
           M(p) == FindMostCongLink(net, p)
           size == Cardinality(SlotsOfLink)
           free == {<<p, M(p)>> : p \in C}
           Best(x) == \A y \in free \ {x} :
                        x[2] > y[2] \/ (x[2] = y[2] /\ Len(x[1]) <= Len(y[1]))
<1>1. C # {} /\ \A p \in C : IsPath(p) /\ Len(p) \in Nat
    BY CandidatesAre, PathsBetweenAre
<1>2. \A p \in C : M(p) \in Nat /\ size \in Nat /\ M(p) <= size
    <2> SUFFICES ASSUME NEW p \in C
                 PROVE  M(p) \in Nat /\ size \in Nat /\ M(p) <= size
        OBVIOUS
    <2>1. PICK full \in Nat : M(p) = size - full /\ M(p) \in Nat /\ size \in Nat
        BY <1>1, FullestLink
    <2> QED
        BY <2>1
<1>0. FindLeastCong(net, pq) = (CHOOSE z \in free : Best(z))[1]
    BY DEF FindLeastCong
<1> HIDE DEF C, M, size
<1>3. PICK most \in Nat : /\ \E p \in C : M(p) = most
                          /\ \A p \in C : M(p) <= most
    <2> DEFINE A == {M(p) : p \in C}
    <2>1. A \subseteq Nat /\ A # {} /\ size \in Nat /\ \A k \in A : k <= size
        BY <1>1, <1>2
    <2>2. Max(A) \in A /\ \A k \in A : k <= Max(A)
        <3> HIDE DEF A
        <3> QED
            BY <2>1, MaxIsLargest
    <2> QED
        BY <2>1, <2>2
<1>4. PICK b \in C : M(b) = most /\ \A p \in C : M(p) = most => Len(b) <= Len(p)
    <2> DEFINE A == {Len(p) : p \in {q \in C : M(q) = most}}
    <2>1. A \subseteq Nat /\ A # {}
        BY <1>1, <1>3
    <2>2. PICK k \in A : \A m \in A : k <= m
        BY <2>1, LeastNatural
    <2> QED
        BY <2>2
<1>5. <<b, M(b)>> \in free /\ Best(<<b, M(b)>>)
    <2> SUFFICES ASSUME NEW y \in free
                 PROVE  M(b) > y[2] \/ (M(b) = y[2] /\ Len(b) <= Len(y[1]))
        BY <1>4
    <2>1. PICK p \in C : y = <<p, M(p)>>
        OBVIOUS
    <2> QED
        BY <1>2, <1>3, <1>4, <2>1
<1>6. PICK x : x = (CHOOSE z \in free : Best(z)) /\ x \in free /\ Best(x)
    BY <1>5
<1>7. PICK best \in C : x = <<best, M(best)>>
    BY <1>6
<1>8. FindLeastCong(net, pq) = best
    <2> HIDE DEF free, Best
    <2>1. FindLeastCong(net, pq) = x[1]
        BY <1>0, <1>6
    <2> QED
        BY <1>7, <2>1
<1>9. ASSUME NEW p \in C
      PROVE  M(best) > M(p) \/ (M(best) = M(p) /\ Len(best) <= Len(p))
    <2>1. CASE <<p, M(p)>> = x
        BY <1>1, <1>2, <1>7, <2>1
    <2>2. CASE <<p, M(p)>> # x
        <3>1. <<p, M(p)>> \in free \ {x}
            BY <2>2
        <3> QED
            BY <1>6, <1>7, <3>1
    <2> QED
        BY <2>1, <2>2
<1> QED
    BY <1>7, <1>8, <1>9 DEF C, M

\* So does it take the one that carries least.
LEMMA LeastCongestedIs == ExactInv => LeastCongestedCarriesLeast
<1> SUFFICES ASSUME ExactInv, NEW pq \in Pairs, NEW p \in Candidates(pq)
             PROVE  LET fullest(q) == Max({Load(l) : l \in LinksOf(q)})
                        best == FindLeastCong(net, pq)
                    IN  \/ fullest(best) < fullest(p)
                        \/ fullest(best) = fullest(p) /\ Len(best) <= Len(p)
    BY DEF LeastCongestedCarriesLeast
<1> DEFINE full(q) == Max({Load(l) : l \in LinksOf(q)})
<1>1. PICK best \in Candidates(pq) : best = FindLeastCong(net, pq)
    BY LeastCongIs
<1>2. IsPath(best) /\ IsPath(p)
    BY CandidatesAre, PathsBetweenAre
<1>3. /\ FindMostCongLink(net, best) = Cardinality(SlotsOfLink) - full(best)
      /\ FindMostCongLink(net, p) = Cardinality(SlotsOfLink) - full(p)
      /\ full(best) \in Nat /\ full(p) \in Nat /\ Cardinality(SlotsOfLink) \in Nat
    BY <1>2, FullestLink
<1>4. \/ FindMostCongLink(net, best) > FindMostCongLink(net, p)
      \/ /\ FindMostCongLink(net, best) = FindMostCongLink(net, p)
         /\ Len(best) <= Len(p)
    BY <1>1, LeastCongIs
<1>5. \/ full(best) < full(p)
      \/ full(best) = full(p) /\ Len(best) <= Len(p)
    <2> HIDE DEF full
    <2> QED
        BY <1>3, <1>4
<1> QED
    BY <1>1, <1>5

\* find_least_weight takes one of the paths.
LEMMA LeastXtIs ==
    ASSUME NEW pq \in Pairs
    PROVE  FindLeastXt(net, pq) \in PathsBetween(pq)
<1> DEFINE costs == {<<p, XtCost(net, p)>> : p \in PathsBetween(pq)}
           least == {x \in costs : \A y \in costs : ~Cheaper(y[2], x[2])}
           found == CHOOSE x \in costs : least # {} => x \in least
<1>1. FindLeastXt(net, pq) = found[1]
    BY DEF FindLeastXt
<1>2. costs # {}
    BY PathsBetweenAre
<1>3. \E x \in costs : least # {} => x \in least
    BY <1>2
<1>4. found \in costs
    <2> HIDE DEF costs, least
    <2> QED
        BY <1>3
<1>5. PICK p \in PathsBetween(pq) : found = <<p, XtCost(net, p)>>
    <2> HIDE DEF found
    <2> QED
        BY <1>4
<1> HIDE DEF found
<1> QED
    BY <1>1, <1>5

\* What get_route returns is a path and formats the bandwidth has.
LEMMA RouteIs ==
    ASSUME ExactInv, NEW pq \in Pairs, NEW bw \in Bandwidth
    PROVE  LET route == GetRoute(net, pq, bw)
           IN  /\ route.path \in Paths
               /\ \A i \in DOMAIN route.mods : i \in Nat /\ route.mods[i] \in Mod \union {NoMod}
<1>1. CASE route_method = "least_congested"
    <2>1. GetRoute(net, pq, bw) = [path |-> FindLeastCong(net, pq), mods |-> <<"QPSK">>]
        BY <1>1 DEF GetRoute
    <2>2. FindLeastCong(net, pq) \in Paths
        BY LeastCongIs, CandidatesAre, PathsBetweenAre
    <2>3. \A i \in DOMAIN <<"QPSK">> : i \in Nat /\ <<"QPSK">>[i] \in Mod
        BY DEF Mod
    <2> QED
        BY <2>1, <2>2, <2>3
<1>2. CASE route_method # "least_congested"
    <2>1. PICK p \in Paths : p = FindLeastXt(net, pq)
        BY LeastXtIs, PathsBetweenAre
    <2>2. GetRoute(net, pq, bw) = [path |-> p, mods |-> XtMods(ModPerBw[bw], p)]
        BY <1>2, <2>1 DEF GetRoute
    <2>3. ModsByReach(ModPerBw[bw]) \in [1..3 -> Mod]
        BY SortedAreMods, RoutingAssumption DEF RoutingAssumption
    <2>4. \A i \in DOMAIN XtMods(ModPerBw[bw], p) :
              i \in Nat /\ XtMods(ModPerBw[bw], p)[i] \in Mod \union {NoMod}
        BY <2>3 DEF XtMods
    <2> QED
        BY <2>1, <2>2, <2>4
<1> QED
    BY <1>1, <1>2

-----------------------------------------------------------------------------
(* Every lightpath whole, whatever route and window it is given. *)

\* The lightpaths are whole, and their windows end where their data does.
MeasuredInv ==
    /\ ExactInv
    /\ \A r \in ReqId : held[r] # None =>
          DataStop(held[r].window) = held[r].window.start_slot + held[r].slots

\* An arrival that is routed is a provisioning of SpectrumChurn.
LEMMA ArriveProvisions ==
    ASSUME ExactInv, NEW pq \in Pairs, NEW bw \in Bandwidth, Arrive(pq, bw)
    PROVE  \E r \in ReqId, d \in Demands : Provision(r, d)
<1> DEFINE route == GetRoute(net, pq, bw)
           idle == {r \in ReqId : held[r] = None}
           ok(f) == Accepted(net, route, bw, f)
<1>1. PICK f \in Forced : /\ idle # {} /\ ok(f) # {}
                          /\ Provision(Min(idle), Demand(route, bw, f, Min(ok(f))))
    BY DEF Arrive
<1>2. /\ route.path \in Paths
      /\ \A i \in DOMAIN route.mods : i \in Nat /\ route.mods[i] \in Mod \union {NoMod}
    BY RouteIs
<1> HIDE DEF route
<1>3. Min(idle) \in ReqId
    <2>1. idle \subseteq Nat /\ idle \subseteq ReqId
        BY DEF ReqId
    <2> HIDE DEF idle
    <2>2. Min(idle) \in idle
        BY <1>1, <2>1, MinIsLeast
    <2> QED
        BY <2>1, <2>2
<1>4. PICK i : i = Min(ok(f)) /\ i \in DOMAIN route.mods /\ route.mods[i] # NoMod
    <2>1. ok(f) \subseteq Nat /\ \A i \in ok(f) : i \in DOMAIN route.mods /\ route.mods[i] # NoMod
        BY <1>2 DEF Accepted
    <2> HIDE DEF ok
    <2>2. Min(ok(f)) \in ok(f)
        BY <1>1, <2>1, MinIsLeast
    <2> QED
        BY <2>1, <2>2
<1>5. ModPerBw[bw][route.mods[i]].slots_needed \in SlotsNeeded
    BY <1>2, <1>4, MeasurementsAssumption DEF MeasurementsAssumption
<1>6. Demand(route, bw, f, i) \in Demands
    BY <1>2, <1>5 DEF Demand, Demands
<1> QED
    BY <1>1, <1>3, <1>4, <1>6

\* The window of a provisioning ends where its data does.
LEMMA ProvisionKeepsMeasuredInv ==
    ASSUME SearchFits, MeasuredInv, NEW r \in ReqId, NEW d \in Demands, Provision(r, d)
    PROVE  MeasuredInv'
<1> PICK w, h : w = Assigned(net, Props(d)) /\ h = [path |-> d[1], slots |-> d[2], window |-> w]
    OBVIOUS
<1>1. ExactInv'
    BY ProvisionKeepsExactInv DEF MeasuredInv
<1>2. LeakInv
    BY DEF MeasuredInv, ExactInv
<1>3. IsFree(net, Props(d)) /\ held' = [held EXCEPT ![r] = h] /\ held \in [ReqId -> HeldRecord \union {None}]
    BY <1>2, ProvisionDoes DEF LeakInv
<1>4. DataStop(w) = w.start_slot + d[2]
    BY <1>3, FoundIsAllowed DEF Fits
<1>5. ASSUME NEW q \in ReqId, held'[q] # None
      PROVE  DataStop(held'[q].window) = held'[q].window.start_slot + held'[q].slots
    <2>1. CASE q = r
        BY <1>3, <1>4, <2>1
    <2>2. CASE q # r
        <3>1. held'[q] = held[q]
            BY <1>3, <2>2
        <3> QED
            BY <1>5, <3>1 DEF MeasuredInv
    <2> QED
        BY <2>1, <2>2
<1>6. \A q \in ReqId : held'[q] # None =>
          DataStop(held'[q].window) = held'[q].window.start_slot + held'[q].slots
    BY <1>5
<1> QED
    BY <1>1, <1>6 DEF MeasuredInv, DataStop

\* A teardown leaves the other windows as they are.
LEMMA TeardownKeepsMeasuredInv ==
    ASSUME MeasuredInv, NEW r \in ReqId, Teardown(r)
    PROVE  MeasuredInv'
<1>1. ExactInv'
    BY TeardownKeepsExactInv DEF MeasuredInv
<1>2. held' = [held EXCEPT ![r] = None] /\ held \in [ReqId -> HeldRecord \union {None}]
    BY DEF Teardown, MeasuredInv, ExactInv, LeakInv
<1>3. ASSUME NEW q \in ReqId, held'[q] # None
      PROVE  DataStop(held'[q].window) = held'[q].window.start_slot + held'[q].slots
    <2>1. held'[q] = held[q]
        BY <1>2, <1>3
    <2> QED
        BY <1>3, <2>1 DEF MeasuredInv
<1> QED
    BY <1>1, <1>3 DEF MeasuredInv, DataStop

\* Every reachable state has every lightpath whole.
LEMMA MeasuredInvAlways ==
    ASSUME SearchFits
    PROVE  MeasuredSpec => []MeasuredInv
<1>1. MeasuredInit => MeasuredInv
    <2> SUFFICES ASSUME MeasuredInit
                 PROVE  MeasuredInv
        OBVIOUS
    <2>1. \A r \in ReqId : held[r] = None
        BY DEF MeasuredInit, Init
    <2>2. LeakInv
        BY LeakInvInit DEF MeasuredInit
    <2> QED
        BY <2>1, <2>2 DEF MeasuredInv, ExactInv
<1>2. MeasuredInv /\ [MeasuredNext]_measuredVars => MeasuredInv'
    <2> SUFFICES ASSUME MeasuredInv, [MeasuredNext]_measuredVars
                 PROVE  MeasuredInv'
        OBVIOUS
    <2>1. CASE UNCHANGED measuredVars
        <3>1. UNCHANGED vars
            BY <2>1 DEF measuredVars, vars
        <3>2. LeakInv'
            BY <3>1, LeakInvStep DEF MeasuredInv, ExactInv
        <3> QED
            BY <2>1, <3>2 DEF MeasuredInv, ExactInv, measuredVars, DataStop
    <2>2. ASSUME NEW pq \in Pairs, NEW bw \in Bandwidth, Arrive(pq, bw)
          PROVE  MeasuredInv'
        <3>1. PICK r \in ReqId, d \in Demands : Provision(r, d)
            BY <2>2, ArriveProvisions DEF MeasuredInv
        <3> QED
            BY <3>1, ProvisionKeepsMeasuredInv
    <2>3. ASSUME NEW r \in ReqId, Depart(r)
          PROVE  MeasuredInv'
        BY <2>3, TeardownKeepsMeasuredInv DEF Depart
    <2> QED
        BY <2>1, <2>2, <2>3 DEF MeasuredNext
<1> QED
    BY <1>1, <1>2, PTL DEF MeasuredSpec

-----------------------------------------------------------------------------
(* Cross-phase noise. *)

\* The slots of a core on which the lightpath of a request starts are those of its own.
LEMMA HeldRun ==
    ASSUME ExactInv, NEW l \in Link, NEW b \in Band, NEW c \in Core, NEW s \in Slot(b),
           net[<<l, b, c, s>>] > 0
    PROVE  LET q == net[<<l, b, c, s>>]
           IN  /\ q \in ReqId /\ held[q] # None /\ l \in LinksOf(held[q].path)
               /\ held[q].slots \in Nat \ {0} /\ held[q].window.start_slot \in Nat
               /\ held[q].window.curr_band = b /\ held[q].window.core_num = c
               /\ held[q].window.start_slot + held[q].slots + GuardSlots <= BandSlots[b]
               /\ \A t \in Slot(b) : net[<<l, b, c, t>>] = q <=>
                     held[q].window.start_slot <= t /\ t < held[q].window.start_slot + held[q].slots
<1> DEFINE x == <<l, b, c, s>>
<1>1. x \in Cell
    BY TupleIsCell
<1>2. PICK q \in ReqId : held[q] # None /\ net[x] \in {q, -q} /\ l \in LinksOf(held[q].path)
    BY <1>1 DEF ExactInv, LeakInv
<1>3. net[x] = q
    BY <1>2 DEF ReqId
<1>4. PICK h : h = held[q] /\ h \in HeldRecord
    BY <1>2 DEF ExactInv, LeakInv
<1>5. h.slots \in Nat \ {0}
    BY <1>4, ChurnAssumption DEF ChurnAssumption, HeldRecord
<1>6. Holding(net, q, h.path, h.slots, h.window)
    BY <1>2, <1>4 DEF ExactInv
<1>7. h.window.curr_band = b /\ h.window.core_num = c
    BY <1>1, <1>3, <1>6 DEF Holding, OnChannel
<1>8. h.window.start_slot \in Nat /\ h.window.start_slot + h.slots + GuardSlots <= BandSlots[b]
    BY <1>6, <1>7 DEF Holding, Slot
<1>9. ASSUME NEW t \in Slot(b)
      PROVE  net[<<l, b, c, t>>] = q <=> h.window.start_slot <= t /\ t < h.window.start_slot + h.slots
    <2>1. <<l, b, c, t>> \in Cell
        BY TupleIsCell
    <2>2. OnChannel(<<l, b, c, t>>, h.path, h.window)
        BY <1>2, <1>4, <1>7 DEF OnChannel
    <2> QED
        BY <1>6, <2>1, <2>2 DEF Holding
<1> QED
    BY <1>2, <1>3, <1>4, <1>5, <1>7, <1>8, <1>9

\* A free window has no edge of a channel at its centre: the slot before or after that
\* edge would be a slot of the window that is taken.
LEMMA CentreIsInside ==
    ASSUME GuardSlots \in 0..1, NEW a \in Nat, NEW m \in Nat \ {0}, NEW s \in Nat, NEW n \in Nat \ {0},
           \A t \in Nat : ~(a <= t /\ t < a + m /\ s <= t /\ t < s + n + GuardSlots)
    PROVE  /\ 2 * a # 2 * s + n + 2 * GuardSlots
           /\ 2 * (a + m) # 2 * s + n + 2 * GuardSlots
<1>1. CASE 2 * a = 2 * s + n + 2 * GuardSlots
    <2>1. a < s + n + GuardSlots
        BY <1>1
    <2> QED
        BY <1>1, <2>1
<1>2. CASE 2 * (a + m) = 2 * s + n + 2 * GuardSlots
    <2>1. PICK t \in Nat : t = a + m - 1
        OBVIOUS
    <2>2. s <= t /\ t < s + n + GuardSlots
        BY <1>2, <2>1
    <2> QED
        BY <2>1, <2>2
<1> QED
    BY <1>1, <1>2

\* On every spectrum of whole lightpaths, the noise of a window that is found is finite.
LEMMA NoiseIsFinite ==
    ASSUME SearchFits, Band = {"c"}, ExactInv
    PROVE  XciIsFinite
<1> SUFFICES ASSUME NEW d \in Demands, IsFree(net, Props(d)), NEW l \in LinksOf(d[1]),
                    NEW x \in Interferers(net, l, Assigned(net, Props(d)).core_num)
             PROVE  x.center - Center(Assigned(net, Props(d))) \notin {x.width, -x.width}
    BY DEF XciIsFinite
<1> PICK w : w = Assigned(net, Props(d))
    OBVIOUS
<1>1. Fits(net, d[1], d[2], w) /\ d[2] \in Nat \ {0} /\ IsPath(d[1])
    BY FoundIsAllowed, DemandProps, ChurnAssumption
<1>2. PICK c \in Core, s \in Nat, n \in Nat \ {0} :
          c = w.core_num /\ s = w.start_slot /\ n = d[2]
    BY <1>1 DEF Fits, Slot
<1>3. w.curr_band = "c" /\ DataStop(w) = s + n /\ Open(net, d[1], n, c, "c", s)
    BY <1>1, <1>2 DEF Fits
<1>4. GuardSlots \in 0..1
    BY SpectrumAssumption DEF SearchFits, SpectrumAssumption
<1>5. Center(w) = 2 * s + n + 2 * GuardSlots
    <2>0. PICK e \in Int : e = w.end_slot
        <3>1. PropsOk(Props(d))
            BY DemandProps, ChurnAssumption
        <3>2. w \in WindowType
            BY <3>1, AssignedType, SpectrumAssumption, SearchAssumption DEF PropsOk
        <3> QED
            BY <3>2 DEF WindowType
    <2>1. Center(w) = s + e + 1
        BY <1>2, <2>0 DEF Center
    <2>2. CASE GuardSlots = 0
        <3>1. e + 1 = s + n
            BY <1>3, <2>0, <2>2 DEF DataStop
        <3> QED
            BY <2>1, <2>2, <3>1
    <2>3. CASE GuardSlots = 1
        <3>1. e - 1 = s + n
            BY <1>3, <2>0, <2>3 DEF DataStop
        <3> QED
            BY <2>1, <2>3, <3>1
    <2> QED
        BY <1>4, <2>2, <2>3
<1>6. l \in Link /\ "c" \in Band
    BY <1>1 DEF IsPath
<1>7. PICK t \in Slot("c") : /\ x = Interferer(net, l, c, t)
                             /\ net[<<l, "c", c, t>>] > 0
                             /\ \A u \in 0..(t - 1) : net[<<l, "c", c, u>>] # net[<<l, "c", c, t>>]
    BY <1>2 DEF Interferers
<1>8. PICK q, a \in Nat, m \in Nat \ {0} :
          /\ q = net[<<l, "c", c, t>>]
          /\ a + m + GuardSlots <= BandSlots["c"]
          /\ \A u \in Slot("c") : net[<<l, "c", c, u>>] = q <=> a <= u /\ u < a + m
    <2>1. PICK q \in Nat : q = net[<<l, "c", c, t>>]
        BY <1>6, <1>7, HeldRun DEF ReqId
    <2>2. PICK a \in Nat, m \in Nat \ {0} : a = held[q].window.start_slot /\ m = held[q].slots
        BY <1>6, <1>7, <2>1, HeldRun
    <2>3. /\ a + m + GuardSlots <= BandSlots["c"]
          /\ \A u \in Slot("c") : net[<<l, "c", c, u>>] = q <=> a <= u /\ u < a + m
        BY <1>6, <1>7, <2>1, <2>2, HeldRun
    <2> QED
        BY <2>1, <2>3
<1>9. \A u \in Nat : a <= u /\ u < a + m => u \in Slot("c")
    BY <1>4, <1>6, <1>8, SpectrumAssumption DEF Slot, SpectrumAssumption
<1>10. t = a
    <2>1. a <= t /\ t < a + m /\ t \in Nat
        BY <1>7, <1>8 DEF Slot
    <2>2. a \in Slot("c") /\ net[<<l, "c", c, a>>] = q
        BY <1>8, <1>9
    <2> QED
        BY <1>7, <1>8, <2>1, <2>2
<1>11. x.center = 2 * a + m /\ x.width = m
    <2> DEFINE S == {u \in Slot("c") : net[<<l, "c", c, u>>] = q}
    <2>1. S = a..(a + m - 1)
        BY <1>8, <1>9 DEF Slot
    <2>2. PICK high \in Int : high = a + m - 1 /\ a <= high
        OBVIOUS
    <2>3. Cardinality(a..high) = IF a > high THEN 0 ELSE high - a + 1
        BY FS_Interval
    <2>4. Cardinality(S) = m
        <3>1. S = a..high
            BY <2>1, <2>2
        <3>2. Cardinality(a..high) = m
            BY <2>2, <2>3
        <3> QED
            BY <3>1, <3>2, Zenon
    <2>5. x = [id |-> q, center |-> 2 * t + Cardinality(S), width |-> Cardinality(S)]
        BY <1>7, <1>8 DEF Interferer
    <2> HIDE DEF S
    <2> QED
        BY <1>10, <2>4, <2>5
<1>12. ASSUME NEW u \in Nat, a <= u, u < a + m, s <= u, u < s + n + GuardSlots
       PROVE  FALSE
    <2>1. net[<<l, "c", c, u>>] = q /\ q > 0
        BY <1>7, <1>8, <1>9, <1>12
    <2>2. u \in s..(s + n + GuardSlots - 1)
        BY <1>4, <1>12
    <2>3. net[<<l, "c", c, u>>] = 0
        BY <1>3, <2>2 DEF Open
    <2> QED
        BY <2>1, <2>3
<1>13. /\ 2 * a # 2 * s + n + 2 * GuardSlots
       /\ 2 * (a + m) # 2 * s + n + 2 * GuardSlots
    BY <1>4, <1>12, CentreIsInside
<1> QED
    BY <1>4, <1>5, <1>11, <1>13

-----------------------------------------------------------------------------
(* Cross-talk. *)

\* The fiber has seven cores.
LEMMA SevenCores == Core = 0..6 /\ IsFiniteSet(Core) /\ Cardinality(Core) = 7
<1>1. PICK last \in Int : last = 6 /\ CoresPerLink - 1 = last
    BY MeasurementsAssumption DEF MeasurementsAssumption
<1>2. Core = 0..last
    BY <1>1 DEF Core
<1>3. IsFiniteSet(0..last) /\ Cardinality(0..last) = IF 0 > last THEN 0 ELSE last - 0 + 1
    BY FS_Interval
<1> QED
    BY <1>1, <1>2, <1>3

\* The neighbours check_adjacent_cores lists are the cores beside a core.
LEMMA NeighboursAre ==
    ASSUME NEW c \in Core, NEW a \in Core
    PROVE  a \in Neighbours(c) <=> Beside(c, a)
<1>1. Core = 0..6
    BY MeasurementsAssumption DEF Core, MeasurementsAssumption
<1>2. c \in 0..6 /\ a \in 0..6
    BY <1>1
<1> QED
    BY <1>2 DEF Neighbours, Beside

\* They are cores.
LEMMA NeighboursAreCores ==
    ASSUME NEW c \in Core
    PROVE  Neighbours(c) \subseteq Core /\ IsFiniteSet(Neighbours(c))
<1>1. Core = 0..6 /\ IsFiniteSet(Core)
    BY SevenCores
<1>2. Neighbours(c) \subseteq Core
    BY <1>1 DEF Neighbours
<1> QED
    BY <1>1, <1>2, FS_Subset

\* As many cores beside a slot are in use as lightpaths run beside it.
LEMMA BesideIsCounted ==
    ASSUME ExactInv, NEW l \in Link, NEW b \in Band, NEW c \in Core, NEW s \in Slot(b)
    PROVE  LET near == Cardinality(Overlapping(net, l, b, c, s))
           IN  /\ near = Cardinality(HeldBeside(l, b, c, s)) /\ near \in 0..7
               /\ Overlapping(net, l, b, c, s) = {} => HeldBeside(l, b, c, s) = {}
<1> DEFINE S == Overlapping(net, l, b, c, s)
           T == HeldBeside(l, b, c, s)
           g == [a \in S |-> net[<<l, b, a, s>>]]
<1>1. S = {a \in Neighbours(c) : net[<<l, b, a, s>>] > 0} /\ S \subseteq Core
    BY NeighboursAreCores DEF Overlapping
<1>2. ASSUME NEW a \in S
      PROVE  g[a] \in T /\ held[g[a]].window.core_num = a
    <2>1. PICK q : q = net[<<l, b, a, s>>] /\ q > 0
        BY <1>1
    <2>2. /\ q \in ReqId /\ held[q] # None /\ l \in LinksOf(held[q].path)
          /\ held[q].window.curr_band = b /\ held[q].window.core_num = a
          /\ held[q].slots \in Nat \ {0} /\ held[q].window.start_slot \in Nat
          /\ held[q].window.start_slot <= s /\ s < held[q].window.start_slot + held[q].slots
        BY <1>1, <2>1, HeldRun
    <2>3. Beside(c, a)
        BY <1>1, NeighboursAre
    <2>4. s \in held[q].window.start_slot..(held[q].window.start_slot + held[q].slots - 1)
        BY <2>2 DEF Slot
    <2> QED
        BY <2>1, <2>2, <2>3, <2>4 DEF HeldBeside
<1>3. ASSUME NEW q \in T
      PROVE  \E a \in S : g[a] = q
    <2>1. /\ q \in ReqId /\ held[q] # None
          /\ l \in LinksOf(held[q].path) /\ held[q].window.curr_band = b
          /\ Beside(c, held[q].window.core_num)
          /\ s \in held[q].window.start_slot..(held[q].window.start_slot + held[q].slots - 1)
        BY DEF HeldBeside
    <2>2. Holding(net, q, held[q].path, held[q].slots, held[q].window)
        BY <2>1 DEF ExactInv
    <2>3. PICK a \in Core : a = held[q].window.core_num
        BY <2>2 DEF Holding
    <2>4. <<l, b, a, s>> \in Cell /\ OnChannel(<<l, b, a, s>>, held[q].path, held[q].window)
        BY <2>1, <2>3, TupleIsCell DEF OnChannel
    <2>5. held[q].slots \in Nat
        BY <2>1, ChurnAssumption DEF ExactInv, LeakInv, HeldRecord, ChurnAssumption
    <2>6. held[q].window.start_slot <= s /\ s < held[q].window.start_slot + held[q].slots
        BY <2>1, <2>2, <2>5 DEF Holding, Slot
    <2>7. net[<<l, b, a, s>>] = q
        BY <2>2, <2>4, <2>6 DEF Holding
    <2>8. a \in S /\ q > 0
        BY <1>1, <2>1, <2>3, <2>7, NeighboursAre DEF ReqId
    <2> QED
        BY <2>7, <2>8
<1>4. IsFiniteSet(S) /\ Cardinality(S) \in Nat /\ Cardinality(S) <= 7
    <2>1. IsFiniteSet(Core) /\ Cardinality(Core) = 7
        BY SevenCores
    <2> HIDE DEF S
    <2>2. IsFiniteSet(S) /\ Cardinality(S) <= Cardinality(Core)
        BY <1>1, <2>1, FS_Subset
    <2> QED
        BY <2>1, <2>2, FS_CardinalityType
<1>5. g \in Bijection(S, T)
    <2>1. g \in [S -> T]
        BY <1>2
    <2>2. \A a, e \in S : g[a] = g[e] => a = e
        BY <1>2
    <2> HIDE DEF g, S, T
    <2> QED
        BY <1>3, <2>1, <2>2 DEF Bijection, Injection, Surjection, IsInjective
<1>6. Cardinality(T) = Cardinality(S)
    <2>1. ExistsBijection(S, T)
        BY <1>5, Zenon DEF ExistsBijection
    <2> QED
        BY <1>4, <2>1, FS_Bijection
<1>7. S = {} => T = {}
    BY <1>3
<1> HIDE DEF g, S, T
<1> QED
    BY <1>4, <1>6, <1>7 DEF S, T

\* So check_adjacent_cores counts all that run beside a lightpath.
LEMMA NobodyIsMissed ==
    ASSUME SearchFits, MeasuredInv
    PROVE  CrossTalkMissesNobody
<1> SUFFICES ASSUME GuardSlots # 0, NEW r \in ReqId, held[r] # None, NEW l \in LinksOf(held[r].path)
             PROVE  LET w == held[r].window
                        beside(s) == Cardinality(HeldBeside(l, w.curr_band, w.core_num, s))
                    IN  CheckAdjacentCores(net, l, w) =
                          Max({beside(s) : s \in w.start_slot..(w.start_slot + held[r].slots + GuardSlots - 1)})
    BY DEF CrossTalkMissesNobody
<1>1. ExactInv /\ GuardSlots = 1
    BY SpectrumAssumption DEF SearchFits, SpectrumAssumption, MeasuredInv
<1>2. PICK h : h = held[r] /\ h \in HeldRecord
    BY <1>1 DEF ExactInv, LeakInv
<1>3. h.slots \in Nat \ {0} /\ l \in Link
    BY <1>2, ChurnAssumption DEF ChurnAssumption, HeldRecord, IsPath
<1>4. Holding(net, r, h.path, h.slots, h.window)
    BY <1>1, <1>2 DEF ExactInv
<1>5. PICK b \in Band, c \in Core, a \in Nat, n \in Nat \ {0} :
          /\ b = h.window.curr_band /\ c = h.window.core_num /\ a = h.window.start_slot /\ n = h.slots
          /\ a + n + 1 <= BandSlots[b]
    BY <1>1, <1>3, <1>4 DEF Holding, Slot
<1>6. h.window.end_slot - 1 = a + n
    BY <1>1, <1>2, <1>5 DEF MeasuredInv, DataStop
<1> DEFINE I == a..(a + n)
           near(s) == Cardinality(Overlapping(net, l, b, c, s))
           beside(s) == Cardinality(HeldBeside(l, b, c, s))
           A == {near(s) : s \in I}
           B == {beside(s) : s \in I}
<1>7. \A s \in I : s \in Slot(b)
    BY <1>5, SpectrumAssumption DEF Slot, SpectrumAssumption
<1>8. \A s \in I : near(s) = beside(s) /\ near(s) \in 0..7
    BY <1>1, <1>3, <1>7, BesideIsCounted
<1>9. CheckAdjacentCores(net, l, h.window) = Max({0} \union A)
    BY <1>5, <1>6 DEF CheckAdjacentCores
<1>10. a \in I
    OBVIOUS
<1> HIDE DEF near, beside, I
<1>11. A = B
    BY <1>8
<1>12. A \subseteq 0..7 /\ A # {}
    BY <1>8, <1>10
<1>13. Max({0} \union A) = Max(A)
    BY <1>12, MaxOfMore
<1>14. {beside(s) : s \in h.window.start_slot..(h.window.start_slot + h.slots + GuardSlots - 1)} = B
    <2>1. h.window.start_slot..(h.window.start_slot + h.slots + GuardSlots - 1) = I
        BY <1>1, <1>5 DEF I
    <2> QED
        BY <2>1
<1>15. CheckAdjacentCores(net, l, h.window) = Max(B)
    BY <1>9, <1>11, <1>13
<1>16. B = {Cardinality(HeldBeside(l, h.window.curr_band, h.window.core_num, s)) :
                s \in h.window.start_slot..(h.window.start_slot + h.slots + GuardSlots - 1)}
    BY <1>5, <1>14 DEF beside
<1>17. CheckAdjacentCores(net, l, h.window) =
           Max({Cardinality(HeldBeside(l, h.window.curr_band, h.window.core_num, s)) :
                s \in h.window.start_slot..(h.window.start_slot + h.slots + GuardSlots - 1)})
    BY <1>15, <1>16, Zenon
<1> QED
    BY <1>2, <1>17, Zenon

-----------------------------------------------------------------------------
(* Routing by cross-talk. *)

\* A taken cell is of a lightpath on its core, whose first slot holds its id.
LEMMA TakenCell ==
    ASSUME ExactInv, NEW l \in Link, NEW b \in Band, NEW c \in Core, NEW s \in Slot(b),
           net[<<l, b, c, s>>] # 0
    PROVE  \E q \in ReqId :
              /\ held[q] # None /\ l \in LinksOf(held[q].path)
              /\ held[q].window.curr_band = b /\ held[q].window.core_num = c
              /\ \E t \in Slot(b) : net[<<l, b, c, t>>] = q /\ q > 0
<1>1. <<l, b, c, s>> \in Cell
    BY TupleIsCell
<1>2. PICK q \in ReqId :
          held[q] # None /\ net[<<l, b, c, s>>] \in {q, -q} /\ l \in LinksOf(held[q].path)
    BY <1>1 DEF ExactInv, LeakInv
<1>3. PICK h : h = held[q] /\ h.slots \in Nat \ {0}
    BY <1>2, ChurnAssumption DEF ExactInv, LeakInv, HeldRecord, ChurnAssumption
<1>4. Holding(net, q, h.path, h.slots, h.window)
    BY <1>2, <1>3 DEF ExactInv
<1>5. h.window.curr_band = b /\ h.window.core_num = c
    BY <1>1, <1>2, <1>4 DEF Holding, OnChannel
<1>6. PICK t \in Slot(b) : t = h.window.start_slot /\ t \in Nat
    BY <1>4, <1>5 DEF Holding, Slot
<1>7. <<l, b, c, t>> \in Cell /\ OnChannel(<<l, b, c, t>>, h.path, h.window)
    BY <1>2, <1>3, <1>5, TupleIsCell DEF OnChannel
<1>8. net[<<l, b, c, t>>] = q
    BY <1>3, <1>4, <1>6, <1>7 DEF Holding
<1> QED
    BY <1>2, <1>3, <1>5, <1>8 DEF ReqId

\* A link that costs nothing has free slots, and none of them a neighbour in use.
Clear(l) ==
    /\ FreeOfLink(net, l) # {}
    /\ \A x \in FreeOfLink(net, l) : Overlapping(net, l, x[1], x[2], x[3]) = {}

\* The first slot of a lightpath on a link.
LEMMA StartOnLink ==
    ASSUME ExactInv, NEW l \in Link, NEW r \in HeldOn(l)
    PROVE  \E b \in Band, c \in Core : \E t \in Slot(b) : net[<<l, b, c, t>>] = r /\ r > 0
<1>1. r \in ReqId /\ held[r] # None /\ l \in LinksOf(held[r].path)
    BY DEF HeldOn
<1>2. PICK h : h = held[r] /\ h.slots \in Nat \ {0}
    BY <1>1, ChurnAssumption DEF ExactInv, LeakInv, HeldRecord, ChurnAssumption
<1>3. Holding(net, r, h.path, h.slots, h.window)
    BY <1>1, <1>2 DEF ExactInv
<1>4. PICK b \in Band, c \in Core, t \in Nat :
          b = h.window.curr_band /\ c = h.window.core_num /\ t = h.window.start_slot /\ t \in Slot(b)
    BY <1>3 DEF Holding, Slot
<1>5. <<l, b, c, t>> \in Cell /\ OnChannel(<<l, b, c, t>>, h.path, h.window)
    BY <1>1, <1>2, <1>4, TupleIsCell DEF OnChannel
<1>6. net[<<l, b, c, t>>] = r
    BY <1>2, <1>3, <1>4, <1>5 DEF Holding
<1> QED
    BY <1>1, <1>4, <1>6 DEF ReqId

\* On a clear link what a core carries beside another the other carries too: a free slot
\* would be beside one in use.
LEMMA CarriedBeside ==
    ASSUME ExactInv, NEW l \in Link, Clear(l), NEW b \in Band, NEW c \in Core, NEW e \in Core,
           c # e, 6 \in {c, e}, NEW t \in Slot(b), net[<<l, b, c, t>>] > 0
    PROVE  \E s \in Slot(b) : net[<<l, b, e, s>>] > 0
<1>1. Core = 0..6
    BY SevenCores
<1>2. c \in Overlapping(net, l, b, e, t)
    BY <1>1 DEF Neighbours, Overlapping
<1>3. net[<<l, b, e, t>>] # 0
    <2>1. <<b, e, t>> \in SlotsOfLink
        BY DEF SlotsOfLink
    <2>2. <<b, e, t>> \notin FreeOfLink(net, l)
        BY <1>2 DEF Clear
    <2> QED
        BY <2>1, <2>2, FreeOfLinkAre
<1>4. \E q \in ReqId : \E s \in Slot(b) : net[<<l, b, e, s>>] = q /\ q > 0
    BY <1>3, TakenCell
<1> QED
    BY <1>4

\* So a clear link that carries a lightpath carries one on each core.
LEMMA ClearCarriesSeven ==
    ASSUME ExactInv, NEW l \in Link, Clear(l), HeldOn(l) # {}
    PROVE  Cardinality(HeldOn(l)) >= CoresPerLink
<1>1. PICK r \in HeldOn(l) : TRUE
    OBVIOUS
<1>2. PICK b \in Band, c \in Core : \E t \in Slot(b) : net[<<l, b, c, t>>] > 0
    BY StartOnLink
<1>3. Core = 0..6
    BY SevenCores
<1>4. \E t \in Slot(b) : net[<<l, b, 6, t>>] > 0
    <2>1. CASE c = 6
        BY <1>2, <2>1
    <2>2. CASE c # 6
        BY <1>2, <1>3, <2>2, CarriedBeside
    <2> QED
        BY <2>1, <2>2
<1>5. ASSUME NEW e \in Core
      PROVE  \E q \in HeldOn(l) : held[q].window.core_num = e
    <2>1. PICK t \in Slot(b) : net[<<l, b, e, t>>] > 0
        <3>1. CASE e = 6
            BY <1>4, <3>1
        <3>2. CASE e # 6
            BY <1>3, <1>4, <3>2, CarriedBeside
        <3> QED
            BY <3>1, <3>2
    <2>2. PICK q \in ReqId : /\ held[q] # None /\ l \in LinksOf(held[q].path)
                             /\ held[q].window.core_num = e
        BY <2>1, HeldRun
    <2> QED
        BY <2>2 DEF HeldOn
<1> DEFINE f == [e \in Core |-> CHOOSE q \in HeldOn(l) : held[q].window.core_num = e]
<1>6. \A e \in Core : f[e] \in HeldOn(l) /\ held[f[e]].window.core_num = e
    BY <1>5
<1>7. f \in [Core -> HeldOn(l)]
    BY <1>6
<1>8. IsFiniteSet(HeldOn(l)) /\ Cardinality(HeldOn(l)) \in Nat
    <2>1. IsFiniteSet(ReqId) /\ HeldOn(l) \subseteq ReqId
        BY FS_Interval, ChurnAssumption DEF ReqId, ChurnAssumption, HeldOn
    <2> QED
        BY <2>1, FS_Subset, FS_CardinalityType
<1> HIDE DEF f
<1>9. IsFiniteSet(Core) /\ Cardinality(Core) = 7 /\ CoresPerLink = 7
    BY SevenCores, MeasurementsAssumption DEF MeasurementsAssumption
<1>10. ~(Cardinality(HeldOn(l)) < Cardinality(Core))
    <2> SUFFICES ASSUME Cardinality(HeldOn(l)) < Cardinality(Core) PROVE FALSE
        OBVIOUS
    <2>1. \E x, y \in Core : x # y /\ f[x] = f[y]
        BY <1>7, <1>8, <1>9, FS_PigeonHole
    <2> QED
        BY <1>6, <2>1
<1> QED
    BY <1>8, <1>9, <1>10

\* What _find_num_overlapped adds up is zero when no slot has a neighbour in use.
LEMMA SixthsAre ==
    ASSUME NEW l, NEW slots \in SUBSET SlotsOfLink
    PROVE  /\ SixthsOverlapped(net, l, slots) \in Nat
           /\ SixthsOverlapped(net, l, slots) = 0 <=>
                 \A x \in slots : Overlapping(net, l, x[1], x[2], x[3]) = {}
<1> DEFINE by(x) == {x} \X Overlapping(net, l, x[1], x[2], x[3])
           beside(S) == UNION {by(x) : x \in S}
           A == {x \in slots : x[2] = 6}
           B == {x \in slots : x[2] # 6}
<1>1. SixthsOverlapped(net, l, slots) = Cardinality(beside(A)) + 2 * Cardinality(beside(B))
    BY DEF SixthsOverlapped
<1>2. IsFiniteSet(SlotsOfLink \X Core)
    BY LinkIsFinite, SevenCores, FS_Product
<1>3. ASSUME NEW S \in SUBSET slots
      PROVE  /\ IsFiniteSet(beside(S))
             /\ beside(S) = {} <=> \A x \in S : Overlapping(net, l, x[1], x[2], x[3]) = {}
    <2>1. ASSUME NEW x \in S
          PROVE  by(x) \subseteq SlotsOfLink \X Core
        <3>1. PICK b \in Band : x \in {b} \X Core \X Slot(b)
            BY DEF SlotsOfLink
        <3>2. x[2] \in Core
            BY <3>1
        <3>3. Overlapping(net, l, x[1], x[2], x[3]) \subseteq Core
            BY <3>2, NeighboursAreCores DEF Overlapping
        <3> QED
            BY <3>3
    <2>2. ASSUME NEW x \in S
          PROVE  by(x) = {} <=> Overlapping(net, l, x[1], x[2], x[3]) = {}
        <3> DEFINE O == Overlapping(net, l, x[1], x[2], x[3])
        <3>1. \A y \in O : <<x, y>> \in {x} \X O
            OBVIOUS
        <3>2. \A z \in {x} \X O : z[2] \in O
            OBVIOUS
        <3>3. by(x) = {x} \X O
            OBVIOUS
        <3> HIDE DEF O, by
        <3>4. by(x) = {} <=> O = {}
            BY <3>1, <3>2, <3>3
        <3> QED
            BY <3>4 DEF O
    <2> HIDE DEF by
    <2>3. beside(S) \subseteq SlotsOfLink \X Core
        BY <2>1
    <2>4. beside(S) = {} <=> \A x \in S : by(x) = {}
        OBVIOUS
    <2>5. IsFiniteSet(beside(S))
        <3> HIDE DEF beside
        <3> QED
            BY <1>2, <2>3, FS_Subset
    <2> QED
        BY <2>2, <2>4, <2>5
<1> HIDE DEF beside
<1>4. A \in SUBSET slots /\ B \in SUBSET slots /\ slots = A \union B
    OBVIOUS
<1>5. /\ Cardinality(beside(A)) \in Nat /\ (Cardinality(beside(A)) = 0 <=> beside(A) = {})
      /\ Cardinality(beside(B)) \in Nat /\ (Cardinality(beside(B)) = 0 <=> beside(B) = {})
    BY <1>3, <1>4, FS_CardinalityType, FS_EmptySet
<1>6. (beside(A) = {} /\ beside(B) = {}) <=>
          \A x \in slots : Overlapping(net, l, x[1], x[2], x[3]) = {}
    BY <1>3, <1>4
<1>7. PICK m \in Nat, n \in Nat : m = Cardinality(beside(A)) /\ n = Cardinality(beside(B))
    BY <1>5
<1>8. m + 2 * n \in Nat /\ (m + 2 * n = 0 <=> m = 0 /\ n = 0)
    OBVIOUS
<1>9. SixthsOverlapped(net, l, slots) = m + 2 * n
    BY <1>1, <1>7
<1>10. (m = 0 /\ n = 0) <=> \A x \in slots : Overlapping(net, l, x[1], x[2], x[3]) = {}
    BY <1>5, <1>6, <1>7
<1> QED
    BY <1>8, <1>9, <1>10

\* A link costs nothing exactly when it is clear.
LEMMA LinkCostIs ==
    ASSUME NEW l \in Link
    PROVE  LET cost == FindXtLinkCost(net, l)
           IN  cost[1] \in Nat /\ cost[2] \in Nat \ {0} /\ (cost[1] = 0 <=> Clear(l))
<1> DEFINE F == FreeOfLink(net, l)
<1>1. F \in SUBSET SlotsOfLink /\ IsFiniteSet(F) /\ Cardinality(F) \in Nat
    <2>1. F \in SUBSET SlotsOfLink
        BY FreeOfLinkAre
    <2> HIDE DEF F
    <2>2. IsFiniteSet(F)
        BY <2>1, LinkIsFinite, FS_Subset
    <2> QED
        BY <2>1, <2>2, FS_CardinalityType
<1>2. CASE F = {}
    <2>1. FindXtLinkCost(net, l) = <<6 * 1000, 1>>
        BY <1>2 DEF FindXtLinkCost
    <2> QED
        BY <1>2, <2>1 DEF Clear
<1>3. CASE F # {}
    <2>1. FindXtLinkCost(net, l) = <<SixthsOverlapped(net, l, F), Cardinality(F)>>
        BY <1>3 DEF FindXtLinkCost
    <2>2. Cardinality(F) \in Nat \ {0}
        BY <1>1, <1>3, FS_EmptySet
    <2>3. /\ SixthsOverlapped(net, l, F) \in Nat
          /\ SixthsOverlapped(net, l, F) = 0 <=> \A x \in F : Overlapping(net, l, x[1], x[2], x[3]) = {}
        BY <1>1, SixthsAre
    <2>4. Clear(l) <=> \A x \in F : Overlapping(net, l, x[1], x[2], x[3]) = {}
        BY <1>3 DEF Clear
    <2>5. PICK m \in Nat : m = SixthsOverlapped(net, l, F)
        BY <2>3
    <2>6. PICK n \in Nat \ {0} : n = Cardinality(F)
        BY <2>2
    <2>7. FindXtLinkCost(net, l) = <<m, n>>
        BY <2>1, <2>5, <2>6
    <2>8. m = 0 <=> Clear(l)
        BY <2>3, <2>4, <2>5
    <2> HIDE DEF F
    <2> QED
        BY <2>7, <2>8
<1> QED
    BY <1>2, <1>3

\* A link that carries nothing is clear.
LEMMA IdleIsClear ==
    ASSUME ExactInv, NEW l \in Link, HeldOn(l) = {}, SlotsOfLink # {}
    PROVE  Clear(l)
<1>1. ASSUME NEW x \in SlotsOfLink
      PROVE  net[<<l, x[1], x[2], x[3]>>] = 0
    <2>1. x[1] \in Band /\ x[2] \in Core /\ x[3] \in Slot(x[1])
        BY SlotIsCell
    <2>2. ASSUME net[<<l, x[1], x[2], x[3]>>] # 0
          PROVE  FALSE
        <3>1. PICK q \in ReqId : held[q] # None /\ l \in LinksOf(held[q].path)
            BY <2>1, <2>2, TakenCell
        <3> QED
            BY <3>1 DEF HeldOn
    <2> QED
        BY <2>2
<1>2. FreeOfLink(net, l) = SlotsOfLink
    BY <1>1, FreeOfLinkAre
<1>3. ASSUME NEW x \in SlotsOfLink, NEW a \in Overlapping(net, l, x[1], x[2], x[3])
      PROVE  FALSE
    <2>1. x[1] \in Band /\ x[2] \in Core /\ x[3] \in Slot(x[1])
        BY SlotIsCell
    <2>2. a \in Core /\ net[<<l, x[1], a, x[3]>>] > 0
        BY <1>3, <2>1, NeighboursAreCores DEF Overlapping
    <2>3. PICK y : y = <<x[1], a, x[3]>>
        OBVIOUS
    <2>4. y \in SlotsOfLink /\ y[1] = x[1] /\ y[2] = a /\ y[3] = x[3]
        BY <2>1, <2>2, <2>3 DEF SlotsOfLink
    <2>5. net[<<l, x[1], a, x[3]>>] = 0
        BY <1>1, <2>4
    <2> QED
        BY <2>2, <2>5
<1> QED
    BY <1>2, <1>3 DEF Clear

\* Adding the cost of one more link to the fraction of the links before it.
AddLink(v, cost, length) ==
    <<v[1] * cost[2] * SpanLength + v[2] * cost[1] * length, v[2] * cost[2] * SpanLength>>

\* It stays a fraction, and zero only when both are.
LEMMA AddLinkIs ==
    ASSUME NEW v, v[1] \in Nat, v[2] \in Nat \ {0}, NEW cost, cost[1] \in Nat, cost[2] \in Nat \ {0},
           NEW length \in Nat \ {0}
    PROVE  /\ AddLink(v, cost, length)[1] \in Nat
           /\ AddLink(v, cost, length)[2] \in Nat \ {0}
           /\ AddLink(v, cost, length)[1] = 0 <=> v[1] = 0 /\ cost[1] = 0
<1>1. \A x, y \in Nat : x * y \in Nat /\ (x * y = 0 <=> x = 0 \/ y = 0)
    OBVIOUS
<1>2. SpanLength \in Nat \ {0}
    BY MeasurementsAssumption DEF MeasurementsAssumption
<1>3. PICK a \in Nat, d \in Nat : a = v[1] * cost[2] /\ d = v[2] * cost[1]
    BY <1>1
<1>4. PICK a2 \in Nat, d2 \in Nat : a2 = a * SpanLength /\ d2 = d * length
    BY <1>1, <1>2
<1>5. (a2 = 0 <=> v[1] = 0) /\ (d2 = 0 <=> cost[1] = 0)
    <2>1. (a2 = 0 <=> a = 0) /\ (d2 = 0 <=> d = 0)
        BY <1>1, <1>2, <1>4
    <2>2. (a = 0 <=> v[1] = 0) /\ (d = 0 <=> cost[1] = 0)
        BY <1>1, <1>3
    <2> QED
        BY ONLY <2>1, <2>2
<1>6. PICK e \in Nat : e = v[2] * cost[2] /\ e # 0
    BY <1>1
<1>7. e * SpanLength \in Nat \ {0}
    BY <1>1, <1>2, <1>6
<1>8. AddLink(v, cost, length) = <<a2 + d2, e * SpanLength>>
    BY <1>3, <1>4, <1>6 DEF AddLink
<1>9. AddLink(v, cost, length)[1] = a2 + d2 /\ AddLink(v, cost, length)[2] = e * SpanLength
    BY <1>8
<1>10. a2 + d2 \in Nat /\ (a2 + d2 = 0 <=> a2 = 0 /\ d2 = 0)
    OBVIOUS
<1>11. AddLink(v, cost, length)[1] = 0 <=> v[1] = 0 /\ cost[1] = 0
    <2>1. AddLink(v, cost, length)[1] = 0 <=> a2 = 0 /\ d2 = 0
        BY ONLY <1>9, <1>10
    <2> QED
        BY ONLY <2>1, <1>5
<1>12. AddLink(v, cost, length)[1] \in Nat
    BY ONLY <1>9, <1>10
<1>13. AddLink(v, cost, length)[2] \in Nat \ {0}
    BY ONLY <1>9, <1>7
<1> QED
    BY ONLY <1>11, <1>12, <1>13

\* The recursion of XtCost, up to the first n nodes of a path.
CostAfter(path, v, i) ==
    AddLink(v, FindXtLinkCost(net, {path[i - 1], path[i]}), LinkLength[{path[i - 1], path[i]}])

IsCost(g, path, n) ==
    g = [i \in 1..n |-> IF i = 1 THEN <<0, 1>> ELSE CostAfter(path, g[i - 1], i)]

\* It has a solution: induction over the nodes.
LEMMA CostExists ==
    ASSUME NEW path, NEW n \in Nat \ {0}
    PROVE  \E g : IsCost(g, path, n)
<1> DEFINE Bad == {k \in Nat \ {0} : ~\E g : IsCost(g, path, k)}
<1>1. SUFFICES ASSUME Bad # {} PROVE FALSE
    OBVIOUS
<1>2. PICK k \in Bad : \A m \in Bad : k <= m
    <2>1. Bad \subseteq Nat
        OBVIOUS
    <2> HIDE DEF Bad
    <2> QED
        BY <1>1, <2>1, LeastNatural
<1>3. k \in Nat \ {0} /\ ~\E g : IsCost(g, path, k)
    OBVIOUS
<1>4. CASE k = 1
    <2> DEFINE g == [i \in 1..1 |-> <<0, 1>>]
    <2>1. g = [i \in 1..1 |-> IF i = 1 THEN <<0, 1>> ELSE CostAfter(path, g[i - 1], i)]
        OBVIOUS
    <2> HIDE DEF g
    <2>2. IsCost(g, path, 1)
        BY <2>1 DEF IsCost
    <2> QED
        BY <1>3, <1>4, <2>2
<1>5. CASE k # 1
    <2>1. k - 1 \in Nat \ {0} /\ k - 1 \notin Bad
        BY <1>2, <1>3, <1>5
    <2>2. PICK g : IsCost(g, path, k - 1)
        BY <2>1
    <2> DEFINE h == [i \in 1..k |-> IF i = 1 THEN <<0, 1>> ELSE CostAfter(path, g[i - 1], i)]
    <2>3. g = [i \in 1..(k - 1) |-> IF i = 1 THEN <<0, 1>> ELSE CostAfter(path, g[i - 1], i)]
        BY <2>2 DEF IsCost
    <2>4. \A i \in 1..k : i # 1 => h[i - 1] = g[i - 1]
        <3> SUFFICES ASSUME NEW i \in 1..k, i # 1
                     PROVE  h[i - 1] = g[i - 1]
            OBVIOUS
        <3>1. PICK j \in 1..(k - 1) : j = i - 1
            BY <1>3
        <3>2. h[j] = IF j = 1 THEN <<0, 1>> ELSE CostAfter(path, g[j - 1], j)
            BY <1>3, <3>1
        <3>3. g[j] = IF j = 1 THEN <<0, 1>> ELSE CostAfter(path, g[j - 1], j)
            BY <2>3
        <3> QED
            BY <3>1, <3>2, <3>3
    <2>5. h = [i \in 1..k |-> IF i = 1 THEN <<0, 1>> ELSE CostAfter(path, h[i - 1], i)]
        <3>1. \A i \in 1..k : (IF i = 1 THEN <<0, 1>> ELSE CostAfter(path, g[i - 1], i)) =
                              (IF i = 1 THEN <<0, 1>> ELSE CostAfter(path, h[i - 1], i))
            BY <2>4
        <3> QED
            BY <3>1
    <2> HIDE DEF h
    <2>6. IsCost(h, path, k)
        BY <2>5 DEF IsCost
    <2> QED
        BY <1>3, <2>6
<1> QED
    BY <1>4, <1>5

\* A path costs nothing exactly when its links are clear.
LEMMA XtCostIs ==
    ASSUME \A l \in Link : LinkLength[l] > 0, NEW path, IsPath(path)
    PROVE  LET cost == XtCost(net, path)
           IN  /\ cost[1] \in Nat /\ cost[2] \in Nat \ {0}
               /\ cost[1] = 0 <=> \A l \in LinksOf(path) : Clear(l)
<1>1. PICK n \in Nat \ {0} : n = Len(path) /\ n >= 2
    BY DEF IsPath
<1>2. PICK g : g = (CHOOSE h : IsCost(h, path, n)) /\ IsCost(g, path, n)
    BY CostExists
<1>3. XtCost(net, path) = g[n]
    BY <1>1, <1>2 DEF XtCost, IsCost, CostAfter, AddLink
<1>4. /\ g[1] = <<0, 1>>
      /\ \A i \in 2..n : g[i] = CostAfter(path, g[i - 1], i)
    <2>1. g = [i \in 1..n |-> IF i = 1 THEN <<0, 1>> ELSE CostAfter(path, g[i - 1], i)]
        BY <1>2 DEF IsCost
    <2>2. \A i \in 1..n : g[i] = IF i = 1 THEN <<0, 1>> ELSE CostAfter(path, g[i - 1], i)
        BY <2>1
    <2>3. 1 \in 1..n /\ \A i \in 2..n : i \in 1..n /\ i # 1
        BY <1>1
    <2> QED
        BY <2>2, <2>3
<1> DEFINE Idle(i) == \A j \in 2..i : Clear({path[j - 1], path[j]})
           Good(i) == g[i][1] \in Nat /\ g[i][2] \in Nat \ {0} /\ (g[i][1] = 0 <=> Idle(i))
           Bad == {i \in 1..n : ~Good(i)}
<1>5. ASSUME NEW i \in 2..n
      PROVE  {path[i - 1], path[i]} \in LinksOf(path) /\ {path[i - 1], path[i]} \in Link
    <2>1. PICK j \in 1..(n - 1) : j = i - 1 /\ j + 1 = i
        OBVIOUS
    <2>2. {path[j], path[j + 1]} \in LinksOf(path)
        BY <1>1, <2>1 DEF LinksOf
    <2> QED
        BY <2>1, <2>2 DEF IsPath
<1>6. Good(1)
    BY <1>4
<1>7. ASSUME NEW i \in 2..n, Good(i - 1)
      PROVE  Good(i)
    <2>1. PICK l \in Link : l = {path[i - 1], path[i]}
        BY <1>5
    <2>2. PICK cost : /\ cost = FindXtLinkCost(net, l)
                      /\ cost[1] \in Nat /\ cost[2] \in Nat \ {0} /\ (cost[1] = 0 <=> Clear(l))
        BY LinkCostIs
    <2>3. PICK length \in Nat \ {0} : length = LinkLength[l]
        BY RoutingAssumption DEF RoutingAssumption
    <2>4. PICK v : v = g[i - 1] /\ v[1] \in Nat /\ v[2] \in Nat \ {0}
        BY <1>7
    <2>5. /\ g[i][1] \in Nat /\ g[i][2] \in Nat \ {0}
          /\ g[i][1] = 0 <=> g[i - 1][1] = 0 /\ Clear(l)
        <3>1. g[i] = AddLink(v, cost, length)
            BY <1>4, <2>1, <2>2, <2>3, <2>4 DEF CostAfter
        <3>2. v[1] \in Nat /\ v[2] \in Nat \ {0} /\ cost[1] \in Nat /\ cost[2] \in Nat \ {0}
            BY <2>2, <2>4
        <3>3. /\ AddLink(v, cost, length)[1] \in Nat
              /\ AddLink(v, cost, length)[2] \in Nat \ {0}
              /\ AddLink(v, cost, length)[1] = 0 <=> v[1] = 0 /\ cost[1] = 0
            BY ONLY <3>2, length \in Nat \ {0}, AddLinkIs, Zenon
        <3> QED
            BY <2>2, <2>4, <3>1, <3>3
    <2>6. Idle(i) <=> Idle(i - 1) /\ Clear(l)
        <3>1. \A j : j \in 2..i <=> j \in 2..(i - 1) \/ j = i
            OBVIOUS
        <3> QED
            BY <2>1, <3>1
    <2> HIDE DEF Idle
    <2> QED
        BY <1>7, <2>5, <2>6
<1>8. Bad = {}
    <2> SUFFICES ASSUME Bad # {} PROVE FALSE
        OBVIOUS
    <2>1. Bad \subseteq Nat /\ Bad \subseteq 1..n /\ \A i \in 1..n : i \notin Bad <=> Good(i)
        OBVIOUS
    <2> HIDE DEF Bad, Good
    <2>2. PICK k \in Bad : \A m \in Bad : k <= m
        BY <2>1, LeastNatural
    <2>3. k # 1
        BY <1>1, <1>6, <2>1
    <2>4. k \in 2..n /\ k - 1 \in 1..n /\ k - 1 \notin Bad
        BY <2>1, <2>2, <2>3
    <2> QED
        BY <1>7, <2>1, <2>4
<1>9. Good(n)
    <2>1. n \in 1..n /\ n \notin Bad
        <3> HIDE DEF Bad
        <3>1. n \in 1..n
            BY <1>1
        <3> QED
            BY <1>8, <3>1
    <2> HIDE DEF Good
    <2> QED
        BY <2>1
<1>10. Idle(n) <=> \A l \in LinksOf(path) : Clear(l)
    <2>1. ASSUME Idle(n), NEW l \in LinksOf(path)
          PROVE  Clear(l)
        <3>1. PICK i \in 1..(n - 1) : l = {path[i], path[i + 1]}
            BY <1>1 DEF LinksOf
        <3>2. PICK j \in 2..n : j = i + 1 /\ j - 1 = i
            OBVIOUS
        <3> QED
            BY <2>1, <3>1, <3>2
    <2> QED
        BY <1>5, <2>1
<1> QED
    BY <1>3, <1>9, <1>10

\* find_least_weight keeps away from lightpaths where there is a way around them.
LEMMA KeepsAway ==
    ASSUME ExactInv, \A l \in Link : LinkLength[l] > 0
    PROVE  XtRouteKeepsAway
<1> DEFINE clear(p) == \A l \in LinksOf(p) : Clear(l)
           away(l) == /\ \A x \in FreeOfLink(net, l) : HeldBeside(l, x[1], x[2], x[3]) = {}
                      /\ HeldOn(l) = {} \/ Cardinality(HeldOn(l)) >= CoresPerLink
<1> SUFFICES ASSUME NEW pq \in Pairs, NEW p \in PathsBetween(pq), \A l \in LinksOf(p) : HeldOn(l) = {}
             PROVE  \A l \in LinksOf(FindLeastXt(net, pq)) : away(l)
    BY DEF XtRouteKeepsAway
<1> DEFINE P == PathsBetween(pq)
           cost(q) == XtCost(net, q)
           costs == {<<q, cost(q)>> : q \in P}
           least == {x \in costs : \A y \in costs : ~Cheaper(y[2], x[2])}
           found == CHOOSE x \in costs : least # {} => x \in least
<1>1. FindLeastXt(net, pq) \in P /\ FindLeastXt(net, pq) = found[1]
    BY LeastXtIs DEF FindLeastXt
<1>2. LinksOf(FindLeastXt(net, pq)) \subseteq Link /\ LinksOf(p) \subseteq Link
    BY <1>1, PathsBetweenAre DEF IsPath
<1>3. ASSUME SlotsOfLink = {}, NEW l \in LinksOf(FindLeastXt(net, pq))
      PROVE  away(l)
    <2>1. l \in Link
        BY <1>3, <1>2
    <2>2. FreeOfLink(net, l) = {}
        BY <1>3, <2>1, FreeOfLinkAre
    <2>3. ASSUME NEW r \in HeldOn(l) PROVE FALSE
        <3>1. PICK b \in Band, c \in Core : \E t \in Slot(b) : TRUE
            BY <2>1, StartOnLink
        <3>3. PICK t \in Slot(b) : TRUE
            BY <3>1
        <3>2. <<b, c, t>> \in SlotsOfLink
            BY DEF SlotsOfLink
        <3> QED
            BY <1>3, <3>2
    <2> QED
        BY <2>2, <2>3
<1>4. ASSUME NEW l \in LinksOf(FindLeastXt(net, pq)), Clear(l)
       PROVE  away(l)
    <2>1. l \in Link
        BY <1>2
    <2>2. ASSUME NEW x \in FreeOfLink(net, l)
          PROVE  HeldBeside(l, x[1], x[2], x[3]) = {}
        <3>1. x[1] \in Band /\ x[2] \in Core /\ x[3] \in Slot(x[1])
            BY <2>1, FreeOfLinkAre, SlotIsCell
        <3>2. Overlapping(net, l, x[1], x[2], x[3]) = {}
            BY <1>4 DEF Clear
        <3> QED
            BY <2>1, <3>1, <3>2, BesideIsCounted
    <2>3. HeldOn(l) # {} => Cardinality(HeldOn(l)) >= CoresPerLink
        BY <1>4, <2>1, ClearCarriesSeven
    <2> QED
        BY <2>2, <2>3
<1>5. SUFFICES ASSUME SlotsOfLink # {} PROVE clear(FindLeastXt(net, pq))
    <2> HIDE DEF away
    <2> QED
        BY <1>3, <1>4
<1>6. clear(p)
    BY <1>2, <1>5, IdleIsClear
<1>7. \A q \in P : cost(q)[1] \in Nat /\ cost(q)[2] \in Nat \ {0} /\ (cost(q)[1] = 0 <=> clear(q))
    BY XtCostIs, PathsBetweenAre
<1>8. ASSUME NEW q \in P
      PROVE  /\ ~Cheaper(cost(q), cost(p))
             /\ ~Cheaper(cost(p), cost(q)) => clear(q)
    <2>1. PICK a \in Nat, d \in Nat \ {0}, e \in Nat \ {0} :
              a = cost(q)[1] /\ d = cost(q)[2] /\ e = cost(p)[2] /\ cost(p)[1] = 0 /\ (a = 0 <=> clear(q))
        BY <1>7, <1>6
    <2>2. a * e >= 0 /\ (a * e <= 0 => a = 0) /\ 0 * d = 0 /\ 0 * e = 0
        OBVIOUS
    <2>3. Cheaper(cost(q), cost(p)) <=> a * e < 0 * d
        BY <2>1 DEF Cheaper
    <2>4. Cheaper(cost(p), cost(q)) <=> 0 * d < a * e
        BY <2>1 DEF Cheaper
    <2> HIDE DEF cost, clear
    <2> QED
        BY <2>1, <2>2, <2>3, <2>4
<1> HIDE DEF cost, clear, P
<1>9. <<p, cost(p)>> \in least
    <2>1. <<p, cost(p)>> \in costs
        BY DEF P
    <2>2. ASSUME NEW y \in costs
          PROVE  ~Cheaper(y[2], cost(p))
        <3>1. PICK q \in P : y = <<q, cost(q)>>
            OBVIOUS
        <3> QED
            BY <1>8, <3>1
    <2> QED
        BY <2>1, <2>2
<1>10. found \in least
    <2>1. \E x \in costs : least # {} => x \in least
        BY <1>9
    <2> HIDE DEF costs, least
    <2> QED
        BY <1>9, <2>1
<1>11. PICK q \in P : found = <<q, cost(q)>> /\ \A y \in costs : ~Cheaper(y[2], cost(q))
    <2> HIDE DEF found
    <2> QED
        BY <1>10
<1>12. ~Cheaper(cost(p), cost(q))
    BY <1>9, <1>11
<1> HIDE DEF found
<1> QED
    BY <1>1, <1>8, <1>11, <1>12

-----------------------------------------------------------------------------
\* Whatever lightpaths came and went, of two that run side by side each counts the other
\* (check_adjacent_cores).
THEOREM MeasuredMissesNobody ==
    ASSUME SearchFits
    PROVE  MeasuredSpec => []CrossTalkMissesNobody
<1>1. MeasuredInv => CrossTalkMissesNobody
    BY NobodyIsMissed
<1> QED
    BY <1>1, MeasuredInvAlways, PTL

\* find_least_cong takes the candidate whose fullest link carries least, for every topology,
\* number of requests and bands.
THEOREM MeasuredCarriesLeast ==
    ASSUME SearchFits
    PROVE  MeasuredSpec => []LeastCongestedCarriesLeast
<1>1. MeasuredInv => LeastCongestedCarriesLeast
    BY LeastCongestedIs DEF MeasuredInv
<1> QED
    BY <1>1, MeasuredInvAlways, PTL

\* Where some path carries nothing, find_least_weight takes one on which no free slot is
\* beside a lightpath, whatever the load: each of its links carries nothing or, out of the
\* cost's sight, a lightpath on every core.
THEOREM MeasuredKeepsAway ==
    ASSUME SearchFits, \A l \in Link : LinkLength[l] > 0
    PROVE  MeasuredSpec => []XtRouteKeepsAway
<1>1. MeasuredInv => XtRouteKeepsAway
    BY KeepsAway DEF MeasuredInv
<1> QED
    BY <1>1, MeasuredInvAlways, PTL

\* In the c band, whose channels _calculate_xci reads, the noise of a window that is found
\* is a finite number.
THEOREM MeasuredXciIsFinite ==
    ASSUME SearchFits, Band = {"c"}
    PROVE  MeasuredSpec => []XciIsFinite
<1>1. MeasuredInv => XciIsFinite
    BY NoiseIsFinite DEF MeasuredInv
<1> QED
    BY <1>1, MeasuredInvAlways, PTL

\* Lightpaths routed by the state of the spectrum come and go as those of SpectrumChurn:
\* what is proved of every churn of lightpaths is so of the ones routing brings about.
THEOREM MeasuredImplementsChurn ==
    ASSUME SearchFits
    PROVE  MeasuredSpec => Spec
<1>1. MeasuredInit => Init
    BY DEF MeasuredInit
<1>2. MeasuredInv /\ [MeasuredNext]_measuredVars => [Next]_vars
    <2> SUFFICES ASSUME MeasuredInv, [MeasuredNext]_measuredVars
                 PROVE  [Next]_vars
        OBVIOUS
    <2>1. ASSUME NEW pq \in Pairs, NEW bw \in Bandwidth, Arrive(pq, bw)
          PROVE  Next
        BY <2>1, ArriveProvisions DEF Next, MeasuredInv
    <2>2. ASSUME NEW r \in ReqId, Depart(r)
          PROVE  Next
        BY <2>2 DEF Depart, Next
    <2>3. CASE UNCHANGED measuredVars
        BY <2>3 DEF measuredVars, vars
    <2> QED
        BY <2>1, <2>2, <2>3 DEF MeasuredNext
<1> QED
    BY <1>1, <1>2, MeasuredInvAlways, PTL DEF MeasuredSpec, Spec
=============================================================================
