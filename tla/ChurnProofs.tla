----------------------------- MODULE ChurnProofs ------------------------------
(***************************************************************************)
(* Theorems about lightpaths that come and go.                              *)
(***************************************************************************)
EXTENDS SpectrumChurn, SpectrumProofs

\* A demand sets the props of a search.
LEMMA DemandProps ==
    ASSUME ChurnAssumption, NEW d \in Demands
    PROVE  /\ PropsOk(Props(d))
           /\ Props(d).path_list = d[1] /\ Props(d).slots_needed = d[2]
           /\ d[1] \in Paths /\ IsPath(d[1]) /\ d[2] \in SlotsNeeded /\ d[2] \in Nat \ {0}
           /\ \A c, s : Permitted(Props(d), c, s) <=> Allowed(d, c, s)
<1>1. d[1] \in Paths /\ d[2] \in SlotsNeeded /\ d[3] \in Forced
    BY DEF Demands
<1>2. IsPath(d[1]) /\ d[2] \in Nat \ {0}
    BY <1>1 DEF ChurnAssumption
<1>3. d[3][1] \in Core \union {None} /\ d[3][2] \in Nat \union {None}
    BY <1>1 DEF ChurnAssumption
<1> QED
    BY <1>1, <1>2, <1>3 DEF PropsOk, Props, Permitted, Allowed

-----------------------------------------------------------------------------
\* check_super_channels, check_other_links and allocate agree on every spectrum, for
\* the methods whose windows fit.
LEMMA FoundIsWritten ==
    ASSUME SearchFits
    PROVE  SearchAgreesWithAllocate
<1> SUFFICES ASSUME NEW d \in Demands, IsFree(net, Props(d))
             PROVE  CanAllocate(net, d[1], Assigned(net, Props(d)))
    BY DEF SearchAgreesWithAllocate
<1>1. /\ PropsOk(Props(d)) /\ Props(d).path_list = d[1] /\ Props(d).slots_needed = d[2]
      /\ d[2] \in Nat \ {0}
    BY DemandProps, ChurnAssumption
<1>2. Fits(net, d[1], d[2], Assigned(net, Props(d)))
    BY <1>1, AssignedFits, SpectrumAssumption, SearchAssumption
<1> QED
    BY <1>1, <1>2, FitsIsWritten, SpectrumAssumption DEF SearchFits

\* The window a search finds for a demand fits, where the demand forces it.
LEMMA FoundIsAllowed ==
    ASSUME SearchFits, NEW d \in Demands, IsFree(net, Props(d))
    PROVE  LET w == Assigned(net, Props(d))
           IN  /\ Fits(net, d[1], d[2], w)
               /\ AllocationMethod # "last_fit" \/ d[3][2] = None =>
                      Allowed(d, w.core_num, w.start_slot)
<1>1. /\ PropsOk(Props(d)) /\ Props(d).path_list = d[1] /\ Props(d).slots_needed = d[2]
      /\ \A c, s : Permitted(Props(d), c, s) <=> Allowed(d, c, s)
    BY DemandProps, ChurnAssumption
<1>2. Props(d).forced_index = d[3][2]
    BY DEF Props
<1> QED
    BY <1>1, <1>2, AssignedFits, SpectrumAssumption, SearchAssumption

\* What a caller forces is obeyed on every spectrum, except by last fit.
LEMMA ForcedAnywhere ==
    ASSUME SearchFits, AllocationMethod # "last_fit"
    PROVE  ForcedIsObeyed
BY FoundIsAllowed DEF ForcedIsObeyed

\* A search finds a window exactly when one is open, on every spectrum.
LEMMA NoFalseBlockingAnywhere ==
    ASSUME SearchFits, SearchIsComplete
    PROVE  NoFalseBlocking
<1> SUFFICES ASSUME NEW d \in Demands
             PROVE  IsFree(net, Props(d)) <=>
                       \E c \in Core, b \in Band : \E s \in Slot(b) :
                          Allowed(d, c, s) /\ Open(net, d[1], d[2], c, b, s)
    BY DEF NoFalseBlocking
<1>1. ASSUME IsFree(net, Props(d))
      PROVE  \E c \in Core, b \in Band : \E s \in Slot(b) :
                Allowed(d, c, s) /\ Open(net, d[1], d[2], c, b, s)
    <2> PICK w : w = Assigned(net, Props(d))
        OBVIOUS
    <2>1. Fits(net, d[1], d[2], w) /\ Allowed(d, w.core_num, w.start_slot)
        BY <1>1, FoundIsAllowed DEF SearchIsComplete
    <2> QED
        BY <2>1 DEF Fits
<1>2. ASSUME NEW c \in Core, NEW b \in Band, NEW s \in Slot(b),
             Allowed(d, c, s), Open(net, d[1], d[2], c, b, s)
      PROVE  IsFree(net, Props(d))
    <2>1. /\ PropsOk(Props(d)) /\ Props(d).path_list = d[1] /\ Props(d).slots_needed = d[2]
          /\ \A x, y : Permitted(Props(d), x, y) <=> Allowed(d, x, y)
        BY DemandProps, ChurnAssumption
    <2>2. Permitted(Props(d), c, s) /\ Open(net, Props(d).path_list, Props(d).slots_needed, c, b, s)
        BY <1>2, <2>1
    <2> QED
        BY <2>1, <2>2, OpenIsNotMissed, SpectrumAssumption, SearchAssumption
<1> QED
    BY <1>1, <1>2

-----------------------------------------------------------------------------
\* First fit goes through the cores in ascending order.
LEMMA CoresInOrder ==
    ASSUME SpectrumAssumption, AllocationMethod = "first_fit", NEW props,
           NEW i \in DOMAIN CoreList(props), NEW j \in DOMAIN CoreList(props)
    PROVE  \/ i = j
           \/ /\ i \in Int /\ j \in Int /\ CoreList(props)[i] = i - 1 /\ CoreList(props)[j] = j - 1
<1>1. CASE props.forced_core # None
    <2>1. CoreList(props) = <<props.forced_core>>
        BY <1>1 DEF CoreList
    <2>2. DOMAIN CoreList(props) = 1..1
        BY <2>1
    <2>3. i = 1 /\ j = 1
        BY <2>2
    <2> QED
        BY <2>3
<1>2. CASE props.forced_core = None
    <2>1. CoreList(props) = [k \in 1..CoresPerLink |-> k - 1]
        BY <1>2 DEF CoreList
    <2> QED
        BY <2>1 DEF SpectrumAssumption
<1> QED
    BY <1>1, <1>2

\* The order of ranks of three numbers, written out.
LEMMA PrecedesThree ==
    ASSUME NEW a1, NEW a2, NEW a3, NEW b1, NEW b2, NEW b3,
           Precedes(<<a1, a2, a3>>, <<b1, b2, b3>>)
    PROVE  LexLess(a1, a2, a3, b1, b2, b3)
<1> DEFINE p == <<a1, a2, a3>>
           q == <<b1, b2, b3>>
<1>1. PICK m \in 1..3 : p[m] < q[m] /\ \A k \in 1..(m - 1) : p[k] = q[k]
    BY DEF Precedes
<1>2. m = 1 \/ m = 2 \/ m = 3
    OBVIOUS
<1>3. /\ m = 2 => p[1] = q[1]
      /\ m = 3 => p[1] = q[1] /\ p[2] = q[2]
    BY <1>1
<1> QED
    BY <1>1, <1>2, <1>3 DEF LexLess

\* Numbering the cores from 0 or by their place in the list gives the same order.
LEMMA LexShift ==
    ASSUME NEW i2, NEW i, NEW c \in Int, NEW e, NEW j2, NEW j, NEW s, NEW t,
           (i2 = i /\ c = e) \/ (i2 \in Int /\ i \in Int /\ c = i2 - 1 /\ e = i - 1)
    PROVE  /\ LexLess(c, j2, s, e, j, t) => LexLess(i2, j2, s, i, j, t)
           /\ LexLess(j2, c, s, j, e, t) => LexLess(j2, i2, s, j, i, t)
<1>1. (c < e => i2 < i) /\ (c = e => i2 = i)
    OBVIOUS
<1> QED
    BY <1>1 DEF LexLess

\* A band is found at its place in the list, which it has only once.
LEMMA BandPlaceIs ==
    ASSUME SearchAssumption, NEW j \in DOMAIN BandList
    PROVE  BandPlace(BandList[j]) = j
<1>1. DOMAIN BandList = 1..Len(BandList)
    BY DEF SearchAssumption
<1>2. \A k \in DOMAIN BandList : BandList[k] = BandList[j] => k = j
    BY <1>1 DEF SearchAssumption
<1> QED
    BY <1>2 DEF BandPlace

\* Every band has a place in the list.
LEMMA BandIsListed ==
    ASSUME SearchAssumption, NEW b \in Band
    PROVE  \E j \in DOMAIN BandList : BandList[j] = b
<1>1. DOMAIN BandList = 1..Len(BandList)
    BY DEF SearchAssumption
<1>2. \E j \in 1..Len(BandList) : BandList[j] = b
    BY Zenon DEF SearchAssumption
<1> QED
    BY <1>1, <1>2, Zenon

\* First fit takes the first open window, on every spectrum.
LEMMA FirstOpenAnywhere ==
    ASSUME SearchFits, AllocationMethod = "first_fit"
    PROVE  TakesFirstOpen
<1> SUFFICES ASSUME NEW d \in Demands, NEW c \in Core, NEW b \in Band, NEW s \in Slot(b),
                    Allowed(d, c, s), Open(net, d[1], d[2], c, b, s)
             PROVE  LET w == Assigned(net, Props(d))
                    IN  ~Earlier(d, c, b, s, w.core_num, w.curr_band, w.start_slot)
    BY DEF TakesFirstOpen
<1>1. PICK props : props = Props(d)
    OBVIOUS
<1>2. /\ PropsOk(props) /\ props.path_list = d[1] /\ props.slots_needed = d[2]
      /\ Permitted(props, c, s) /\ props.forced_index = d[3][2]
    BY <1>1, DemandProps, ChurnAssumption DEF Props
<1>3. PICK flag : flag = IF d[3][2] # None THEN "forced_index" ELSE "first_fit"
    OBVIOUS
<1>4. /\ Passing(net, props) = FirstLast(net, props, flag)
      /\ ~Descending(flag)
      /\ flag = "forced_index" => s = props.forced_index
      /\ BandsFirst(flag) <=> SpectrumPriority = "BSC" /\ d[3][2] = None
    BY <1>2, <1>3 DEF Passing, Descending, BandsFirst, Permitted
<1>0. CoresAreNamed
    BY DEF CoresAreNamed
<1>5. PICK i2 \in DOMAIN CoreList(props) : CoreList(props)[i2] = c
    <2>1. Permitted(props, c, s)
        BY <1>2
    <2>2. IsSearched(props, c)
        BY <1>0, <2>1, CoreIsSearched, SpectrumAssumption, SearchAssumption
    <2> QED
        BY <2>2 DEF IsSearched
<1>6. PICK j2 \in DOMAIN BandList : BandList[j2] = b
    BY BandIsListed, SearchAssumption
<1>7. s \in Nat /\ GuardSlots <= 1
    BY DEF Slot, SearchFits
<1>8. Open(net, props.path_list, props.slots_needed, CoreList(props)[i2], BandList[j2], s)
    BY <1>2, <1>5, <1>6
<1>9. PICK i, j, r, t :
          /\ FoundAt(net, props, flag, i, j, r, t)
          /\ First(FirstLast(net, props, flag)) = Entry(props, flag, i, j, r, t)
          /\ ~Sooner(flag, i2, j2, s, i, j, t)
    BY <1>2, <1>4, <1>7, <1>8, FirstComesFirst, SpectrumAssumption, SearchAssumption
<1>10. i \in DOMAIN CoreList(props) /\ j \in DOMAIN BandList
    BY <1>9 DEF FoundAt
<1> PICK w : w = Assigned(net, props)
    OBVIOUS
<1>11. w.core_num = CoreList(props)[i] /\ w.curr_band = BandList[j] /\ w.start_slot = t
    <2>1. w = Entry(props, flag, i, j, r, t).window
        BY <1>4, <1>9 DEF Assigned
    <2> QED
        BY <2>1 DEF Entry, Window
<1>12. BandPlace(b) = j2 /\ BandPlace(w.curr_band) = j
    BY <1>6, <1>10, <1>11, BandPlaceIs, SearchAssumption
<1>13. \/ i2 = i /\ c = w.core_num
       \/ i2 \in Int /\ i \in Int /\ c = i2 - 1 /\ w.core_num = i - 1
    BY <1>5, <1>10, <1>11, CoresInOrder, SpectrumAssumption
<1>14. c \in Int
    BY DEF Core
<1>15. ~Earlier(d, c, b, s, w.core_num, w.curr_band, w.start_slot)
    <2>1. CASE BandsFirst(flag)
        <3>1. ~LexLess(j2, i2, s, j, i, t)
            BY <1>9, <2>1 DEF Sooner
        <3>2. ~LexLess(j2, c, s, j, w.core_num, t)
            BY <1>13, <1>14, <3>1, LexShift
        <3>3. ~Precedes(<<j2, c, s>>, <<j, w.core_num, t>>)
            BY <3>2, PrecedesThree
        <3>4. SpectrumPriority = "BSC" /\ d[3][2] = None
            BY <1>4, <2>1
        <3> QED
            BY <1>11, <1>12, <3>3, <3>4 DEF Earlier
    <2>2. CASE ~BandsFirst(flag)
        <3>1. ~LexLess(i2, j2, s, i, j, t)
            BY <1>9, <2>2 DEF Sooner
        <3>2. ~LexLess(c, j2, s, w.core_num, j, t)
            BY <1>13, <1>14, <3>1, LexShift
        <3>3. ~Precedes(<<c, j2, s>>, <<w.core_num, j, t>>)
            BY <3>2, PrecedesThree
        <3>4. ~(SpectrumPriority = "BSC" /\ d[3][2] = None)
            BY <1>4, <2>2
        <3> QED
            BY <1>11, <1>12, <3>3, <3>4 DEF Earlier
    <2> QED
        BY <2>1, <2>2
<1> QED
    BY <1>1, <1>15

-----------------------------------------------------------------------------
(* The spectrum and the lightpaths held, together. *)

HeldRecord == [path : Paths, slots : SlotsNeeded, window : WindowType]

\* The spectrum holds integers, a request holds a lightpath or none, and an occupied
\* cell is data or guard of a request held over its link.
LeakInv ==
    /\ net \in [Cell -> Int]
    /\ held \in [ReqId -> HeldRecord \union {None}]
    /\ \A x \in Cell : net[x] # 0 =>
          \E r \in ReqId : held[r] # None /\ net[x] \in {r, -r} /\ x[1] \in LinksOf(held[r].path)

\* It holds of the empty network.
LEMMA LeakInvInit == Init => LeakInv
<1> SUFFICES ASSUME Init
             PROVE  LeakInv
    OBVIOUS
<1>1. net = [x \in Cell |-> 0] /\ held = [r \in ReqId |-> None]
    BY DEF Init, EmptyNet
<1> QED
    BY <1>1 DEF LeakInv

\* What one provisioning does.
LEMMA ProvisionDoes ==
    ASSUME LeakInv, NEW r \in ReqId, NEW d \in Demands, Provision(r, d)
    PROVE  LET w == Assigned(net, Props(d))
           IN  /\ held[r] = None /\ IsFree(net, Props(d)) /\ CanAllocate(net, d[1], w)
               /\ net' = Allocate(net, r, d[1], w)
               /\ held' = [held EXCEPT ![r] = [path |-> d[1], slots |-> d[2], window |-> w]]
               /\ [path |-> d[1], slots |-> d[2], window |-> w] \in HeldRecord
               /\ [path |-> d[1], slots |-> d[2], window |-> w] # None
<1> PICK w : w = Assigned(net, Props(d))
    OBVIOUS
<1>1. /\ PropsOk(Props(d)) /\ d[1] \in Paths /\ d[2] \in SlotsNeeded
      /\ Props(d).slots_needed = d[2] /\ d[2] \in Nat
    BY DemandProps, ChurnAssumption
<1>2. IsFree(net, Props(d))
    BY DEF Provision
<1>3. w \in WindowType
    BY <1>1, <1>2, AssignedType, SpectrumAssumption, SearchAssumption DEF PropsOk
<1>4. [path |-> d[1], slots |-> d[2], window |-> w] \in HeldRecord
    BY <1>1, <1>3 DEF HeldRecord
<1>5. [path |-> d[1], slots |-> d[2], window |-> w] # None
    BY <1>4, ChurnAssumption DEF HeldRecord, ChurnAssumption
<1> QED
    BY <1>4, <1>5 DEF Provision

\* A provisioning occupies cells of its own request and path only.
LEMMA ProvisionKeepsLeakInv ==
    ASSUME LeakInv, NEW r \in ReqId, NEW d \in Demands, Provision(r, d)
    PROVE  LeakInv'
<1> PICK w, h : w = Assigned(net, Props(d)) /\ h = [path |-> d[1], slots |-> d[2], window |-> w]
    OBVIOUS
<1>1. /\ held[r] = None /\ CanAllocate(net, d[1], w)
      /\ net' = Allocate(net, r, d[1], w) /\ held' = [held EXCEPT ![r] = h]
      /\ h \in HeldRecord /\ h # None /\ h.path = d[1]
    BY ProvisionDoes
<1>2. net' \in [Cell -> Int]
    BY <1>1, AllocateType DEF LeakInv, ReqId
<1>3. held' \in [ReqId -> HeldRecord \union {None}]
    BY <1>1 DEF LeakInv
<1>4. ASSUME NEW x \in Cell, net'[x] # 0
      PROVE  \E q \in ReqId : held'[q] # None /\ net'[x] \in {q, -q} /\ x[1] \in LinksOf(held'[q].path)
    <2>1. CASE net'[x] = net[x]
        <3>1. PICK q \in ReqId : held[q] # None /\ net[x] \in {q, -q} /\ x[1] \in LinksOf(held[q].path)
            BY <1>4, <2>1 DEF LeakInv
        <3>2. q # r /\ held'[q] = held[q]
            BY <1>1, <3>1 DEF LeakInv
        <3> QED
            BY <2>1, <3>1, <3>2
    <2>2. CASE net'[x] # net[x]
        <3>1. x[1] \in LinksOf(d[1]) /\ net'[x] \in {r, -r}
            BY <1>1, <2>2, AllocateCell
        <3>2. held'[r] = h
            BY <1>1 DEF LeakInv
        <3> QED
            BY <1>1, <3>1, <3>2
    <2> QED
        BY <2>1, <2>2
<1> QED
    BY <1>2, <1>3, <1>4 DEF LeakInv

\* A teardown clears all its request occupied, since that lies on its path.
LEMMA TeardownKeepsLeakInv ==
    ASSUME LeakInv, NEW r \in ReqId, Teardown(r)
    PROVE  LeakInv'
<1>1. net' = Release(net, r, held[r].path) /\ held' = [held EXCEPT ![r] = None]
    BY DEF Teardown
<1>2. net' \in [Cell -> Int]
    BY <1>1, ReleaseType DEF LeakInv, ReqId
<1>3. held' \in [ReqId -> HeldRecord \union {None}]
    BY <1>1 DEF LeakInv
<1>4. ASSUME NEW x \in Cell, net'[x] # 0
      PROVE  \E q \in ReqId : held'[q] # None /\ net'[x] \in {q, -q} /\ x[1] \in LinksOf(held'[q].path)
    <2>1. net'[x] = net[x] /\ ~(x[1] \in LinksOf(held[r].path) /\ net[x] \in {r, -r})
        BY <1>1, <1>4, ReleaseCell
    <2>2. PICK q \in ReqId : held[q] # None /\ net[x] \in {q, -q} /\ x[1] \in LinksOf(held[q].path)
        BY <1>4, <2>1 DEF LeakInv
    <2>3. q # r /\ held'[q] = held[q]
        BY <1>1, <2>1, <2>2 DEF LeakInv
    <2> QED
        BY <2>1, <2>2, <2>3
<1> QED
    BY <1>2, <1>3, <1>4 DEF LeakInv

\* Every step keeps it.
LEMMA LeakInvStep == LeakInv /\ [Next]_vars => LeakInv'
<1> SUFFICES ASSUME LeakInv, [Next]_vars
             PROVE  LeakInv'
    OBVIOUS
<1>1. CASE UNCHANGED vars
    BY <1>1 DEF LeakInv, vars
<1>2. ASSUME NEW r \in ReqId, NEW d \in Demands, Provision(r, d)
      PROVE  LeakInv'
    BY <1>2, ProvisionKeepsLeakInv
<1>3. ASSUME NEW r \in ReqId, Teardown(r)
      PROVE  LeakInv'
    BY <1>3, TeardownKeepsLeakInv
<1> QED
    BY <1>1, <1>2, <1>3 DEF Next

\* It holds in every reachable state.
LEMMA LeakInvAlways == Spec => []LeakInv
    BY LeakInvInit, LeakInvStep, PTL DEF Spec

\* Nothing stays occupied: whatever the allocation method and the guard slots, every
\* occupied cell is of a request that still holds a lightpath (allocate and release).
THEOREM ChurnNothingLeaks == Spec => []NothingLeaks
<1>1. LeakInv => NothingLeaks
    BY DEF LeakInv, NothingLeaks
<1> QED
    BY <1>1, LeakInvAlways, PTL

-----------------------------------------------------------------------------
\* On every link of the path, id holds the n slots at the window's start and minus id the
\* guard slots after them, and neither holds anything else.
Holding(nt, id, path, n, w) ==
    /\ w.curr_band \in Band /\ w.core_num \in Core /\ w.start_slot \in Slot(w.curr_band)
    /\ w.start_slot + n + GuardSlots <= BandSlots[w.curr_band]
    /\ \A x \in Cell : nt[x] = id <=>
          OnChannel(x, path, w) /\ w.start_slot <= x[4] /\ x[4] < w.start_slot + n
    /\ \A x \in Cell : nt[x] = -id <=>
          OnChannel(x, path, w) /\ w.start_slot + n <= x[4] /\ x[4] < w.start_slot + n + GuardSlots

\* allocate writes what fits, whole.
LEMMA AllocatedIsHeld ==
    ASSUME SpectrumAssumption, GuardSlots <= 1, NEW nt \in [Cell -> Int],
           NEW id \in Nat \ {0}, \A x \in Cell : nt[x] # id /\ nt[x] # -id,
           NEW path, NEW n \in Nat \ {0}, NEW w, Fits(nt, path, n, w)
    PROVE  Holding(Allocate(nt, id, path, w), id, path, n, w)
<1>0. PICK b \in Band, c \in Core, s \in Int :
          b = w.curr_band /\ c = w.core_num /\ s = w.start_slot /\ s \in Slot(b)
    BY DEF Fits, Slot
<1>1. /\ s \in Nat /\ DataStop(w) = s + n /\ s + n + GuardSlots <= BandSlots[b]
      /\ BandSlots[b] \in Nat /\ GuardSlots \in 0..1
    BY <1>0, OpenIsFree DEF Fits, Slot, SpectrumAssumption
<1>2. ASSUME NEW x \in Cell, OnChannel(x, path, w)
      PROVE  /\ x[4] \in Int
             /\ x[4] \in DataSlots(w) <=> s <= x[4] /\ x[4] < s + n
             /\ x[4] \in GuardSlotsOf(w) <=> s + n <= x[4] /\ x[4] < s + n + GuardSlots
    <2>1. x[4] \in Slot(b) /\ x[4] \in Int
        BY <1>0, <1>1, <1>2, CellIsTuple DEF OnChannel, Slot
    <2>2. x[4] \in DataSlots(w) <=> s <= x[4] /\ x[4] < s + n
        BY <1>0, <1>1, <2>1 DEF DataSlots
    <2>3. x[4] \in GuardSlotsOf(w) <=> s + n <= x[4] /\ x[4] < s + n + GuardSlots
        BY <1>1, <2>1 DEF GuardSlotsOf
    <2> QED
        BY <2>1, <2>2, <2>3
<1>3. ASSUME NEW x \in Cell
      PROVE  /\ Allocate(nt, id, path, w)[x] = id <=>
                    OnChannel(x, path, w) /\ s <= x[4] /\ x[4] < s + n
             /\ Allocate(nt, id, path, w)[x] = -id <=>
                    OnChannel(x, path, w) /\ s + n <= x[4] /\ x[4] < s + n + GuardSlots
    <2>1. Allocate(nt, id, path, w)[x] =
              IF OnChannel(x, path, w) /\ x[4] \in DataSlots(w) THEN id
              ELSE IF OnChannel(x, path, w) /\ x[4] \in GuardSlotsOf(w) THEN -id
              ELSE nt[x]
        BY DEF Allocate
    <2>2. nt[x] # id /\ nt[x] # -id /\ id # -id
        OBVIOUS
    <2>3. CASE ~OnChannel(x, path, w)
        BY <2>1, <2>2, <2>3
    <2>4. CASE OnChannel(x, path, w)
        <3>1. /\ x[4] \in Int
              /\ x[4] \in DataSlots(w) <=> s <= x[4] /\ x[4] < s + n
              /\ x[4] \in GuardSlotsOf(w) <=> s + n <= x[4] /\ x[4] < s + n + GuardSlots
            BY <1>2, <2>4
        <3>2. ~(x[4] \in DataSlots(w) /\ x[4] \in GuardSlotsOf(w))
            BY <1>1, <3>1
        <3> QED
            BY <2>1, <2>2, <2>4, <3>1, <3>2
    <2> QED
        BY <2>3, <2>4
<1> QED
    BY <1>0, <1>1, <1>3 DEF Holding

\* What a request holds does not change with cells that are not its own.
LEMMA HoldingKept ==
    ASSUME NEW nt1, NEW nt2, NEW id, NEW path, NEW n, NEW w, Holding(nt1, id, path, n, w),
           \A x \in Cell : (nt2[x] = id <=> nt1[x] = id) /\ (nt2[x] = -id <=> nt1[x] = -id)
    PROVE  Holding(nt2, id, path, n, w)
BY DEF Holding

\* Every request holds its lightpath, whole, and nothing else is occupied.
ExactInv ==
    /\ LeakInv
    /\ \A r \in ReqId : held[r] # None =>
          Holding(net, r, held[r].path, held[r].slots, held[r].window)

\* A provisioning writes its lightpath whole and no other's cells.
LEMMA ProvisionKeepsExactInv ==
    ASSUME SearchFits, ExactInv, NEW r \in ReqId, NEW d \in Demands, Provision(r, d)
    PROVE  ExactInv'
<1> PICK w, h : w = Assigned(net, Props(d)) /\ h = [path |-> d[1], slots |-> d[2], window |-> w]
    OBVIOUS
<1>0. LeakInv
    BY DEF ExactInv
<1>1. /\ held[r] = None /\ CanAllocate(net, d[1], w) /\ IsFree(net, Props(d))
      /\ net' = Allocate(net, r, d[1], w) /\ held' = [held EXCEPT ![r] = h]
      /\ h.path = d[1] /\ h.slots = d[2] /\ h.window = w
    BY <1>0, ProvisionDoes
<1>2. LeakInv'
    BY <1>0, ProvisionKeepsLeakInv
<1>3. Fits(net, d[1], d[2], w) /\ d[2] \in Nat \ {0} /\ GuardSlots <= 1
    BY <1>1, FoundIsAllowed, DemandProps, ChurnAssumption DEF SearchFits
<1>4. r \in Nat \ {0}
    BY DEF ReqId
<1>5. \A x \in Cell : net[x] # r /\ net[x] # -r
    <2> SUFFICES ASSUME NEW x \in Cell, net[x] \in {r, -r}
                 PROVE  FALSE
        OBVIOUS
    <2>1. net[x] # 0
        BY <1>4
    <2>2. PICK q \in ReqId : held[q] # None /\ net[x] \in {q, -q}
        BY <1>0, <2>1 DEF LeakInv
    <2>3. q = r
        BY <2>2 DEF ReqId
    <2> QED
        BY <1>1, <2>2, <2>3
<1>6. Holding(net', r, d[1], d[2], w)
    BY <1>0, <1>1, <1>3, <1>4, <1>5, AllocatedIsHeld, SpectrumAssumption DEF LeakInv
<1>7. ASSUME NEW q \in ReqId, held'[q] # None
      PROVE  Holding(net', q, held'[q].path, held'[q].slots, held'[q].window)
    <2>1. CASE q = r
        <3>1. held'[q] = h
            BY <1>0, <1>1, <2>1 DEF LeakInv
        <3> QED
            BY <1>1, <1>6, <2>1, <3>1
    <2>2. CASE q # r
        <3>1. held'[q] = held[q]
            BY <1>0, <1>1, <2>2 DEF LeakInv
        <3>2. Holding(net, q, held[q].path, held[q].slots, held[q].window)
            BY <1>7, <3>1 DEF ExactInv
        <3>3. ASSUME NEW x \in Cell
              PROVE  (net'[x] = q <=> net[x] = q) /\ (net'[x] = -q <=> net[x] = -q)
            <4>1. net'[x] # net[x] => net[x] = 0 /\ net'[x] \in {r, -r}
                BY <1>1, AllocateCell
            <4> QED
                BY <2>2, <4>1 DEF ReqId
        <3> QED
            BY <3>1, <3>2, <3>3, HoldingKept
    <2> QED
        BY <2>1, <2>2
<1> QED
    BY <1>2, <1>7 DEF ExactInv

\* A teardown leaves the cells of the other lightpaths alone.
LEMMA TeardownKeepsExactInv ==
    ASSUME ExactInv, NEW r \in ReqId, Teardown(r)
    PROVE  ExactInv'
<1>0. LeakInv
    BY DEF ExactInv
<1>1. net' = Release(net, r, held[r].path) /\ held' = [held EXCEPT ![r] = None]
    BY DEF Teardown
<1>2. LeakInv'
    BY <1>0, TeardownKeepsLeakInv
<1>3. ASSUME NEW q \in ReqId, held'[q] # None
      PROVE  Holding(net', q, held'[q].path, held'[q].slots, held'[q].window)
    <2>1. q # r /\ held'[q] = held[q]
        BY <1>0, <1>1, <1>3 DEF LeakInv
    <2>2. Holding(net, q, held[q].path, held[q].slots, held[q].window)
        BY <1>3, <2>1 DEF ExactInv
    <2>3. ASSUME NEW x \in Cell
          PROVE  (net'[x] = q <=> net[x] = q) /\ (net'[x] = -q <=> net[x] = -q)
        <3>1. net'[x] # net[x] => net[x] \in {r, -r} /\ net'[x] = 0
            BY <1>1, ReleaseCell
        <3> QED
            BY <2>1, <3>1 DEF ReqId
    <2> QED
        BY <2>1, <2>2, <2>3, HoldingKept
<1> QED
    BY <1>2, <1>3 DEF ExactInv

\* Every reachable state has every lightpath whole, when what searches find fits.
LEMMA ExactInvAlways ==
    ASSUME SearchFits
    PROVE  Spec => []ExactInv
<1>1. Init => ExactInv
    <2> SUFFICES ASSUME Init
                 PROVE  ExactInv
        OBVIOUS
    <2>1. \A r \in ReqId : held[r] = None
        BY DEF Init
    <2> QED
        BY <2>1, LeakInvInit DEF ExactInv
<1>2. ExactInv /\ [Next]_vars => ExactInv'
    <2> SUFFICES ASSUME ExactInv, [Next]_vars
                 PROVE  ExactInv'
        OBVIOUS
    <2>1. CASE UNCHANGED vars
        <3>1. LeakInv'
            BY <2>1, LeakInvStep DEF ExactInv
        <3> QED
            BY <2>1, <3>1 DEF ExactInv, vars
    <2>2. ASSUME NEW r \in ReqId, NEW d \in Demands, Provision(r, d)
          PROVE  ExactInv'
        BY <2>2, ProvisionKeepsExactInv
    <2>3. ASSUME NEW r \in ReqId, Teardown(r)
          PROVE  ExactInv'
        BY <2>3, TeardownKeepsExactInv
    <2> QED
        BY <2>1, <2>2, <2>3 DEF Next
<1> QED
    BY <1>1, <1>2, PTL DEF Spec

\* S holds the cells of some slots of a core of some links, and no other.
IsBlock(S, links, b, c, low, high) ==
    /\ S \subseteq Cell
    /\ \A x \in Cell : x \in S <=>
          x[1] \in links /\ x[2] = b /\ x[3] = c /\ low <= x[4] /\ x[4] <= high

Block(links, b, c, low, high) == links \X {b} \X {c} \X (low..high)

\* The cells of some slots of a core of some links.
LEMMA BlockCells ==
    ASSUME SpectrumAssumption, NEW links \in SUBSET Link, NEW b \in Band, NEW c \in Core,
           NEW low \in Nat, NEW high \in Int, high < BandSlots[b],
           NEW S, IsBlock(S, links, b, c, low, high)
    PROVE  S = Block(links, b, c, low, high)
<1> DEFINE B == links \X {b} \X {c} \X (low..high)
<1>1. ASSUME NEW x \in S
      PROVE  x \in B
    <2>1. /\ x = <<x[1], x[2], x[3], x[4]>> /\ x[4] \in Slot(b)
          /\ x[1] \in links /\ x[2] = b /\ x[3] = c /\ low <= x[4] /\ x[4] <= high
        BY CellIsTuple DEF IsBlock
    <2>2. x[4] \in low..high
        BY <2>1 DEF Slot
    <2> QED
        BY <2>1, <2>2
<1>2. ASSUME NEW x \in B
      PROVE  x \in S
    <2>1. PICK l \in links, t \in low..high : x = <<l, b, c, t>>
        OBVIOUS
    <2>2. t \in Slot(b) /\ l \in Link /\ low <= t /\ t <= high
        BY <2>1 DEF Slot, SpectrumAssumption
    <2>3. x \in Cell
        BY <2>1, <2>2, TupleIsCell
    <2> QED
        BY <2>1, <2>2, <2>3 DEF IsBlock
<1> HIDE DEF B
<1>3. S = B
    BY <1>1, <1>2
<1> QED
    BY <1>3 DEF B, Block

\* What is held is exactly one block of data and one of guard.
IsBlocks(nt, id, path, n, w) ==
    /\ {x \in Cell : nt[x] = id} =
         LinksOf(path) \X {w.curr_band} \X {w.core_num} \X (w.start_slot..(w.start_slot + n - 1))
    /\ {x \in Cell : nt[x] = -id} =
         LinksOf(path) \X {w.curr_band} \X {w.core_num}
            \X ((w.start_slot + n)..(w.start_slot + n + GuardSlots - 1))

\* A lightpath that is held is a block of both.
LEMMA HeldBlocks ==
    ASSUME SpectrumAssumption, NEW nt, NEW id, NEW path, LinksOf(path) \subseteq Link,
           NEW n \in Nat \ {0}, NEW w, Holding(nt, id, path, n, w)
    PROVE  IsBlocks(nt, id, path, n, w)
<1> PICK b \in Band, c \in Core : b = w.curr_band /\ c = w.core_num
    BY DEF Holding
<1>1. PICK s \in Nat : s = w.start_slot /\ s + n + GuardSlots <= BandSlots[b]
    BY DEF Holding, Slot, SpectrumAssumption
<1>2. BandSlots[b] \in Nat /\ GuardSlots \in Nat
    BY DEF SpectrumAssumption
<1>3. \A x \in Cell : x[4] \in Int
    BY CellIsTuple DEF Slot, SpectrumAssumption
<1>4. /\ \A x \in Cell : nt[x] = id <=>
           x[1] \in LinksOf(path) /\ x[2] = b /\ x[3] = c /\ s <= x[4] /\ x[4] < s + n
      /\ \A x \in Cell : nt[x] = -id <=>
           x[1] \in LinksOf(path) /\ x[2] = b /\ x[3] = c /\ s + n <= x[4] /\ x[4] < s + n + GuardSlots
    BY <1>1 DEF Holding, OnChannel
<1> DEFINE D == {x \in Cell : nt[x] = id}
           G == {x \in Cell : nt[x] = -id}
<1>5. D \in SUBSET Cell /\ G \in SUBSET Cell
    OBVIOUS
<1>60. LinksOf(path) \in SUBSET Link
    OBVIOUS
<1>6. \A x \in Cell : x \in D <=>
           x[1] \in LinksOf(path) /\ x[2] = b /\ x[3] = c /\ s <= x[4] /\ x[4] <= s + n - 1
    BY <1>3, <1>4
<1>7. \A x \in Cell : x \in G <=>
           x[1] \in LinksOf(path) /\ x[2] = b /\ x[3] = c /\ s + n <= x[4] /\ x[4] <= s + n + GuardSlots - 1
    BY <1>2, <1>3, <1>4
<1> HIDE DEF D, G
<1>8. D = LinksOf(path) \X {b} \X {c} \X (s..(s + n - 1))
    <2>1. PICK high \in Int : high = s + n - 1 /\ high < BandSlots[b]
        BY <1>1, <1>2
    <2>2. IsBlock(D, LinksOf(path), b, c, s, high)
        BY <1>5, <1>6, <2>1 DEF IsBlock
    <2>3. D = Block(LinksOf(path), b, c, s, high)
        BY <1>60, <2>1, <2>2, BlockCells, SpectrumAssumption
    <2> QED
        BY <2>1, <2>3 DEF Block
<1>9. G = LinksOf(path) \X {b} \X {c} \X ((s + n)..(s + n + GuardSlots - 1))
    <2>1. PICK low \in Nat : low = s + n
        BY <1>1, <1>2
    <2>2. PICK high \in Int : high = s + n + GuardSlots - 1 /\ high < BandSlots[b]
        BY <1>1, <1>2
    <2>3. IsBlock(G, LinksOf(path), b, c, low, high)
        BY <1>5, <1>7, <2>1, <2>2 DEF IsBlock
    <2>4. G = Block(LinksOf(path), b, c, low, high)
        BY <1>60, <2>2, <2>3, BlockCells, SpectrumAssumption
    <2> QED
        BY <2>1, <2>2, <2>4 DEF Block
<1> QED
    BY <1>1, <1>8, <1>9 DEF D, G, IsBlocks

\* Whole lightpaths are the blocks of cells HoldsItsDemand speaks of.
LEMMA HeldExactly == ExactInv => HoldsItsDemand
<1> SUFFICES ASSUME ExactInv, NEW r \in ReqId, held[r] # None
             PROVE  \E c \in Core, b \in Band : \E s \in Slot(b) :
                /\ {x \in Cell : net[x] = r}  =
                     LinksOf(held[r].path) \X {b} \X {c} \X (s..(s + held[r].slots - 1))
                /\ {x \in Cell : net[x] = -r} =
                     LinksOf(held[r].path) \X {b} \X {c}
                       \X ((s + held[r].slots)..(s + held[r].slots + GuardSlots - 1))
    BY DEF HoldsItsDemand
<1>1. PICK h : h = held[r] /\ h \in HeldRecord
    BY DEF ExactInv, LeakInv
<1>2. h.slots \in Nat \ {0} /\ LinksOf(h.path) \subseteq Link
    BY <1>1, ChurnAssumption DEF ChurnAssumption, HeldRecord, IsPath
<1>3. Holding(net, r, h.path, h.slots, h.window)
    BY <1>1 DEF ExactInv
<1>4. h.window.curr_band \in Band /\ h.window.core_num \in Core
         /\ h.window.start_slot \in Slot(h.window.curr_band)
    BY <1>3 DEF Holding
<1>5. /\ {x \in Cell : net[x] = r} =
                LinksOf(h.path) \X {h.window.curr_band} \X {h.window.core_num}
                   \X (h.window.start_slot..(h.window.start_slot + h.slots - 1))
      /\ {x \in Cell : net[x] = -r} =
                LinksOf(h.path) \X {h.window.curr_band} \X {h.window.core_num}
                   \X ((h.window.start_slot + h.slots)..(h.window.start_slot + h.slots + GuardSlots - 1))
    <2>1. IsBlocks(net, r, h.path, h.slots, h.window)
        BY <1>2, <1>3, HeldBlocks, SpectrumAssumption
    <2> QED
        BY <2>1 DEF IsBlocks
<1> QED
    BY <1>1, <1>4, <1>5

\* On an array of slots, q holds the n slots from a on and minus q the one after them.
OwnRun(arr, q, a, n) ==
    /\ a + n \in DOMAIN arr
    /\ \A u \in DOMAIN arr : arr[u] = q <=> a <= u /\ u < a + n
    /\ \A u \in DOMAIN arr : arr[u] = -q <=> u = a + n

\* Between the slots of one request and those of a later one lies a guard slot.
LEMMA GuardBetween ==
    ASSUME NEW D \in SUBSET Int, NEW arr \in [D -> Int], NEW r \in Nat \ {0}, NEW q \in Nat \ {0},
           NEW a \in Int, NEW n \in Int, OwnRun(arr, r, a, n),
           NEW s \in D, NEW t \in D, s < t, arr[s] = r, arr[t] = q, q # r
    PROVE  \E u \in s..t : arr[u] < 0
<1>1. a <= s /\ s < a + n /\ a + n \in D /\ ~(a <= t /\ t < a + n)
    BY DEF OwnRun
<1>2. arr[a + n] = -r
    BY <1>1 DEF OwnRun
<1>3. t # a + n
    BY <1>2
<1>4. a + n \in s..t
    BY <1>1, <1>3
<1> QED
    BY <1>2, <1>4

\* The taken channel of a slot, as find_taken_channels collects it.
ChannelOf(arr, s) ==
    {t \in {x \in DOMAIN arr : arr[x] > 0} : \A u \in (s..t) \union (t..s) : arr[u] >= 0}

\* It is the run of the request that holds the slot.
LEMMA ChannelIsRun ==
    ASSUME NEW D \in SUBSET Int, NEW arr \in [D -> Int],
           \A u \in D : arr[u] > 0 => \E a, n \in Int : OwnRun(arr, arr[u], a, n),
           \A u, v \in D : u..v \subseteq D,
           NEW s \in D, arr[s] > 0
    PROVE  ChannelOf(arr, s) = {t \in D : arr[t] = arr[s]}
<1>1. PICK r \in Nat \ {0} : r = arr[s]
    OBVIOUS
<1>2. ASSUME NEW t \in D, arr[t] = r
      PROVE  t \in ChannelOf(arr, s)
    <2>1. PICK a \in Int, n \in Int : OwnRun(arr, r, a, n)
        BY <1>1
    <2>2. a <= s /\ s < a + n /\ a <= t /\ t < a + n
        BY <1>1, <1>2, <2>1 DEF OwnRun
    <2>3. ASSUME NEW u \in (s..t) \union (t..s)
          PROVE  arr[u] >= 0
        <3>1. u \in D /\ a <= u /\ u < a + n
            BY <2>2
        <3>2. arr[u] = r
            BY <2>1, <3>1 DEF OwnRun
        <3> QED
            BY <3>2
    <2> QED
        BY <1>2, <2>3 DEF ChannelOf
<1>3. ASSUME NEW t \in ChannelOf(arr, s)
      PROVE  t \in D /\ arr[t] = r
    <2>1. t \in D /\ arr[t] > 0 /\ \A u \in (s..t) \union (t..s) : arr[u] >= 0
        BY DEF ChannelOf
    <2>2. PICK q \in Nat \ {0} : q = arr[t]
        BY <2>1
    <2>3. ASSUME q # r
          PROVE  FALSE
        <3>1. CASE s < t
            <4>1. PICK a \in Int, n \in Int : OwnRun(arr, r, a, n)
                BY <1>1
            <4>2. PICK u \in s..t : arr[u] < 0
                BY <1>1, <2>1, <2>2, <2>3, <3>1, <4>1, GuardBetween
            <4>3. u \in D /\ arr[u] >= 0
                BY <2>1, <4>2
            <4> QED
                BY <4>2, <4>3
        <3>2. CASE t < s
            <4>1. PICK a \in Int, n \in Int : OwnRun(arr, q, a, n)
                BY <2>1, <2>2
            <4>2. PICK u \in t..s : arr[u] < 0
                BY <1>1, <2>1, <2>2, <2>3, <3>2, <4>1, GuardBetween
            <4>3. u \in D /\ arr[u] >= 0
                BY <2>1, <4>2
            <4> QED
                BY <4>2, <4>3
        <3> QED
            BY <1>1, <2>1, <2>2, <2>3, <3>1, <3>2
    <2> QED
        BY <2>1, <2>2, <2>3
<1> QED
    BY <1>1, <1>2, <1>3 DEF ChannelOf

\* What a request holds over a link is one run on the array of its core.
LEMMA HoldingIsRun ==
    ASSUME SpectrumAssumption, GuardSlots = 1, NEW nt, NEW id, NEW path, NEW n \in Nat \ {0}, NEW w,
           Holding(nt, id, path, n, w),
           NEW l \in Link, l \in LinksOf(path)
    PROVE  /\ w.start_slot \in Int
           /\ OwnRun(CoreArr(nt, l, w.curr_band, w.core_num), id, w.start_slot, n)
<1> PICK b \in Band, c \in Core : b = w.curr_band /\ c = w.core_num
    BY DEF Holding
<1>1. PICK s \in Nat : s = w.start_slot /\ s + n + GuardSlots <= BandSlots[b]
    BY DEF Holding, Slot, SpectrumAssumption
<1>2. DOMAIN CoreArr(nt, l, b, c) = Slot(b) /\ s + n \in Slot(b)
    BY <1>1 DEF CoreArr, Slot, SpectrumAssumption
<1>3. ASSUME NEW u \in Slot(b)
      PROVE  /\ nt[<<l, b, c, u>>] = id <=> s <= u /\ u < s + n
             /\ nt[<<l, b, c, u>>] = -id <=> u = s + n
    <2>0. <<l, b, c, u>> \in Cell
        BY TupleIsCell
    <2>5. PICK x : x = <<l, b, c, u>>
        OBVIOUS
    <2>6. x[1] = l /\ x[2] = b /\ x[3] = c /\ x[4] = u
        BY <2>5
    <2>1. x = <<l, b, c, u>> /\ x \in Cell /\ x[4] = u /\ OnChannel(x, path, w)
        BY <2>0, <2>5, <2>6 DEF OnChannel
    <2>2. /\ nt[x] = id <=> s <= u /\ u < s + n
          /\ nt[x] = -id <=> s + n <= u /\ u < s + n + GuardSlots
        BY <1>1, <2>1 DEF Holding
    <2>3. u \in Int
        BY DEF Slot
    <2>4. s + n <= u /\ u < s + n + GuardSlots <=> u = s + n
        BY <2>3
    <2> QED
        BY <2>1, <2>2, <2>4
<1>4. \A u \in Slot(b) : CoreArr(nt, l, b, c)[u] = nt[<<l, b, c, u>>]
    BY DEF CoreArr
<1>5. PICK arr : arr = CoreArr(nt, l, b, c)
    OBVIOUS
<1>6. /\ s + n \in DOMAIN arr
      /\ \A u \in DOMAIN arr : arr[u] = id <=> s <= u /\ u < s + n
      /\ \A u \in DOMAIN arr : arr[u] = -id <=> u = s + n
    <2>1. DOMAIN arr = Slot(b) /\ \A u \in Slot(b) : arr[u] = nt[<<l, b, c, u>>]
        BY <1>2, <1>4, <1>5
    <2>2. ASSUME NEW u \in DOMAIN arr
          PROVE  (arr[u] = id <=> s <= u /\ u < s + n) /\ (arr[u] = -id <=> u = s + n)
        <3>1. u \in Slot(b)
            BY <2>1
        <3>2. arr[u] = nt[<<l, b, c, u>>]
            BY <2>1, <3>1
        <3> QED
            BY <1>3, <3>1, <3>2
    <2> QED
        BY <1>2, <2>1, <2>2
<1>7. OwnRun(arr, id, s, n)
    BY <1>6 DEF OwnRun
<1> QED
    BY <1>1, <1>5, <1>7

\* The request whose data lies in a cell holds it over the cell's link.
LEMMA DataIsHeld ==
    ASSUME ExactInv, NEW l \in Link, NEW b \in Band, NEW c \in Core, NEW s \in Slot(b),
           net[<<l, b, c, s>>] > 0
    PROVE  \E r \in ReqId : /\ r = net[<<l, b, c, s>>] /\ held[r] # None
                            /\ l \in LinksOf(held[r].path)
                            /\ held[r].window.core_num = c /\ held[r].window.curr_band = b
<1>1. PICK x : x = <<l, b, c, s>> /\ x \in Cell /\ x[1] = l /\ x[2] = b /\ x[3] = c
    BY TupleIsCell
<1>2. net[x] \in Int /\ net[x] > 0
    BY <1>1 DEF ExactInv, LeakInv
<1>3. PICK r \in ReqId : held[r] # None /\ net[x] \in {r, -r} /\ x[1] \in LinksOf(held[r].path)
    BY <1>1, <1>2 DEF ExactInv, LeakInv
<1>4. r = net[x]
    BY <1>2, <1>3 DEF ReqId
<1>5. OnChannel(x, held[r].path, held[r].window)
    BY <1>1, <1>3, <1>4 DEF ExactInv, Holding
<1> QED
    BY <1>1, <1>3, <1>4, <1>5 DEF OnChannel

\* What is held over a link, as one run of its core.
LEMMA HeldIsRun ==
    ASSUME ExactInv, GuardSlots = 1, NEW l \in Link, NEW r \in ReqId, held[r] # None,
           l \in LinksOf(held[r].path)
    PROVE  LET w == held[r].window
           IN  /\ w.curr_band \in Band /\ w.core_num \in Core /\ w.start_slot \in Slot(w.curr_band)
               /\ held[r].slots \in Nat \ {0} /\ w.start_slot \in Int
               /\ OwnRun(CoreArr(net, l, w.curr_band, w.core_num), r, w.start_slot, held[r].slots)
<1>1. PICK h : h = held[r] /\ h \in HeldRecord
    BY DEF ExactInv, LeakInv
<1>2. h.slots \in Nat \ {0}
    BY <1>1, ChurnAssumption DEF ChurnAssumption, HeldRecord
<1>3. Holding(net, r, h.path, h.slots, h.window)
    BY <1>1 DEF ExactInv
<1>4. h.window.start_slot \in Int
         /\ OwnRun(CoreArr(net, l, h.window.curr_band, h.window.core_num), r, h.window.start_slot, h.slots)
    BY <1>1, <1>2, <1>3, HoldingIsRun, SpectrumAssumption
<1> QED
    BY <1>1, <1>2, <1>3, <1>4 DEF Holding

\* find_taken_channels yields the lightpaths.
LEMMA TakenExactly ==
    ASSUME ExactInv, GuardSlots <= 1
    PROVE  TakenAreLightpaths
<1> SUFFICES ASSUME GuardSlots = 1, NEW l \in Link, NEW b \in Band, NEW c \in Core
             PROVE  FindTakenChannels(net, l, b, c) =
                       {{s \in Slot(b) : net[<<l, b, c, s>>] = r} :
                           r \in {q \in ReqId : /\ held[q] # None /\ l \in LinksOf(held[q].path)
                                              /\ held[q].window.core_num = c /\ held[q].window.curr_band = b}}
    BY SpectrumAssumption DEF TakenAreLightpaths, SpectrumAssumption
<1> DEFINE over == {q \in ReqId : /\ held[q] # None /\ l \in LinksOf(held[q].path)
                                  /\ held[q].window.core_num = c /\ held[q].window.curr_band = b}
           run(r) == {s \in Slot(b) : net[<<l, b, c, s>>] = r}
<1>1. PICK arr : arr = CoreArr(net, l, b, c)
    OBVIOUS
<1>2. arr = [s \in Slot(b) |-> net[<<l, b, c, s>>]]
    BY <1>1 DEF CoreArr
<1>3. Slot(b) \in SUBSET Int /\ \A u, v \in Slot(b) : u..v \subseteq Slot(b)
    BY SpectrumAssumption DEF Slot, SpectrumAssumption
<1>4. arr \in [Slot(b) -> Int]
    <2>1. \A s \in Slot(b) : net[<<l, b, c, s>>] \in Int
        BY TupleIsCell DEF ExactInv, LeakInv
    <2> QED
        BY <1>2, <2>1
<1>5. DOMAIN arr = Slot(b) /\ \A s \in Slot(b) : arr[s] = net[<<l, b, c, s>>]
    BY <1>2
<1>6. ASSUME NEW s \in Slot(b), arr[s] > 0
      PROVE  arr[s] \in over /\ \E a, n \in Int : OwnRun(arr, arr[s], a, n)
    <2>1. net[<<l, b, c, s>>] > 0
        BY <1>5, <1>6
    <2>2. PICK r \in ReqId : /\ r = net[<<l, b, c, s>>] /\ held[r] # None
                             /\ l \in LinksOf(held[r].path)
                             /\ held[r].window.core_num = c /\ held[r].window.curr_band = b
        BY <2>1, DataIsHeld
    <2>3. r = arr[s] /\ r \in over
        BY <1>5, <2>2
    <2>4. OwnRun(arr, r, held[r].window.start_slot, held[r].slots)
             /\ held[r].window.start_slot \in Int /\ held[r].slots \in Int
        BY <1>1, <2>2, HeldIsRun
    <2> QED
        BY <2>3, <2>4
<1>7. ASSUME NEW s \in Slot(b), arr[s] > 0
      PROVE  ChannelOf(arr, s) = run(arr[s])
    <2>1. ChannelOf(arr, s) = {t \in Slot(b) : arr[t] = arr[s]}
        BY <1>3, <1>4, <1>6, <1>7, ChannelIsRun
    <2> QED
        BY <1>5, <2>1
<1>8. FindTakenChannels(net, l, b, c) = {ChannelOf(arr, s) : s \in {x \in DOMAIN arr : arr[x] > 0}}
    BY <1>1 DEF FindTakenChannels, ChannelOf
<1>9. ASSUME NEW r \in over
      PROVE  \E s \in Slot(b) : arr[s] > 0 /\ arr[s] = r
    <2>1. PICK s, n : /\ s = held[r].window.start_slot /\ n = held[r].slots
                      /\ s \in Slot(b) /\ n \in Nat \ {0} /\ s \in Int /\ OwnRun(arr, r, s, n)
        BY <1>1, HeldIsRun
    <2>2. arr[s] = r
        BY <1>5, <2>1 DEF OwnRun
    <2> QED
        BY <2>1, <2>2 DEF ReqId
<1> HIDE DEF over, run
<1>10. ASSUME NEW C \in FindTakenChannels(net, l, b, c)
       PROVE  C \in {run(r) : r \in over}
    <2>1. PICK s \in Slot(b) : arr[s] > 0 /\ C = ChannelOf(arr, s)
        BY <1>5, <1>8
    <2> QED
        BY <1>6, <1>7, <2>1
<1>11. ASSUME NEW r \in over
       PROVE  run(r) \in FindTakenChannels(net, l, b, c)
    <2>1. PICK s \in Slot(b) : arr[s] > 0 /\ arr[s] = r
        BY <1>9
    <2>2. run(r) = ChannelOf(arr, s)
        BY <1>7, <2>1
    <2> QED
        BY <1>5, <1>8, <2>1, <2>2
<1>12. FindTakenChannels(net, l, b, c) = {run(r) : r \in over}
    BY <1>10, <1>11
<1> QED
    BY <1>12 DEF over, run

\* The n slots from s on and the one after them lie in the band and are free along the path.
FreeSlots(nt, path, n, c, b, s) ==
    \A t \in s..(s + n) : t \in Slot(b) /\ \A l \in LinksOf(path) : nt[<<l, b, c, t>>] = 0

\* With one guard slot a window is open at a start when these slots are free.
LEMMA OpenAt ==
    ASSUME SpectrumAssumption, GuardSlots = 1, NEW nt, NEW path, LinksOf(path) # {}, NEW n \in Nat \ {0},
           NEW c, NEW b \in Band, NEW s \in Slot(b)
    PROVE  Open(nt, path, n, c, b, s) <=> FreeSlots(nt, path, n, c, b, s)
<1>1. s \in Int /\ 0 <= s /\ s + n \in s..(s + n) /\ BandSlots[b] \in Nat
    BY DEF Slot, SpectrumAssumption
<1>2. s + n + GuardSlots - 1 = s + n
    BY <1>1
<1>3. ASSUME s + n + GuardSlots <= BandSlots[b], NEW t \in s..(s + n)
      PROVE  t \in Slot(b)
    BY <1>1, <1>3 DEF Slot
<1>4. ASSUME s + n \in Slot(b)
      PROVE  s + n + GuardSlots <= BandSlots[b]
    BY <1>1, <1>4 DEF Slot
<1> QED
    BY <1>1, <1>2, <1>3, <1>4 DEF Open, FreeSlots

\* get_super_channels and find_free_channels find the open windows, on every spectrum.
LEMMA ChannelsAnywhere == ChannelsAreOpen
<1> SUFFICES ASSUME GuardSlots = 1, NEW d \in Demands, NEW c \in Core, NEW b \in Band
             PROVE  LET open == {s \in Slot(b) : Open(net, d[1], d[2], c, b, s)}
                    IN  /\ GetSuperChannels(PathAllocArr(net, d[1], b, c), d[2]) = open
                        /\ \A s \in Slot(b) :
                              s \in open <=> \A l \in LinksOf(d[1]) : s \in FindFreeChannels(net, l, b, c, d[2] + 1)
    BY DEF ChannelsAreOpen
<1> PICK path : path = d[1]
    OBVIOUS
<1>1. PICK n \in Nat \ {0} : path = d[1] /\ n = d[2]
    BY DemandProps, ChurnAssumption
<1>2. IsPath(path) /\ LinksOf(path) # {}
    BY <1>1, DemandProps, ChurnAssumption, FirstLink
<1> DEFINE open == {s \in Slot(b) : Open(net, path, n, c, b, s)}
           zero(l, t) == net[<<l, b, c, t>>] = 0
<1>3. \A s \in Slot(b) : s \in open <=>
          \A t \in s..(s + n) : t \in Slot(b) /\ \A l \in LinksOf(path) : zero(l, t)
    <2>1. ASSUME NEW s \in Slot(b)
          PROVE  Open(net, path, n, c, b, s) <=> FreeSlots(net, path, n, c, b, s)
        BY <1>2, OpenAt, SpectrumAssumption
    <2> QED
        BY <2>1 DEF FreeSlots
<1>4. PICK arr : arr = PathAllocArr(net, path, b, c)
    OBVIOUS
<1>5. Zeros(arr) = {t \in Slot(b) : \A l \in LinksOf(path) : zero(l, t)} /\ DOMAIN arr = Slot(b)
    <2>1. DOMAIN arr = Slot(b)
             /\ \A t \in Slot(b) : arr[t] = IF \E l \in LinksOf(path) : net[<<l, b, c, t>>] # 0 THEN 1 ELSE 0
        BY <1>4 DEF PathAllocArr
    <2>2. ASSUME NEW t \in Slot(b)
          PROVE  arr[t] = 0 <=> \A l \in LinksOf(path) : zero(l, t)
        <3>1. arr[t] = IF \E l \in LinksOf(path) : net[<<l, b, c, t>>] # 0 THEN 1 ELSE 0
            BY <2>1
        <3>2. CASE \E l \in LinksOf(path) : net[<<l, b, c, t>>] # 0
            BY <3>1, <3>2
        <3>3. CASE ~\E l \in LinksOf(path) : net[<<l, b, c, t>>] # 0
            BY <3>1, <3>3
        <3> QED
            BY <3>2, <3>3
    <2> QED
        BY <2>1, <2>2 DEF Zeros
<1>6. GetSuperChannels(arr, n) = {s \in Slot(b) : s..(s + n) \subseteq Zeros(arr)}
    BY <1>5 DEF GetSuperChannels
<1>7. \A l \in LinksOf(path) : FindFreeSlots(net, l, b, c) = {t \in Slot(b) : zero(l, t)}
    <2>1. ASSUME NEW l \in LinksOf(path), NEW t \in Slot(b)
          PROVE  CoreArr(net, l, b, c)[t] = net[<<l, b, c, t>>]
        BY DEF CoreArr
    <2>2. \A l \in LinksOf(path) : DOMAIN CoreArr(net, l, b, c) = Slot(b)
        BY DEF CoreArr
    <2> QED
        BY <2>1, <2>2 DEF FindFreeSlots, Zeros
<1>8. ASSUME NEW l \in LinksOf(path), NEW s \in Slot(b)
      PROVE  s \in FindFreeChannels(net, l, b, c, n + 1) <=>
                \A t \in s..(s + n) : t \in Slot(b) /\ zero(l, t)
    <2>1. s \in Int /\ s \in s..(s + n) /\ s + (n + 1) - 1 = s + n /\ n + 1 # 1
        BY DEF Slot
    <2>2. PICK free : free = FindFreeSlots(net, l, b, c) /\ \A t : t \in free <=> t \in Slot(b) /\ zero(l, t)
        BY <1>7
    <2> HIDE DEF zero
    <2>3. s \in FindFreeChannels(net, l, b, c, n + 1) <=> s \in free /\ s..(s + n) \subseteq free
        BY <2>1, <2>2 DEF FindFreeChannels
    <2> QED
        BY <2>1, <2>2, <2>3
<1> HIDE DEF open, zero
<1>9. \A s \in Slot(b) : s \in GetSuperChannels(arr, n) <=> s \in open
    BY <1>3, <1>5, <1>6
<1>10. GetSuperChannels(arr, n) \subseteq Slot(b) /\ open \subseteq Slot(b)
    BY <1>6 DEF open
<1>11. ASSUME NEW s \in Slot(b)
       PROVE  s \in open <=> \A l \in LinksOf(path) : s \in FindFreeChannels(net, l, b, c, n + 1)
    BY <1>2, <1>3, <1>8
<1> QED
    BY <1>1, <1>4, <1>9, <1>10, <1>11 DEF open

-----------------------------------------------------------------------------
\* A search and the allocation that follows never disagree, for every topology, set of
\* bands and demands: with at most one guard slot, and none with best fit, allocate does
\* not raise for the window get_spectrum returned (check_free_spectrum, allocate).
THEOREM ChurnSearchAgrees ==
    ASSUME SearchFits
    PROVE  Spec => []SearchAgreesWithAllocate
<1>1. SearchAgreesWithAllocate
    BY FoundIsWritten
<1> QED
    BY <1>1, PTL

\* Under the same conditions no method but last fit, which reports its window the other
\* way round, leaves the core or the start a caller forces (get_spectrum).
THEOREM ChurnForced ==
    ASSUME SearchFits, AllocationMethod # "last_fit"
    PROVE  Spec => []ForcedIsObeyed
<1>1. ForcedIsObeyed
    BY ForcedAnywhere
<1> QED
    BY <1>1, PTL

\* A search that tries every core and can be forced to any start turns a demand away
\* exactly when no window is open for it (check_super_channels, find_best_fit).
THEOREM ChurnNoFalseBlocking ==
    ASSUME SearchFits, SearchIsComplete
    PROVE  Spec => []NoFalseBlocking
<1>1. NoFalseBlocking
    BY NoFalseBlockingAnywhere
<1> QED
    BY <1>1, PTL

\* First fit takes the first open window, for every topology (handle_first_last).
THEOREM ChurnFirstOpen ==
    ASSUME SearchFits, AllocationMethod = "first_fit"
    PROVE  Spec => []TakesFirstOpen
<1>1. TakesFirstOpen
    BY FirstOpenAnywhere
<1> QED
    BY <1>1, PTL

\* Whatever came and went before it, a lightpath holds exactly the slots of its demand and
\* the guard after them, the same ones on every link of its path (allocate, release).
THEOREM ChurnHoldsItsDemand ==
    ASSUME SearchFits
    PROVE  Spec => []HoldsItsDemand
<1>1. Spec => []ExactInv
    BY ExactInvAlways
<1> QED
    BY <1>1, HeldExactly, PTL

\* find_taken_channels yields the lightpaths and nothing else, for every topology.
THEOREM ChurnTakenAreLightpaths ==
    ASSUME SearchFits
    PROVE  Spec => []TakenAreLightpaths
<1>1. Spec => []ExactInv
    BY ExactInvAlways
<1>2. ExactInv => TakenAreLightpaths
    BY TakenExactly DEF SearchFits
<1> QED
    BY <1>1, <1>2, PTL

\* get_super_channels and find_free_channels agree with the windows that are open, on
\* every spectrum and not only on those a search leaves.
THEOREM ChurnChannelsAreOpen == Spec => []ChannelsAreOpen
    BY ChannelsAnywhere, PTL

-----------------------------------------------------------------------------
(* The lightpaths of the churn are those of LightpathService.                  *)

Channels == {<<x[2], x[3], x[4]>> : x \in Cell}

\* The channels a request holds, on every link of its path.
ChannelsHeld(nt, id, path) ==
    {k \in Channels : \A l \in LinksOf(path) : nt[<<l, k[1], k[2], k[3]>>] \in {id, -id}}

Unlit == [path |-> <<>>, channels |-> {}]

Lit(nt, hd) ==
    [r \in ReqId |-> IF hd[r] = None THEN Unlit
                     ELSE [path |-> hd[r].path, channels |-> ChannelsHeld(nt, r, hd[r].path)]]

Overlap(p, q) == LinksOf(p) \intersect LinksOf(q) # {}

Lightpaths == INSTANCE LightpathService WITH
    Req <- ReqId, Path <- Paths, Channel <- Channels, SharesLink <- Overlap,
    Dark <- Unlit, lit <- Lit(net, held)

\* The parts of a channel, and the cell it is on a link.
LEMMA ChannelParts ==
    ASSUME NEW k \in Channels
    PROVE  /\ k = <<k[1], k[2], k[3]>>
           /\ \A l \in Link : <<l, k[1], k[2], k[3]>> \in Cell
<1>1. PICK x \in Cell : k = <<x[2], x[3], x[4]>>
    BY DEF Channels
<1>2. x[2] \in Band /\ x[3] \in Core /\ x[4] \in Slot(x[2])
    BY CellIsTuple
<1> QED
    BY <1>1, <1>2, TupleIsCell

\* The channels of a request are its cells: they stay when its cells stay.
LEMMA ChannelsKept ==
    ASSUME NEW nt1, NEW nt2, NEW id, NEW path, LinksOf(path) \subseteq Link,
           \A x \in Cell : (nt2[x] = id <=> nt1[x] = id) /\ (nt2[x] = -id <=> nt1[x] = -id)
    PROVE  ChannelsHeld(nt2, id, path) = ChannelsHeld(nt1, id, path)
<1>1. ASSUME NEW k \in Channels, NEW l \in LinksOf(path)
      PROVE  LET x == <<l, k[1], k[2], k[3]>> IN nt2[x] \in {id, -id} <=> nt1[x] \in {id, -id}
    <2>1. <<l, k[1], k[2], k[3]>> \in Cell
        BY ChannelParts
    <2> QED
        BY <2>1
<1> QED
    BY <1>1 DEF ChannelsHeld

\* A lightpath that is held whole has a channel.
LEMMA HoldingIsLit ==
    ASSUME SpectrumAssumption, NEW nt, NEW id, NEW path, LinksOf(path) \subseteq Link,
           NEW n \in Nat \ {0}, NEW w, Holding(nt, id, path, n, w), LinksOf(path) # {}
    PROVE  ChannelsHeld(nt, id, path) # {}
<1> PICK b \in Band, c \in Core, s \in Slot(w.curr_band) :
          b = w.curr_band /\ c = w.core_num /\ s = w.start_slot
    BY DEF Holding
<1>1. s \in Int /\ s <= s /\ s < s + n
    BY DEF Slot, SpectrumAssumption
<1>2. ASSUME NEW l \in LinksOf(path)
      PROVE  <<l, b, c, s>> \in Cell /\ nt[<<l, b, c, s>>] = id
    <2>1. <<l, b, c, s>> \in Cell
        BY TupleIsCell
    <2>2. OnChannel(<<l, b, c, s>>, path, w)
        BY DEF OnChannel
    <2> QED
        BY <1>1, <2>1, <2>2 DEF Holding
<1>3. <<b, c, s>> \in Channels
    <2>1. PICK l \in LinksOf(path) : TRUE
        OBVIOUS
    <2>2. PICK x \in Cell : x = <<l, b, c, s>>
        BY <1>2
    <2> QED
        BY <2>2 DEF Channels
<1>4. <<b, c, s>> \in ChannelsHeld(nt, id, path)
    BY <1>2, <1>3 DEF ChannelsHeld
<1> QED
    BY <1>4

\* Two requests have no channel in common when their paths have a link in common.
LEMMA ChannelsApart ==
    ASSUME NEW nt, NEW p, NEW q, NEW q1 \in Nat \ {0}, NEW q2 \in Nat \ {0}, q1 # q2,
           LinksOf(p) \subseteq Link, Overlap(p, q)
    PROVE  ChannelsHeld(nt, q1, p) \intersect ChannelsHeld(nt, q2, q) = {}
<1> SUFFICES ASSUME NEW k \in ChannelsHeld(nt, q1, p), k \in ChannelsHeld(nt, q2, q)
             PROVE  FALSE
    OBVIOUS
<1>1. PICK l \in LinksOf(p) : l \in LinksOf(q)
    BY DEF Overlap
<1>2. nt[<<l, k[1], k[2], k[3]>>] \in {q1, -q1} /\ nt[<<l, k[1], k[2], k[3]>>] \in {q2, -q2}
    BY <1>1 DEF ChannelsHeld
<1> QED
    BY <1>2

\* A path over links of the topology has a link.
LEMMA PathHasLinks ==
    ASSUME NEW p, IsPath(p)
    PROVE  LinksOf(p) # {} /\ LinksOf(p) \subseteq Link
<1>1. 1 \in 1..(Len(p) - 1) /\ LinksOf(p) \subseteq Link
    BY DEF IsPath
<1>2. {p[1], p[1 + 1]} \in LinksOf(p)
    BY <1>1 DEF LinksOf
<1> QED
    BY <1>1, <1>2

\* The cells of the requests a step is not about stay as they are.
LEMMA OthersKept ==
    ASSUME ExactInv, NEW r \in ReqId, NEW q \in ReqId, q # r,
           (\E d \in Demands : Provision(r, d)) \/ Teardown(r)
    PROVE  /\ held'[q] = held[q]
           /\ \A x \in Cell : (net'[x] = q <=> net[x] = q) /\ (net'[x] = -q <=> net[x] = -q)
<1>0. LeakInv /\ q \in Nat \ {0} /\ r \in Nat \ {0}
    BY DEF ExactInv, ReqId
<1>1. CASE \E d \in Demands : Provision(r, d)
    <2>1. PICK d \in Demands : Provision(r, d)
        BY <1>1
    <2>2. PICK w, h : /\ CanAllocate(net, d[1], w) /\ net' = Allocate(net, r, d[1], w)
                      /\ held' = [held EXCEPT ![r] = h]
        BY <1>0, <2>1 DEF Provision
    <2>3. ASSUME NEW x \in Cell
          PROVE  (net'[x] = q <=> net[x] = q) /\ (net'[x] = -q <=> net[x] = -q)
        <3>1. net'[x] # net[x] => net[x] = 0 /\ net'[x] \in {r, -r}
            BY <2>2, AllocateCell
        <3> QED
            BY <1>0, <3>1
    <2> QED
        BY <1>0, <2>2, <2>3 DEF LeakInv
<1>2. CASE Teardown(r)
    <2>1. net' = Release(net, r, held[r].path) /\ held' = [held EXCEPT ![r] = None]
        BY <1>2 DEF Teardown
    <2>2. ASSUME NEW x \in Cell
          PROVE  (net'[x] = q <=> net[x] = q) /\ (net'[x] = -q <=> net[x] = -q)
        <3>1. net'[x] # net[x] => net[x] \in {r, -r} /\ net'[x] = 0
            BY <2>1, ReleaseCell
        <3> QED
            BY <1>0, <3>1
    <2> QED
        BY <1>0, <2>1, <2>2 DEF LeakInv
<1> QED
    BY <1>1, <1>2

\* The lightpath of a request that is held.
LEMMA LitIs ==
    ASSUME NEW nt, NEW hd, NEW r \in ReqId, hd[r] \in HeldRecord \union {None},
           hd[r] # None => ChannelsHeld(nt, r, hd[r].path) # {}
    PROVE  /\ hd[r] = None <=> Lit(nt, hd)[r] = Unlit
           /\ hd[r] # None => /\ Lit(nt, hd)[r].path = hd[r].path
                              /\ Lit(nt, hd)[r].channels = ChannelsHeld(nt, r, hd[r].path)
BY DEF Lit, Unlit

\* Every lightpath of a reachable spectrum has a path of the topology and a channel.
LEMMA HeldIsLit ==
    ASSUME ExactInv, NEW r \in ReqId
    PROVE  /\ held[r] \in HeldRecord \union {None}
           /\ held[r] # None => /\ held[r].path \in Paths
                                /\ LinksOf(held[r].path) \subseteq Link
                                /\ ChannelsHeld(net, r, held[r].path) # {}
<1>1. held[r] \in HeldRecord \union {None}
    BY DEF ExactInv, LeakInv
<1>2. ASSUME held[r] # None
      PROVE  /\ held[r].path \in Paths
             /\ LinksOf(held[r].path) \subseteq Link
             /\ ChannelsHeld(net, r, held[r].path) # {}
    <2>1. held[r].path \in Paths /\ held[r].slots \in Nat \ {0}
        BY <1>1, <1>2, ChurnAssumption DEF HeldRecord, ChurnAssumption
    <2>2. LinksOf(held[r].path) # {} /\ LinksOf(held[r].path) \subseteq Link
        BY <2>1, PathHasLinks, ChurnAssumption DEF ChurnAssumption
    <2>3. Holding(net, r, held[r].path, held[r].slots, held[r].window)
        BY <1>2 DEF ExactInv
    <2> QED
        BY <2>1, <2>2, <2>3, HoldingIsLit, SpectrumAssumption
<1> QED
    BY <1>1, <1>2

\* What a step leaves of the lightpaths of the requests it is not about.
LEMMA OthersLit ==
    ASSUME ExactInv, NEW r \in ReqId, NEW q \in ReqId, q # r,
           (\E d \in Demands : Provision(r, d)) \/ Teardown(r)
    PROVE  Lit(net', held')[q] = Lit(net, held)[q]
<1>1. /\ held'[q] = held[q]
      /\ \A x \in Cell : (net'[x] = q <=> net[x] = q) /\ (net'[x] = -q <=> net[x] = -q)
    BY OthersKept
<1>2. CASE held[q] = None
    BY <1>1, <1>2 DEF Lit
<1>3. CASE held[q] # None
    <2>1. LinksOf(held[q].path) \subseteq Link
        BY <1>3, HeldIsLit
    <2>2. ChannelsHeld(net', q, held[q].path) = ChannelsHeld(net, q, held[q].path)
        BY <1>1, <2>1, ChannelsKept
    <2> QED
        BY <1>1, <1>3, <2>2 DEF Lit
<1> QED
    BY <1>2, <1>3

\* A change of one entry is all that changes.
LEMMA OneEntry ==
    ASSUME NEW nt1, NEW hd1, NEW nt2, NEW hd2, NEW r \in ReqId,
           \A q \in ReqId : q # r => Lit(nt2, hd2)[q] = Lit(nt1, hd1)[q]
    PROVE  Lit(nt2, hd2) = [Lit(nt1, hd1) EXCEPT ![r] = Lit(nt2, hd2)[r]]
<1> DEFINE f == Lit(nt1, hd1)
           g == Lit(nt2, hd2)
<1>1. f = [q \in ReqId |-> f[q]] /\ g = [q \in ReqId |-> g[q]]
    BY DEF Lit
<1> HIDE DEF f, g
<1>2. \A q \in ReqId : q # r => g[q] = f[q]
    BY DEF f, g
<1>3. g = [f EXCEPT ![r] = g[r]]
    BY <1>1, <1>2
<1> QED
    BY <1>3 DEF f, g

\* A provisioning connects a lightpath: a path of the topology, and channels that no
\* lightpath over one of its links has.
LEMMA ProvisionConnects ==
    ASSUME SearchFits, ExactInv, ExactInv', NEW r \in ReqId, NEW d \in Demands, Provision(r, d)
    PROVE  Lightpaths!Connect(r)
<1> DEFINE C == ChannelsHeld(net', r, d[1])
           v == [path |-> d[1], channels |-> C]
<1>1. d[1] \in Paths /\ IsPath(d[1])
    BY DemandProps, ChurnAssumption
<1>2. LinksOf(d[1]) \subseteq Link /\ LinksOf(d[1]) # {}
    BY <1>1, PathHasLinks
<1>3. PICK h : held' = [held EXCEPT ![r] = h] /\ h.path = d[1] /\ h.slots = d[2] /\ h # None /\ held[r] = None
    BY ProvisionDoes DEF ExactInv
<1>4. held'[r] = h
    BY <1>3 DEF ExactInv, LeakInv
<1>5. C # {} /\ C \subseteq Channels
    <2>1. Holding(net', r, d[1], d[2], h.window)
        BY <1>3, <1>4 DEF ExactInv
    <2>2. d[2] \in Nat \ {0}
        BY DemandProps, ChurnAssumption
    <2> QED
        BY <1>2, <2>1, <2>2, HoldingIsLit, SpectrumAssumption DEF ChannelsHeld
<1>6. Lit(net', held')[r] = v
    BY <1>3, <1>4 DEF Lit
<1>7. Lit(net, held)[r] = Unlit
    BY <1>3 DEF Lit
<1>8. \A q \in ReqId : q # r => Lit(net', held')[q] = Lit(net, held)[q]
    BY OthersLit
<1>9. Lit(net', held') = [Lit(net, held) EXCEPT ![r] = v]
    BY <1>6, <1>8, OneEntry
<1>10. ASSUME NEW q \in ReqId \ {r}, Lit(net, held)[q] # Unlit, Overlap(Lit(net, held)[q].path, d[1])
       PROVE  Lit(net, held)[q].channels \intersect C = {}
    <2>1. /\ held[q] # None
          /\ LinksOf(held[q].path) \subseteq Link
          /\ Lit(net, held)[q].path = held[q].path
          /\ Lit(net, held)[q].channels = ChannelsHeld(net, q, held[q].path)
        BY <1>10, HeldIsLit, LitIs
    <2>2. ChannelsHeld(net', q, held[q].path) = ChannelsHeld(net, q, held[q].path)
        BY <2>1, OthersKept, ChannelsKept
    <2>3. q \in Nat \ {0} /\ r \in Nat \ {0} /\ q # r
        BY DEF ReqId
    <2>4. ChannelsHeld(net', q, held[q].path) \intersect ChannelsHeld(net', r, d[1]) = {}
        BY <1>10, <2>1, <2>3, ChannelsApart
    <2> QED
        BY <2>1, <2>2, <2>4
<1> HIDE DEF C
<1>11. \E p \in Paths, D \in (SUBSET Channels) \ {{}} :
          /\ Lit(net', held') = [Lit(net, held) EXCEPT ![r] = [path |-> p, channels |-> D]]
          /\ \A q \in ReqId \ {r} : Lit(net, held)[q] # Unlit /\ Overlap(Lit(net, held)[q].path, p) =>
                 Lit(net, held)[q].channels \intersect D = {}
    <2>0. d[1] \in Paths /\ C \in (SUBSET Channels) \ {{}}
        BY <1>1, <1>5
    <2>2. Lit(net', held') = [Lit(net, held) EXCEPT ![r] = [path |-> d[1], channels |-> C]]
        BY <1>9
    <2>3. \A q \in ReqId \ {r} : Lit(net, held)[q] # Unlit /\ Overlap(Lit(net, held)[q].path, d[1]) =>
              Lit(net, held)[q].channels \intersect C = {}
        BY <1>10
    <2> USE <2>0
    <2> WITNESS d[1] \in Paths, C \in (SUBSET Channels) \ {{}}
    <2> QED
        BY <2>2, <2>3
<1> QED
    BY <1>7, <1>11 DEF Lightpaths!Connect

\* A teardown disconnects a lightpath.
LEMMA TeardownDisconnects ==
    ASSUME ExactInv, NEW r \in ReqId, Teardown(r)
    PROVE  Lightpaths!Disconnect(r)
<1>1. held[r] # None /\ held' = [held EXCEPT ![r] = None]
    BY DEF Teardown
<1>2. Lit(net, held)[r] # Unlit
    BY <1>1, HeldIsLit, LitIs
<1>3. Lit(net', held')[r] = Unlit
    BY <1>1 DEF Lit, ExactInv, LeakInv
<1>4. \A q \in ReqId : q # r => Lit(net', held')[q] = Lit(net, held)[q]
    BY OthersLit
<1>5. Lit(net', held') = [Lit(net, held) EXCEPT ![r] = Unlit]
    BY <1>3, <1>4, OneEntry
<1> QED
    BY <1>2, <1>5 DEF Lightpaths!Disconnect

\* Lightpaths that are searched for, allocated and released are lightpaths of the service:
\* each has its channels on every link of its path, alone, until it is torn down.
THEOREM ChurnImplementsLightpaths ==
    ASSUME SearchFits
    PROVE  Spec => Lightpaths!Spec
<1>1. Init => Lightpaths!Init
    BY DEF Init, Lightpaths!Init, Lit
<1>2. ExactInv /\ ExactInv' /\ [Next]_vars => [Lightpaths!Next]_(Lit(net, held))
    <2> SUFFICES ASSUME ExactInv, ExactInv', [Next]_vars
                 PROVE  [Lightpaths!Next]_(Lit(net, held))
        OBVIOUS
    <2>1. ASSUME NEW r \in ReqId, NEW d \in Demands, Provision(r, d)
          PROVE  Lightpaths!Next
        BY <2>1, ProvisionConnects DEF Lightpaths!Next
    <2>2. ASSUME NEW r \in ReqId, Teardown(r)
          PROVE  Lightpaths!Next
        BY <2>2, TeardownDisconnects DEF Lightpaths!Next
    <2>3. CASE UNCHANGED vars
        BY <2>3 DEF vars
    <2> QED
        BY <2>1, <2>2, <2>3 DEF Next
<1> QED
    BY <1>1, <1>2, ExactInvAlways, PTL DEF Spec, Lightpaths!Spec
=============================================================================
