SPECIFICATION Spec
CONSTANTS
    Node <- MCNode
    Link <- MCLink
    Paths <- MCPaths
    Band <- OneBand
    BandList <- OneBandList
    BandSlots <- OneBandSlots
    CoresPerLink = 1
    GuardSlots = 1
    AllocationMethod = "first_fit"
    SpectrumPriority = "None"
    None = None
    SlotsNeeded = {1, 2, 3}
    Forced <- Unforced
    MaxReqs = 3
INVARIANTS
    SearchAgreesWithAllocate
    NoFalseBlocking
    TakesFirstOpen
    HoldsItsDemand
    NothingLeaks
    TakenAreLightpaths
    ChannelsAreOpen
