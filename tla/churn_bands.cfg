SPECIFICATION Spec
CONSTANTS
    Node <- MCNode
    Link <- MCLink
    Paths <- SecondLinkPaths
    Band <- TwoBands
    BandList <- TwoBandList
    BandSlots <- TwoBandSlots
    CoresPerLink = 2
    GuardSlots = 0
    AllocationMethod = "first_fit"
    SpectrumPriority = "BSC"
    None = None
    SlotsNeeded = {1, 2}
    Forced <- CoreOrIndex
    MaxReqs = 3
INVARIANTS
    SearchAgreesWithAllocate
    NoFalseBlocking
    TakesFirstOpen
    ForcedIsObeyed
