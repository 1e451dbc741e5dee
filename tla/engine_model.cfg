SPECIFICATION FairSpec
CONSTANTS
    Node <- Triangle
    Link <- TriangleLinks
    LinkLength <- TriangleLength
    Band <- OneBand
    BandList <- OneBandList
    BandSlots <- FourSlots
    CoresPerLink = 1
    GuardSlots = 0
    AllocationMethod = "first_fit"
    SpectrumPriority = "None"
    None = None
    Bandwidth <- Bw3
    ModPerBw <- Mods3
    RouteMethod = "k_shortest_path"
    PreCalcMods = FALSE
    NoMod = NoMod
    Routes <- OnePair
    MaxSegments = 4
    DynamicLps = FALSE
    FixedGrid = FALSE
    SnrChecked = FALSE
    SnrBandwidths = {0}
    Predictions <- OneOrFour
    MaxReqs = 2
    MaxIters = 2
INVARIANTS
    SlicesAsPredicted
PROPERTIES
    Terminates
