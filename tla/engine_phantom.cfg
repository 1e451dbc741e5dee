SPECIFICATION Spec
CONSTANTS
    Node <- Triangle
    Link <- TriangleLinks
    LinkLength <- TriangleLength
    Band <- OneBand
    BandList <- OneBandList
    BandSlots <- FourSlots
    CoresPerLink = 1
    GuardSlots = 1
    AllocationMethod = "first_fit"
    SpectrumPriority = "None"
    None = None
    Bandwidth <- Bw2
    ModPerBw <- Mods2
    RouteMethod = "k_shortest_path"
    PreCalcMods = FALSE
    NoMod = NoMod
    Routes <- TwoRoutes
    MaxSegments = 2
    DynamicLps = FALSE
    FixedGrid = FALSE
    SnrChecked = FALSE
    SnrBandwidths = {0}
    Predictions <- NoModel
    MaxReqs = 3
    MaxIters = 2
INVARIANTS
    RoutedHoldsSlots
