SPECIFICATION Spec
CONSTANTS
    Node <- Triangle
    Link <- TriangleLinks
    LinkLength <- TriangleLength
    Band <- OneBand
    BandList <- OneBandList
    BandSlots <- SixSlots
    CoresPerLink = 1
    GuardSlots = 1
    AllocationMethod = "first_fit"
    SpectrumPriority = "None"
    None = None
    Bandwidth <- Bw3
    ModPerBw <- Mods3
    RouteMethod = "k_shortest_path"
    PreCalcMods = FALSE
    NoMod = NoMod
    Routes <- TwoRoutes
    MaxSegments = 4
    DynamicLps = FALSE
    FixedGrid = FALSE
    SnrChecked = FALSE
    SnrBandwidths = {0}
    Predictions <- NoModel
    MaxReqs = 3
    MaxIters = 1
INVARIANTS
    HoldsItsPlan
    PlanCarriesBandwidth
PROPERTIES
    ImplementsService
