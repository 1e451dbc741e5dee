SPECIFICATION Spec
CONSTANTS
    Node <- Triangle
    Link <- TriangleLinks
    LinkLength <- TriangleLength
    Band <- TwoBands
    BandList <- TwoBandList
    BandSlots <- TwoBandSlots
    CoresPerLink = 2
    GuardSlots = 0
    AllocationMethod = "first_fit"
    SpectrumPriority = "None"
    None = None
    Bandwidth <- Bw2
    ModPerBw <- Mods2
    RouteMethod = "external_ksp"
    PreCalcMods = TRUE
    NoMod = NoMod
    Routes <- ExternalRoute
    MaxSegments = 2
    DynamicLps = TRUE
    FixedGrid = TRUE
    SnrChecked = TRUE
    SnrBandwidths = {0, 50, 100}
    Predictions <- NoModel
    MaxReqs = 3
    MaxIters = 1
INVARIANTS
    HoldsItsPlan
    PlanCarriesBandwidth
