SPECIFICATION FairSpec
CONSTANTS
    Node <- MCNode
    Link <- MCLink
    LinkLength <- MCLength
    Band <- MCBand
    BandList <- MCBandList
    BandSlots <- MCBandSlots
    CoresPerLink = 1
    GuardSlots = 1
    AllocationMethod = "first_fit"
    SpectrumPriority = "None"
    None = None
    Bandwidth <- MCBw
    ModPerBw <- MCMods
    RouteMethod = "k_shortest_path"
    PreCalcMods = FALSE
    NoMod = NoMod
    Pairs <- MCPairs
    Routes <- MCRoutes
    Configs <- MCConfigs
    SnapshotStep = 2
    KPaths = 2
    PathLevels = 2
    MaxIters = 2
    NumRequests = 3
    Reward = 1
    Penalty <- MCPenalty
    Unit = 4
    EpsilonStart = 2
    EpsilonEnd = 1
    AlphaStart = 2
    AlphaEnd = 1
    DecayRate <- Half
    DiscountFactor <- Half
    Scale = 491520
INVARIANTS
    HeldAreDue
    LearnedFromRewards
    EpsilonFollowsHistory
    OnlySnapshotsRaise
PROPERTIES
    TrainingEnds
