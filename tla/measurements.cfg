SPECIFICATION MeasuredSpec
CONSTANTS
    Node <- MCNode
    Link <- MCLink
    LinkLength <- MCLength
    Pairs <- MCPairs
    Paths <- MCPaths
    Band <- MCBand
    BandList <- MCBandList
    BandSlots <- MCBandSlots
    CoresPerLink = 7
    GuardSlots = 1
    AllocationMethod = "first_fit"
    SpectrumPriority = "None"
    None = None
    SlotsNeeded = {1, 2}
    Forced <- MCForced
    MaxReqs = 3
    Bandwidth <- MCBw
    ModPerBw <- MCMods
    RouteMethod = "k_shortest_path"
    PreCalcMods = FALSE
    NoMod = NoMod
    LinkXt <- MCLinkXt
    RequestedXt <- MCRequestedXt
    SpanLength = 1
INVARIANTS
    CrossTalkMissesNobody
    LeastCongestedCarriesLeast
    XtRouteKeepsAway
    XciIsFinite
