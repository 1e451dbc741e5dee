SPECIFICATION FairSpec
CONSTANTS
    Nodes = {1, 2}
    Bandwidth = {50, 100}
    NumRequests = 4
    Distributions <- Shares
INVARIANTS
    InStep
    EngineOrder
PROPERTIES
    Returns
