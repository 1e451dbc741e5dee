SPECIFICATION FairSpec
CONSTANTS
    Bandwidth = {50}
    Mod = {"QPSK"}
    NumRequests = 2
    SnapshotStep = 2
    Threads = {"s1", "s2"}
    GeneralSettings <- MCGeneral
    Section <- MCSection
    CommandLine <- MCCommandLine
    Interruptible = {"s1"}
INVARIANTS
    FailsAlone
    SavedWhenFinished
PROPERTIES
    BatchEnds
