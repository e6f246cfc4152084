SPECIFICATION FairSpec
CONSTANTS
    Uris <- MCUris
    Paths <- MCPaths
    PathOf <- MCPathOf
    DisplayUri <- MCDisplayUri
    Roots <- MCRoots
    Inside <- MCInside
    Depth <- MCDepth
    Excludes <- MCExcludes
    Texts = {"plain", "uses", "defines", "large"}
    MaxQueue = 3
    Scenarios <- SessionScenarios
INVARIANTS TypeOK Converged IndexCurrent SnapshotCurrent RequestsScheduled PendingIsOpen OnlyAnalysed Tracked
PROPERTIES SilentAfterShutdown Settles
CHECK_DEADLOCK FALSE
