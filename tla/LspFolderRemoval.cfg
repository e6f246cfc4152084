SPECIFICATION Spec
CONSTANTS
    Uris <- MCUris
    Paths <- MCPaths
    PathOf <- MCPathOf
    DisplayUri <- MCDisplayUri
    Roots <- MCRoots
    Inside <- MCInside
    Depth <- MCDepth
    Excludes <- MCExcludes
    Texts = {"plain", "uses", "defines", "large"}
    MaxQueue = 3
    Scenarios <- RemovalScenarios
INVARIANTS ShowsFresh
CHECK_DEADLOCK FALSE
