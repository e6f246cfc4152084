SPECIFICATION Spec
CONSTANTS
    Uris <- MCUris
    Paths = {"p"}
    PathOf <- MCPathOf
    DisplayUri <- MCDisplayUri
    Callers = {"first", "second"}
    Plans <- MCPlans
    MaxEdits = 3
    MaxStubs = 1
    MaxPasses = 3
    ConfigPaths = {"a", "b"}
    MaxRefreshes = 4
    MaxMessages = 4
    Concurrency = 2
    Binaries <- MCBinaries
    Bundled = "bundled"
    Levels = {"warn", "debug"}
    Budget = 3
    Reverts = FALSE
INVARIANTS ServerCurrent NoOrphan RequestsServed KeepsServing StatusTruthful StoppedForGood CachesCurrent WatchersCurrent ResultFollowsProtocol
PROPERTIES AnswersCurrent Ends
CHECK_DEADLOCK FALSE
