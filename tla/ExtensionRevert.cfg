SPECIFICATION ExtensionSpec
CONSTANTS
    Binaries <- MCBinaries
    Bundled = "bundled"
    Levels = {"warn", "debug"}
    Budget = 3
    Reverts = TRUE
INVARIANTS ServerCurrent
CHECK_DEADLOCK FALSE
