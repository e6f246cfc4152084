SPECIFICATION CheckerSpec
CONSTANTS
    Paths = {"A", "B", "C"}
    Names = {"a", "b", "c"}
    Vars = {"v"}
    Contents <- MCContents
    Workspaces <- MCWorkspaces
    MaxEdits = 2
    Slots = {"x", "tx"}
    Canonical = {"x", "y"}
    CanonOf <- MCCanonOf
    None = None
    ReturnNames = {}
    InitialScopes <- MCScopes
    InitialTests <- MCTests
    Operations <- MCOperations
    MaxWrites = 2
    MaxIfs = 2
    MaxDepth = 2
INVARIANTS JournalRestores DeltaExact
PROPERTIES MatchesClones ImplementsButDefaults KeepsColdState
CHECK_DEADLOCK FALSE
