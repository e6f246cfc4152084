SPECIFICATION Spec
CONSTANTS
    Sources = {"a"}
    Texts = {"t", "u"}
    Excludes <- MCExcludes
    Entries = {"e"}
    EarlyEdits = FALSE
    Budget = 2
    Modules = {"a", "b", "c"}
    Files = {"a", "b"}
    Graphs <- MCGraphs
    Checkers = {"p", "q"}
    Sheets = {"a", "tests/b"}
    Demoted = {"tests/b"}
    SheetLines <- MCLines
    Projects <- MCProjects
    Options <- MCOptions
    MaxRevisions = 2
INVARIANTS UpToDate NoReentry CacheIndependent SurplusReported AuditsTruthful
PROPERTIES KeepsPromise PassesEnd
CHECK_DEADLOCK FALSE
