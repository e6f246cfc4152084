SPECIFICATION LoopSpec
CONSTANTS
    Sources = {"a"}
    Texts = {"t", "u"}
    Excludes <- MCExcludes
    Entries = {"e"}
    EarlyEdits = TRUE
    Budget = 3
INVARIANTS UpToDate
CHECK_DEADLOCK FALSE
