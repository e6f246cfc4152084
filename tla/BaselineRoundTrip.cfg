INIT ReportInit
NEXT ReportNext
CONSTANTS
    Sheets = {"a", "tests/b"}
    Demoted = {"tests/b"}
    SheetLines <- MCLines
    Projects <- MCProjects
    Options <- MCOptions
    MaxRevisions = 2
INVARIANTS AcceptedStayHidden
CHECK_DEADLOCK FALSE
