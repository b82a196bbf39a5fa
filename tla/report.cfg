CONSTANTS
    DayLength = 10
    Trails <- MCTrails
    OutOf <- SameDirectory
    Live = "live"
    LineKinds <- MCLineKinds
    Archived <- MCArchived
    MaxLines = 3
SPECIFICATION ReportSpec
INVARIANTS
    TheReportIsOfTheWholeTrail
    TheReportOfferedIsTheOneShown
