CONSTANTS
    h1 = h1
    h2 = h2
    Handlers = {h1, h2}
    Events <- MCEvents
    BatchMax = 2
    MaxFailedWrites = 1
    DayLength = 10
    Inspection <- MCInspection
    Context <- MCContext
    Clock <- MCClock
    Version <- MCVersion
    ModelNames <- MCModelNames
SPECIFICATION Spec
INVARIANTS
    ExportedOnceInOrder
    EverySinkIsOffered
    LinesDoNotInterleave
    TheReportOwnsUp
    EveryDatagramReadsBack
PROPERTY
    QueueIsExported
