CONSTANTS
    r1 = r1
    r2 = r2
    Requests = {r1, r2}
    Payloads <- MCPayloads
    Configs <- MCConfigs
    MaxParts = 2
SPECIFICATION MCSpec
INVARIANTS
    NoClearLeak
    SentIsAudited
    TrailTellsTheTruth
    FailClosedIsAllOrNothing
    OnlyProvenDataBlocks
PROPERTIES
    ImplementsGate
    EveryInspectionEnds
