CONSTANTS
    s1 = s1
    s2 = s2
    Starts <- MCStarts
    Models <- MCModels
    Size <- MCSize
    Readable <- MCReadable
    Machines <- MCMachines
    Enumerations <- MCEnumerations
    Cards <- MCCards
    Requests = {"AUTO", "NPU", "gpu"}
    Words = {"energy", "latency"}
    Ceiling = 2
    MaxChanges = 1
SPECIFICATION Spec
SYMMETRY Symmetry
INVARIANTS
    RememberedTrialsAreComplete
    OffOnlyWhenNothingRuns
    NothingBetterIsPassedOver
CHECK_DEADLOCK FALSE
