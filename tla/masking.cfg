CONSTANTS
    Length = 5
    MaxSpans = 3
SPECIFICATION Spec
INVARIANTS
    OnlySpansAreReplaced
    NoFindingIsLeftWhole
CHECK_DEADLOCK FALSE
