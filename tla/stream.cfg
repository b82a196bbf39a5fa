CONSTANTS
    MaxLength = 6
SPECIFICATION Spec
INVARIANTS
    EveryByteInOrder
    EventsAreInspectedWhole
    NothingCompleteIsHeld
CHECK_DEADLOCK FALSE
