CONSTANTS
    Calls = {c1, c2, c3, c4}
SPECIFICATION Spec
INVARIANTS
    PendingIsHeld
PROPERTIES
    LateAnswerIsDiscarded
    QueueDrains
