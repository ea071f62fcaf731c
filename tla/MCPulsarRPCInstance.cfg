CONSTANTS
    Askers = {a1, a2}
    NoInstance = none
    DsnMayFail = FALSE
SPECIFICATION Spec
INVARIANT RequestsAfterSubscription
CHECK_DEADLOCK FALSE
