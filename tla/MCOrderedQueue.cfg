CONSTANTS
    Elements <- MixedElements
    Descending = FALSE
    MaxLen = 4
SPECIFICATION Spec
INVARIANTS TypeOK Sorted BisectionOK
PROPERTIES SearchTerminates RemoveFindsDistinct
CHECK_DEADLOCK FALSE
