CONSTANTS
    Elements <- MixedElements
    Descending = TRUE
    MaxLen = 4
SPECIFICATION Spec
PROPERTY CutsAtIndex
CHECK_DEADLOCK FALSE
