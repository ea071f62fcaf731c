CONSTANTS
    Elements <- MixedElements
    Descending = TRUE
    MaxLen = 4
SPECIFICATION Spec
PROPERTY RemoveById
CHECK_DEADLOCK FALSE
