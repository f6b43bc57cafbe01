SPECIFICATION Spec
CONSTANTS
    Files <- MCFiles
    DimOrder <- MCDimOrder
    DmrLongInt = FALSE
    CheckNameClashing = TRUE
CHECK_DEADLOCK FALSE
INVARIANTS
    UniqueNames
    DimensionsAgree
    CoordinatesFound
