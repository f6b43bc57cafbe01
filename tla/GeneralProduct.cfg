SPECIFICATION Spec
CONSTANTS
    Files <- MCFiles
    NameOrder <- MCNameOrder
    Configs <- MCConfigs
CHECK_DEADLOCK FALSE
INVARIANTS
    UniqueNames
    SameNames
    DimensionsKeepTheirIdentity
    NothingLost
    OneCVPerDimension
    CoordinatesKept
    CoordinatesFound
