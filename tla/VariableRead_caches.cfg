SPECIFICATION Spec
CONSTANTS
    Var <- AllVars
    Protocol = {FALSE}
    SrCache = TRUE
    LrCache = TRUE
    CommonDirs = TRUE
    UseDisk = TRUE
    CompressedOnly = TRUE
    FloatOnly = FALSE
    VarSize = 2
    LatLonDisk = TRUE
INVARIANTS
    TypeOK ServedIsData
PROPERTIES
    SecondFetch
