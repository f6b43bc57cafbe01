SPECIFICATION Spec
CONSTANTS
    Var <- AllVars
    Protocol = {FALSE}
    SrCache = TRUE
    LrCache = TRUE
    CommonDirs = TRUE
    UseDisk = TRUE
    CompressedOnly = FALSE
    FloatOnly = FALSE
    VarSize = 0
    LatLonDisk = FALSE
INVARIANTS
    ServedIsData
