SPECIFICATION Spec
CONSTANTS
    File <- AllFiles
    MaxLeft = 2
    None = None
INVARIANTS
    DimensionsMapped
