SPECIFICATION FairSpec
CONSTANTS
    Process = {p1, p2, p3}
    Blocks = 3
    MaxMishaps = 1
INVARIANTS
    TypeOK
    QuiescentComplete
PROPERTIES
    Implements
    ReaderProceeds
