SPECIFICATION Spec
CONSTANTS
    SizeLimit = 64
    Blank = 0
    Inputs <- MCInputs
INVARIANTS
    CacheSelection
    ComputedSelection
    ComputedValues
    ObjectSelection
    DasSurvives
    ListsMatch
    MetadataJoined
    ResponsesAgree
    GridMappingsResolve
    AttributesFit
