SPECIFICATION FairSpec
CONSTANTS
    Object = {"root", "a", "b", "d", "root2", "x", "y"}
    Root = "root"
    RootOf <- HomeOrAway
    AddressOf <- Addresses
    Names = 5
    LinkLimit = 2
    File <- SmallFiles
    Kinds = {"das", "dds", "dmr"}
    None = None
INVARIANTS
    CycleBroken
    FirstWalkIsComplete
    HardlinkNamesObject
PROPERTY
    WalkEnds
