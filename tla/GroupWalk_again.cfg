SPECIFICATION Spec
CONSTANTS
    Object = {"root", "a", "b", "d", "root2", "x", "y"}
    Root = "root"
    RootOf <- HomeOrAway
    AddressOf <- Addresses
    Names = 5
    LinkLimit = 2
    File <- HardFiles
    Kinds = {"das"}
    None = None
INVARIANT
    WalkIsComplete
