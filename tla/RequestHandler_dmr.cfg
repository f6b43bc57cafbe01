SPECIFICATION Spec
CONSTANTS
    f1 = f1
    f2 = f2
    n1 = n1
    n2 = n2
    Absent = Absent
    Garbled = Garbled
    File = {f1, f2}
    Name = {n1, n2}
    BaseName <- TwoNames
    MaxVersion = 1
    Configs <- DmrConfigs
    Faults <- ReadFaults
INVARIANTS
    MappingTarget
    DMRHas64BitIntegers
    IncludeAttributesFlag
    HandleOwnership
