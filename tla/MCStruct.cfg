SPECIFICATION Spec
CONSTANTS
    Descriptors <- MCDescriptors
    Top = "T"
    Val = {0, 1}
    s1 = s1
    s2 = s2
    Slot = {s1, s2}
SYMMETRY Symmetric
INVARIANTS
    MemorySound
    StaticAgrees
    OperationsMean
    OrderIsTotal
    DiffSuffices
