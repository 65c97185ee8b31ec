\* Four keys, two values; creation sizes 0 (the default, here 3), 1, 2 and 4.
CONSTANTS
    k1 = k1
    k2 = k2
    k3 = k3
    k4 = k4
    Keys = {k1, k2, k3, k4}
    Vals = {v1, v2}
    NULL = NULL
    Hash <- MCHash
    InitialSizes = {0, 1, 2, 4}
    DefaultHashPower = 2
    UIntRange = 256
SPECIFICATION Spec
INVARIANTS
    TypeOK
    Placed
    UniqueKeys
    FullCounts
    RoomLeft
    ResizeCopies
    PutInProgress
PROPERTIES
    ImplementsDictionary
    PutReturns
