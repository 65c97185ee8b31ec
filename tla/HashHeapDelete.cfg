\* A client that deletes, as the preprocessor does for an undefined macro.
CONSTANTS
    k1 = k1
    k2 = k2
    k3 = k3
    Keys = {k1, k2, k3}
    Vals = {v1, v2}
    NULL = NULL
    Hash <- MCHash
    Size = 5
    MaxCells = 7
    Zeroing = FALSE
    ClientDeletes = TRUE
    Lives = 1
SPECIFICATION Spec
INVARIANT
    OwnChains
CHECK_DEADLOCK FALSE
