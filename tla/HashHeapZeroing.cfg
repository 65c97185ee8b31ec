\* A client that deletes and creates a second table, over an allocator that
\* clears the memory it recycles.
CONSTANTS
    k1 = k1
    k2 = k2
    k3 = k3
    Keys = {k1, k2, k3}
    Vals = {v1}
    NULL = NULL
    Hash <- MCHash
    Size = 5
    MaxCells = 7
    Zeroing = TRUE
    ClientDeletes = TRUE
    Lives = 2
SPECIFICATION Spec
INVARIANTS
    OwnChains
    CellsAccounted
PROPERTIES
    ImplementsDictionary
CHECK_DEADLOCK FALSE
