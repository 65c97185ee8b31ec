\* A client that never calls hash_table_delete, in a process with one table.
CONSTANTS
    k1 = k1
    k2 = k2
    k3 = k3
    Keys = {k1, k2, k3}
    Vals = {v1, v2}
    NULL = NULL
    Hash <- MCHash
    Size = 5
    MaxCells = 7
    Zeroing = FALSE
    ClientDeletes = FALSE
    Lives = 1
SPECIFICATION Spec
INVARIANTS
    TypeOK
    OwnChains
    CellsAccounted
PROPERTIES
    ImplementsDictionary
CHECK_DEADLOCK FALSE
