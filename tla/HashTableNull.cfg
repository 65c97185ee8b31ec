\* NULL as a value, as t/test_hash_table.c:14 puts it.
CONSTANTS
    k1 = k1
    k2 = k2
    k3 = k3
    k4 = k4
    Keys = {k1, k2}
    Vals = {v1, NULL}
    NULL = NULL
    Hash <- MCHash
    InitialSizes = {0, 1, 2, 4}
    DefaultHashPower = 2
    UIntRange = 256
SPECIFICATION Spec
PROPERTY
    PutThenGet
