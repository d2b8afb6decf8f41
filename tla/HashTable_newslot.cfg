SPECIFICATION Spec
CONSTANTS
    k1 = k1
    k2 = k2
    k3 = k3
    k4 = k4
    v1 = v1
    v2 = v2
    Keys = {k1, k2, k3, k4}
    Hash <- CollidingHash
    Vals = {v1, v2}
    Sizes = {0, 5}
    MaxNodes = 8
    Programs <- MCPrograms
    Null = Null
    Nil = Nil
PROPERTIES ReportsNewSlots
