SPECIFICATION Spec
CONSTANTS
    Arrays0 <- MCArrays0
    Vals = {1, 2}
    Convertible = {1}
    Ops = {"sort", "csort", "map", "apply", "filter", "reduce", "ireduce"}
    Objs = {8, 9}
    MinCap = 0
    MaxLen = 4
    MaxSteps = 3
    Nil = Nil
INVARIANTS TypeOK SortInRange SortKeepsItems Computes
PROPERTIES JobsEnd IterEndsOrFails
CHECK_DEADLOCK FALSE
