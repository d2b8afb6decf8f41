SPECIFICATION Spec
CONSTANTS
    i1 = i1
    i2 = i2
    i3 = i3
    Iters = {i1, i2}
    TableSize = 2
    MaxArgs = 2
    MaxDepth = 8
    FrameSizes = {4}
    Unused = {"Array::insert", "Instance::raw_set"}
    Nested = FALSE
    Suspends = FALSE
    None = None
INVARIANTS IterComplete
CHECK_DEADLOCK FALSE
