SPECIFICATION Spec
CONSTANTS
    i1 = i1
    i2 = i2
    i3 = i3
    Iters = {i1, i2, i3}
    TableSize = 3
    MaxArgs = 2
    MaxDepth = 8
    FrameSizes = {4}
    Unused = {"Array::insert", "Instance::raw_set"}
    Nested = TRUE
    Suspends = FALSE
    None = None
INVARIANTS TypeOK StackIsIterators IterComplete
