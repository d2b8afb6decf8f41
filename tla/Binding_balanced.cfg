SPECIFICATION Spec
CONSTANTS
    i1 = i1
    i2 = i2
    i3 = i3
    Iters = {i1}
    TableSize = 1
    MaxArgs = 1
    MaxDepth = 5
    FrameSizes = {4, 9}
    Unused = {}
    Nested = FALSE
    Suspends = TRUE
    None = None
PROPERTIES MethodsBalanced
CHECK_DEADLOCK FALSE
