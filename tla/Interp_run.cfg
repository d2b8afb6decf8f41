SPECIFICATION Spec
CONSTANTS
    IntBits = 16
    CIntBits = 8
    ArgBits = 8
    Programs <- C_Programs
    Compiled <- C_Compiled
    Inputs <- C_Inputs
    StackSize = 28
    StackOverhead = 15
    MaxNativeCalls = 12
INVARIANTS
    TrapsBalanced
    OpenOuters
    StackInBounds
    GeneratorFrames
    CallsCounted
    InstanceLayout
    TargetsBalanced
    RunsAsWritten
