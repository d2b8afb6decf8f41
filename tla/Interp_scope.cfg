SPECIFICATION Spec
CONSTANTS
    IntBits = 16
    CIntBits = 8
    ArgBits = 8
    Programs <- C_ScopePrograms
    Compiled <- C_Compiled
    Inputs <- C_Inputs
    StackSize = 20
    StackOverhead = 15
    MaxNativeCalls = 12
INVARIANTS
    RunsAsWritten
