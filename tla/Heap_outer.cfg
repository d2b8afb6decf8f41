SPECIFICATION Spec
CONSTANTS
    Cells = {0, 1, 2, 3}
    Root = 0
    RefSlots = 4
    Programs <- OuterPrograms
    MaxHeld = 2
    None = None
INVARIANT FindsCycles
CHECK_DEADLOCK FALSE
