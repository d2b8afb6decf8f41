SPECIFICATION Spec
CONSTANTS
    Cells = {0, 1, 2, 3, 4, 5}
    Root = 0
    RefSlots = 1
    Programs <- MCPrograms
    MaxHeld = 2
    None = None
INVARIANTS
    TypeOK RefsExact NoDangling ReleasedOnce HandlesExact PayloadOnce
    WeakLinks SweepsGarbage CollectsAll ClosesClean
PROPERTY Drains
CHECK_DEADLOCK FALSE
