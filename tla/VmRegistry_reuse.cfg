SPECIFICATION Spec
CONSTANTS
    t1 = t1
    t2 = t2
    a1 = a1
    a2 = a2
    a3 = a3
    Threads = {t1, t2}
    Addrs = {a1, a2, a3}
    Arena <- SharedArena
    MaxVms = 3
    Free = Free
    Absent = Absent
    None = None
    Panic = Panic
    Lost = Lost
INVARIANTS CompileErrorCaptured
CHECK_DEADLOCK FALSE
