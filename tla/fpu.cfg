SPECIFICATION FpuSpec
CONSTANTS
    c1 = c1
    c2 = c2
    t1 = t1
    t2 = t2
    t3 = t3
    t4 = t4
    CPU = {c1, c2}
    Thread = {t1, t2, t3, t4}
    Home <- Homes
    Idle = Idle
    Users = {t1, t2, t4}
    Callers = {t1, t3}
    MaxWrites = 2
    NULL = NULL
INVARIANTS Kept
