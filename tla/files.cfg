SPECIFICATION Spec
CONSTANTS
    Proc = {p1, p2}
    File = {f1, f2}
    MaxFd = 2
    MaxFail = 2
    CountBits = 4
    NULL = NULL
SYMMETRY Symmetry
INVARIANTS TablesSafe
CHECK_DEADLOCK FALSE
