SPECIFICATION VmmSpec
CONSTANTS
    CPU = {c1, c2}
    Window = {"pool", "shm"}
    WinPages = 2
    Frames = 3
    MaxRegion = 2
    NULL = NULL
SYMMETRY Symmetry
INVARIANTS WindowsSafe
