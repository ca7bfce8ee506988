SPECIFICATION Spec
CONSTANTS
    PageSize = 4
    MemoryMaps <- Maps
    Kernels <- AlignedKernels
    Client = {c1, c2}
    MaxRun = 3
SYMMETRY Symmetry
INVARIANTS Exclusive SystemReserved
PROPERTIES Implements
CHECK_DEADLOCK FALSE
