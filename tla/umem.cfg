SPECIFICATION Spec
CONSTANTS
    Proc = {p1, p2}
    NoOne = NoOne
    Frames = 12
    Unit = 2
    Code = 1
    Heap = 1
    Stack = 3
    MaxLoads = 3
    Loads = {"good", "bad", "nothread"}
SYMMETRY Symmetry
INVARIANTS SpacesSafe
PROPERTIES KeepsMemory ForkCopiesAll
CHECK_DEADLOCK FALSE
CONSTRAINT Claimed
VIEW View
