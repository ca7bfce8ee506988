\* Five clusters, a file and a directory that come and go beside the kernel.
SPECIFICATION Spec
CONSTANTS
    Last = 6
    Table = 6
    Slots = 4
    Sectors = 2
    Cells = 2
    Name <- Names
    Short <- Shorts
    Entries <- TwoEach
    Calls <- Program
    MaxSize = 3
    MaxCrash = 1
    MaxFail = 1
CONSTRAINT Claimed
INVARIANTS VolumeSafe NothingLost 
