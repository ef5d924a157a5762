SPECIFICATION Spec
CONSTANTS
    N = 20
    Spare = {1, 4, 7, 10}
    Frames <- MCFrames
    Boot <- MCBoot
    Held <- MCHeld
    Procs = {1, 2}
    Init0 = 1
    PGSIZE = 2
    RADIX = 2
    MAXPAGE = 8
    MAXARG = 1
    MaxSz = 8
    Sizes = {3}
    Steps = {3}
    MaxCalls = 4
    ADDRS = 16
    WORD = 3
    CopyPages = 3
INVARIANTS
    NotShared
    NoneLost
    NoPanic
    CopiesExact
CHECK_DEADLOCK FALSE
