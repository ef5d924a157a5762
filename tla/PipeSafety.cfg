SPECIFICATION Spec
CONSTANTS
    Procs = {p1, p2, p3}
    Bytes = {0, 1}
    PIPESIZE = 2
    UintMod = 4
    Counts = {3}
    KillInside = FALSE
    NoProc = NoProc
    NoByte = NoByte
SYMMETRY Symmetry
INVARIANTS
    PageInUse
    SleepsForAReason
PROPERTIES
    ImplementsChannel
CHECK_DEADLOCK FALSE
