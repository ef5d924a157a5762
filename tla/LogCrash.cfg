SPECIFICATION Spec
CONSTANTS
    Procs = {p1, p2, p3}
    Blocks = {a, b, c}
    Data = {0, 1}
    NoBuf = NoBuf
    MAXOPBLOCKS = 2
    LOGSIZE = 4
    nlog = 4
    OpBlocks = 1
SYMMETRY Symmetry
INVARIANTS
    NoLogPanic
    SleepsForAReason
PROPERTIES
    ImplementsAtomicDisk
