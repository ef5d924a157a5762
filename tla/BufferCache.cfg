SPECIFICATION Spec
CONSTANTS
    Procs = {p1, p2}
    Bufs = {b1, b2}
    Blocks = {k1, k2, k3}
    Data = {d1, d2}
    Nums = {4, 8}
    IdxMod = 8
    NoBuf = NoBuf
    NoBlock = NoBlock
    NoProc = NoProc
SYMMETRY Symmetry
INVARIANTS
    SleepsForAReason
PROPERTIES
    ImplementsBlockStore
