INIT Init
NEXT Next
CONSTANTS
    None = None
    Harts = {h1, h2}
    Threads = {p, q}
    INPUT_BUF_SIZE = 2
    WRAP = 4
    UART_TX_BUF_SIZE = 2
    FIFO = 2
    Inputs <- MCInputs
    Counts = {2}
    Starts <- MCStarts
    MaxCalls = 2
SYMMETRY Symmetry
INVARIANTS
    InterruptsNest
    RingSound
    OutputExact
    SleepsForAReason
PROPERTIES
    ImplementsTerminal
