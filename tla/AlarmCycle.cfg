SPECIFICATION FairSpec
CONSTANTS
    p = p
    q = q
    r0 = r0
    r1 = r1
    g1 = g1
    NoPage = NoPage
    Slots <- MCSlots
    Pages = {g1}
    Intervals = {0, 2}
    Handlers = {"h"}
    Regs <- MCRegs
    MaxTicks = 2
    MainCalls = {"exit", "exec", "sigalarm"}
    HandlerCalls = {"exit", "exec", "sigalarm", "sigreturn"}
INVARIANTS
    FramesOwned
    ContextKept
PROPERTIES
    AlarmsSpaced
    AlarmComes
CHECK_DEADLOCK FALSE
