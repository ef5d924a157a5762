SPECIFICATION FairSpec
CONSTANTS
    Harts = {"c0", "c1"}
    Hart0 = "c0"
    NPROC = 2
    Policies = {"RR", "LBS"}
    Tickets = {0, 1}
    MaxTicks = 1
    Ops = {"sleep", "exit", "fork", "settickets"}
INVARIANTS
    OneHart
    WaitTimeBounded
PROPERTIES
    LotteryRule
    Served
