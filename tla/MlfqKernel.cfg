SPECIFICATION Spec
CONSTANTS
    NPROC = 3
    timesliceq <- MCSlices
    BoostPeriod = 1
    TickMod = 2
    MaxPid = 4
    Calls <- Programs
    KillPids = {0, 2}
    SleepArgs = {0, 1}
INVARIANTS
    QueueExact
    SliceKept
    SleepsForAReason
    ParentAlive
