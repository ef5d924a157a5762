\* Three processes that fork and then only compute.
SPECIFICATION BoostSpec
CONSTANTS
    NPROC = 3
    timesliceq <- MCSlices
    BoostPeriod = 3
    TickMod = 3
    MaxPid = 3
    Calls <- Computing
    KillPids = {}
    SleepArgs = {}
INVARIANTS
    LoopsAgree
    LiftedSoon
PROPERTIES
    KeepsHartOnlyIfFirst
    EveryoneRuns
