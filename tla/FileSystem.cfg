SPECIFICATION Spec
CONSTANTS
    NBLOCKS = 8
    NDIRECT = 1
    NINDIRECT = 1
    BSIZE = 3
    Procs = {"p", "q"}
    NINODES = 4
    NFILE = 2
    NOFILE = 2
    MAXWRITE = 3
    Calls <- MCCalls
    Counts = {5}
    MaxCalls = 3
    Images <- MCImages
INVARIANTS
    BlocksExact
    TablesExact
    TreeSound
    LocksSound
PROPERTIES
    LinksExact
