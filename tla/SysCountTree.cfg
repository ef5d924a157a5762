SPECIFICATION Spec
CONSTANTS
    NPROC = 4
    Nums = {"fork", "wait", "getSysCount"}
    CmdCalls = {"getpid", "fork", "exec", "exit", "kill", "wait", "waitx", "getSysCount"}
    MaxMade = 4
    BadAddress = TRUE
INVARIANTS
    Conserved
    AnswerSound
CHECK_DEADLOCK FALSE
