SPECIFICATION LedgerSpec
CONSTANTS
    t1 = t1
    t2 = t2
    e1 = e1
    MaxJobs = 2
    Works <- MCWorks
    Handled <- MCWorks
    MaxAttempts <- MCMaxAttempts
    Ticks = {t1, t2}
    Callers = {e1}
    MaxCrashes = 1
    WritesFail = FALSE
    PromptClaim = TRUE
    DeviceRequests = {"laptop", "phone"}
    Purchases = {"purchase"}
    Over = {"purchase"}
    MaxSyncs = 1
INVARIANTS
    NoRowIsLost
PROPERTIES
    EveryJobEnds
CHECK_DEADLOCK FALSE
