SPECIFICATION Spec
CONSTANTS
    t1 = t1
    t2 = t2
    e1 = e1
    e2 = e2
    MaxJobs = 2
    Works <- MCWorks
    Handled <- MCHandled
    MaxAttempts <- MCMaxAttempts
    Ticks = {t1, t2}
    Callers = {e1, e2}
    MaxCrashes = 1
    WritesFail = TRUE
    PromptClaim = TRUE
SYMMETRY Symmetry
INVARIANTS
    TypeOK
    OneTickPerJob
    OutcomeIsEarned
    AttemptsWithinBudget
PROPERTIES
    FollowsJobOutcome
CHECK_DEADLOCK FALSE
