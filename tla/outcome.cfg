SPECIFICATION Spec
CONSTANTS
    t1 = t1
    t2 = t2
    NoThd = NoThd
    NULL = NULL
    Denom = 4
    IntMax = 3
    SYS_exit = 60
    SYS_nanosleep = 35
    SYS_rt_sigprocmask = 14
    SYS_rt_sigreturn = 15
    SigsysSets <- MCSigsysSets
    EINTR = 4
    Ok = 1000
    MaxDepth = 3
    MaxOps = 2
    Thd = {t1, t2}
    Unborn = {t2}
    CPlans <- MCCPlans
    MemMaps <- MCMemMaps
    Calls <- MCCalls
INVARIANT TypeOK
INVARIANT OutcomeAsPlanned
INVARIANT ExecutedAsCalled
INVARIANT SharesMatchWeights
INVARIANT FailsWhenDrawn
INVARIANT DelayedAsDrawn
PROPERTY Answered
CHECK_DEADLOCK FALSE
