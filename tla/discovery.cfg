SPECIFICATION FairSpec
CONSTANTS
    t1 = t1
    t2 = t2
    t3 = t3
    Thd = {t1, t2, t3}
    Owner = t1
    Poller = Poller
    NoThd = NoThd
    Strategies = {"ProcPoll", "None"}
    Unborn = {t3}
    Mortal = {t2, t3}
    Rescanners = {t1}
    Gens = 3
    MaxRescans = 2
INVARIANT TypeOK
INVARIANT ReportedOnce
PROPERTY Announces
PROPERTY StopJoins
PROPERTY DeathReported
CHECK_DEADLOCK FALSE
