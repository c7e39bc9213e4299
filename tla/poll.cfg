SPECIFICATION FairSpec
CONSTANTS
    t1 = t1
    t2 = t2
    t3 = t3
    Thd = {t1, t2, t3}
    Owner = t1
    Poller = Poller
    NoThd = NoThd
    Polling = TRUE
    Selected = {t1, t2, t3}
    Unborn = {t3}
    Spawners = {t1}
    Exiters = {t2, t3}
    Reused = {}
    Coordinated = FALSE
    MaxCalls = 1
INVARIANT StPointerValid
INVARIANT CoordTaken
PROPERTY NewThreadsInjected
CHECK_DEADLOCK FALSE
