SPECIFICATION FairSpec
CONSTANTS
    t1 = t1
    t2 = t2
    t3 = t3
    Thd = {t1, t2}
    Owner = t1
    Poller = Poller
    NoThd = NoThd
    Polling = FALSE
    Selected = {t1, t2}
    Unborn = {}
    Spawners = {t2}
    Exiters = {}
    Reused = {}
    Coordinated = FALSE
    MaxCalls = 2
PROPERTY TeardownCompletes
CHECK_DEADLOCK FALSE
