SPECIFICATION FairSpec
CONSTANTS
    t1 = t1
    t2 = t2
    t3 = t3
    Thd = {t1, t2}
    Owner = t1
    Poller = Poller
    NoThd = NoThd
    Polling = FALSE
    Selected = {t1, t2}
    Unborn = {}
    Spawners = {}
    Exiters = {t2}
    Reused = {}
    Coordinated = FALSE
    MaxCalls = 2
PROPERTY CallsReturn
CHECK_DEADLOCK FALSE
