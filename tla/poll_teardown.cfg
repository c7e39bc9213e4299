SPECIFICATION Spec
CONSTANTS
    t1 = t1
    t2 = t2
    t3 = t3
    Thd = {t1, t2}
    Owner = t1
    Poller = Poller
    NoThd = NoThd
    Polling = TRUE
    Selected = {t1, t2}
    Unborn = {t2}
    Spawners = {t1}
    Exiters = {}
    Reused = {}
    Coordinated = FALSE
    MaxCalls = 0
INVARIANT TeardownFindsNone
CHECK_DEADLOCK FALSE
