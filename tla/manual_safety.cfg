SPECIFICATION Spec
CONSTANTS
    t1 = t1
    t2 = t2
    t3 = t3
    Thd = {t1, t2, t3}
    Owner = t1
    Poller = Poller
    NoThd = NoThd
    Polling = FALSE
    Selected = {t1, t2}
    Unborn = {t3}
    Spawners = {t1, t2}
    Exiters = {t2}
    Reused = {t2}
    Coordinated = FALSE
    MaxCalls = 4
INVARIANT TypeOK
INVARIANT StPointerValid
INVARIANT CoordTaken
INVARIANT NoDanglingSelector
PROPERTY CallsTakeEffect
PROPERTY Implements
CHECK_DEADLOCK FALSE
INVARIANT TeardownFindsNone
