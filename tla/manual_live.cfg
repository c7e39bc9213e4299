SPECIFICATION FairSpec
CONSTANTS
    t1 = t1
    t2 = t2
    t3 = t3
    Thd = {t1, t2}
    Owner = t1
    Poller = Poller
    NoThd = NoThd
    Polling = FALSE
    Selected = {t1, t2}
    Unborn = {}
    Spawners = {t1, t2}
    Exiters = {t2}
    Reused = {}
    Coordinated = TRUE
    MaxCalls = 3
INVARIANT QuiescentDisarmed
PROPERTY CallsReturn
PROPERTY TeardownCompletes
PROPERTY Rearmed
CHECK_DEADLOCK FALSE
