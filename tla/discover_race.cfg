SPECIFICATION Spec
CONSTANTS
    t1 = t1
    t2 = t2
    t3 = t3
    Thd = {t1, t2, t3}
    Owner = t1
    Poller = Poller
    NoThd = NoThd
    Strategies = {"None"}
    Unborn = {t3}
    Mortal = {}
    Rescanners = {t1, t2}
    Gens = 3
    MaxRescans = 2
INVARIANT ReportedOnce
CHECK_DEADLOCK FALSE
