CONSTANTS
    t1 = t1  t2 = t2  t3 = t3  p1 = p1  p2 = p2
    Nobody = Nobody
    Thread = {t1, t2, t3}
    Process = {p1, p2}
    ProcessOf <- TwoAndOne
    CallMax = 2
    Faults = {"open", "pool", "setup", "common", "overlap", "fresh", "crash"}
SPECIFICATION Spec
INVARIANTS NoFileLeaked MutualExclusion SessionHasDevice TasksCounted AloneTearsDown
CHECK_DEADLOCK FALSE
