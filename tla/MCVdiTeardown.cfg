CONSTANTS
    t1 = t1  t2 = t2  t3 = t3  p1 = p1  p2 = p2
    Nobody = Nobody
    Thread = {t1, t2}
    Process = {p1}
    ProcessOf <- PairOfOne
    CallMax = 2
    Faults = {"overlap"}
SPECIFICATION Spec
INVARIANT TeardownIsLast
CHECK_DEADLOCK FALSE
