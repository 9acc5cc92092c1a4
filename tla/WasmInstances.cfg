SPECIFICATION Spec
CONSTANTS
    Threads = {t1, t2}
    Tbs = {p1, p2}
    NULL = NULL
    MaxAlive = 3
    InstantiateNum = 1
    MaxGen = 1
SYMMETRY Symmetry
INVARIANTS RunsOwnCode CollectedWereDropped RingIsRunning AliveWithinLimit
