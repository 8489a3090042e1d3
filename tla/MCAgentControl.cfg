SPECIFICATION Spec
CONSTANTS
    t1 = t1
    t2 = t2
    t3 = t3
    p1 = p1
    p2 = p2
    p3 = p3
    root = root
    Threads = {root, t1, t2, t3}
    Root = root
    Paths = {p1, p2, p3}
    Calls = {c1, c2, c3}
    Capacity = 2
    Spawned <- OneSpawned
    SpawnedPath <- OnePath
SYMMETRY CallSymmetry
INVARIANTS
    TypeOK
    AgentLimitHolds
    ReservationsHeld
    
CHECK_DEADLOCK FALSE
