SPECIFICATION FairSpec
CONSTANTS
    w1 = w1
    w2 = w2
    h1 = h1
    h2 = h2
    h3 = h3
    m = m
    r1 = r1
    r2 = r2
    r3 = r3
    r4 = r4
    r5 = r5
    None = None
    NoTask = NoTask
    Workspaces = {w1, w2}
    Hooks = {h1, h2, h3, m}
    Manual = {m}
    Home <- Homes
    Runners = {r1, r2, r3, r4, r5}
    FaultKinds = {"crash", "contention", "checkout", "pass", "spawn"}
    Bounds <- SomeBounds
INVARIANTS
    IInv
    PassesAreSerial
PROPERTIES
    WorkIsDone
CHECK_DEADLOCK FALSE
