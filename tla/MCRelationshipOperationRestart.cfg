SPECIFICATION FairSpec
CONSTANTS
    m1 = m1
    m2 = m2
    k1 = k1
    k2 = k2
    e1 = e1
    e2 = e2
    None = None
    Mappings = {m1, m2}
    Keys = {k1}
    Executors = {e1, e2}
    Plans <- OneMove
    MaxAttempts = 2
    Faults = {"crash"}
    MaxFaults = 1
PROPERTIES
    AbandonedSettles
CHECK_DEADLOCK FALSE
