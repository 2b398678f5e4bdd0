SPECIFICATION FairSpec
CONSTANTS
    n1 = n1
    n2 = n2
    c1 = c1
    c2 = c2
    c3 = c3
    l1 = l1
    l2 = l2
    l3 = l3
    NoLoad = NoLoad
    Nodes = {n1, n2}
    Loads = {l1, l2}
    Callers = {c1, c3}
    MaxRevision = 0
    Keys <- MCKeys
    Home <- MCHome
    Faults = {"timeout", "crash", "redis", "database"}
PROPERTIES
    LeaseEndsByOwner
    CallsReturn
CHECK_DEADLOCK FALSE
