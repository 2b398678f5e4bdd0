SPECIFICATION Spec
CONSTANTS
    n1 = n1
    n2 = n2
    c1 = c1
    c2 = c2
    c3 = c3
    l1 = l1
    l2 = l2
    l3 = l3
    NoLoad = NoLoad
    Nodes = {n1, n2}
    Loads = {l1, l2}
    Callers = {c1, c2}
    MaxRevision = 1
    Keys <- MCKeys
    Home <- MCHome
    Faults = {"context", "crash"}
SYMMETRY HomeSymmetry
INVARIANTS
    IInv
    FlightsAreShared
    CountsAreOneRevision
CHECK_DEADLOCK FALSE
