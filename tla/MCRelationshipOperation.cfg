SPECIFICATION Spec
CONSTANTS
    m1 = m1
    m2 = m2
    k1 = k1
    k2 = k2
    e1 = e1
    e2 = e2
    None = None
    Mappings = {m1, m2}
    Keys = {k1, k2}
    Executors = {e1, e2}
    Plans <- Moves
    MaxAttempts = 3
    Faults = {"database", "relay", "missing", "crash", "reply"}
    MaxFaults = 2
SYMMETRY Symmetry
INVARIANTS
    TypeOK
    OneWriter
    OpenIsRecoverable
    AlignedWhenFree
    PromotedOnce
PROPERTIES
    ImplementsPromise
CHECK_DEADLOCK FALSE
