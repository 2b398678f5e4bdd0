SPECIFICATION Spec
CONSTANTS
    alice = alice
    bob = bob
    root = root
    r1 = r1
    r2 = r2
    seven = seven
    padded = padded
    junk = junk
    h1 = h1
    h2 = h2
    h3 = h3
    NoUser = NoUser
    Users = {alice, bob, root}
    Admins = {root}
    Groups = {7}
    GroupIds = {seven}
    ParseInt <- Spelled
    Routes <- NestedRoutes
    Requests = {r1}
    Legacy = {}
    Handlers = {h1, h2, h3}
    MaxStarts = 2
    Faults = TRUE
SYMMETRY HandlerSymmetry
INVARIANTS
    FullInv
    ResetExclusive
    OneClosingDecision
    NoLostDecision
    ApprovalJustified
PROPERTIES
    RevisionTracksWorkItems
    ImplementsLifecycle
CHECK_DEADLOCK FALSE
