SPECIFICATION FairSpec
CONSTANTS
    alice = alice
    bob = bob
    root = root
    r1 = r1
    r2 = r2
    seven = seven
    padded = padded
    junk = junk
    h1 = h1
    h2 = h2
    h3 = h3
    NoUser = NoUser
    Users = {alice, bob}
    Admins = {}
    Groups = {7}
    GroupIds = {seven, padded, junk}
    ParseInt <- Spelled
    Routes <- OneRoute
    Requests = {r1, r2}
    Legacy = {r1}
    Handlers = {h1, h2}
    MaxStarts = 2
    Faults = FALSE
INVARIANTS
    OneActivePerScope
PROPERTIES
    ResetEnds
CHECK_DEADLOCK FALSE
