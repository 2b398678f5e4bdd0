SPECIFICATION Spec
CONSTANTS
    a = a
    b = b
    relay = relay
    local = local
    q1 = q1
    w1 = w1
    w2 = w2
    Commits = {a, b}
    RelayGroups = {}
    LocalGroups = {local}
    Plan <- AmendedLate
    Requests = {}
    GroupOf <- OwnedByRelay
    Tokens <- TokensOf
    Usages = {1, 2}
    Rewrites <- Amended
    Workers = {}
INVARIANTS
    Conserved
CHECK_DEADLOCK FALSE
