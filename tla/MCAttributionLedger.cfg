SPECIFICATION Spec
CONSTANTS
    a = a
    b = b
    relay = relay
    local = local
    q1 = q1
    w1 = w1
    w2 = w2
    Commits = {a, b}
    RelayGroups = {relay}
    LocalGroups = {local}
    Plan <- AmendedLate
    Requests = {q1}
    GroupOf <- OwnedByRelay
    Tokens <- TokensOf
    Usages = {1, 2}
    Rewrites <- EitherWay
    Workers = {w1, w2}
SYMMETRY WorkerSymmetry
INVARIANTS
    TypeOK
    AttributedExactly
    PointersHold
    OnlyOverlapLoses
    NothingLeftBehind
PROPERTIES
    OutcomeIsFinal
    RewriteCompletes
CHECK_DEADLOCK FALSE
