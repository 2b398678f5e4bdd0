SPECIFICATION Spec
CONSTANTS
    reset_credit = reset_credit
    send_invitation = send_invitation
    q1 = q1
    q2 = q2
    Actions = {reset_credit}
    Requests = {q1, q2}
    Cap = 3
    Tries = 2
    MaxRows = 3
    Faults = FALSE
SYMMETRY RequestSymmetry
INVARIANTS
    FreshAtStart
CHECK_DEADLOCK FALSE
