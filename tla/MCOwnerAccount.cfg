SPECIFICATION FairSpec
CONSTANTS
    reset_credit = reset_credit
    send_invitation = send_invitation
    q1 = q1
    q2 = q2
    Actions = {reset_credit}
    Requests = {q1, q2}
    Cap = 2
    Tries = 2
    MaxRows = 3
    Faults = TRUE
INVARIANTS
    IInv
    AdmissionsJustified
    OverlapNeedsSweep
PROPERTIES
    SettledStays
    OperationsEnd
CHECK_DEADLOCK FALSE
