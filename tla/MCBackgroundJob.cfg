SPECIFICATION FairSpec
CONSTANTS
    p1 = p1
    p2 = p2
    q1 = q1
    q2 = q2
    Kinds = {"sweep", "prsync", "subscription", "apply"}
    Requesters = {q1, q2}
    Replicas = {p1, p2}
    Host <- EachItsOwn
    Targets = 2
    MaxJobs = 2
    Faults = TRUE
INVARIANTS
    TypeOK
    OverlapIsExcused
    ReportIsTrue
PROPERTIES
    OutcomeStays
    JobEnds
CHECK_DEADLOCK FALSE
