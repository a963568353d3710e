SPECIFICATION FairSpec
CONSTANTS
    m1 = m1
    m2 = m2
    Identifiers = {m1, m2}
    Requests = {r1, r2}
    Initial <- OneManager
    None = none
    MaxFailures = 1
INVARIANTS
    TypeOK
    AcceptedIsKept
    FileIsMemory
    OnlyOptionsOverlap
    ManagersAreConfigured
    OpenedOnce

    
CHECK_DEADLOCK FALSE
