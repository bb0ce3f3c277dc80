SPECIFICATION Spec
CONSTANTS
    r1 = r1
    r2 = r2
    Requests <- TwoRequests
    MaxConsents = 2
    MaxGrants = 2
    MaxTokens = 3
    MaxEvents = 1
SYMMETRY Interchangeable
INVARIANTS
    TypeOK
    LineageNeverForks
    ReplayRevokes
    RevokedNeverServes
CHECK_DEADLOCK FALSE
