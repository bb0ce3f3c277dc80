SPECIFICATION Spec
CONSTANTS
    w1 = w1
    w2 = w2
    p1 = p1
    gitRef = gitRef
    hubRef = hubRef
    NoWorker = NoWorker
    Workers <- OneWorker
    Proposals <- OneProposal
    Refs <- GitRef
    Registry = {}
    MaxSnapshot = 2
    Flagged = {2}
    Critical = {2}
    MaxSemver = 1
    MaxAttempts = 1
    Lanes = {1}
    MaxTicks = 1
    MaxBreaks = 0
    MaxRevisions = 2
    MaxEvents = 1
INVARIANTS
    MirroredAsVerified
CHECK_DEADLOCK FALSE
