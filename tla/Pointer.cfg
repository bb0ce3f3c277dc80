SPECIFICATION FirstLeads
CONSTANTS
    w1 = w1
    w2 = w2
    p1 = p1
    gitRef = gitRef
    hubRef = hubRef
    NoWorker = NoWorker
    Workers <- TwoWorkers
    Proposals <- OneProposal
    Refs <- GitAndHub
    Registry <- HubOnly
    MaxSnapshot = 2
    Flagged = {2}
    Critical = {2}
    MaxSemver = 1
    MaxAttempts = 2
    Lanes = {1}
    MaxTicks = 2
    MaxBreaks = 1
    MaxRevisions = 2
    MaxEvents = 2
INVARIANTS
    TypeOK
    
    PublishedPointerAsJudged
    DriftAnnouncedOnce
PROPERTIES
    QueueDrains
    
    ImplementsPinnedRelease
CHECK_DEADLOCK FALSE
