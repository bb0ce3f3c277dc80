SPECIFICATION FirstLeads
CONSTANTS
    w1 = w1
    w2 = w2
    p1 = p1
    x = x
    y = y
    Workers <- TwoWorkers
    Rules <- OneRule
    Contents <- TwoContents
    Digested <- OnlyX
    Batch = 1
    MaxAttempts = 2
    DailyCap = 2
    MaxRuns = 3
    MaxLinks = 5
    MaxEvents = 2
    MaxFaults = 1
INVARIANTS
    TypeOK
    GateOnVerdict
    DoneIsWholeUnlessOverlap
PROPERTIES
    VerdictConverges
CHECK_DEADLOCK FALSE
