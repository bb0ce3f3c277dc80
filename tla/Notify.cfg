SPECIFICATION FirstLeads
CONSTANTS
    w1 = w1
    w2 = w2
    Workers <- TwoWorkers
    MaxPasses = 2
    Default = "digest"
    Webhook = TRUE
    Batch = 2
    MaxAttempts = 2
    Keep = 1
    MaxRows = 2
    MaxSlot = 2
    MaxEvents = 2
INVARIANTS
    TypeOK
    MailedOnceUnlessUncertain
    RecordedIsMailed
PROPERTIES
    NotifySettles
CHECK_DEADLOCK FALSE
