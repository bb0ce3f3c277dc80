SPECIFICATION Spec
CONSTANTS
    p1 = p1
    p2 = p2
    k1 = k1
    k2 = k2
    r1 = r1
    r2 = r2
    NoProposal = NoProposal
    NoKey = NoKey
    Proposals <- OneProposal
    Keys <- TwoKeys
    Requests <- TwoRequests
    Calls = {"create", "start_review", "request_changes", "resubmit", "revise", "accept", "reject", "delete"}
    Uploads = {"incomplete"}
    MaxMeta = 1
    MaxSemver = 2
    MaxRevisions = 2
SYMMETRY Interchangeable
INVARIANTS
    TypeOK
    PublishedAsReviewed
    PublishedAsJudged
    OneVersionPerAccept
PROPERTIES
    KeepsLedger
