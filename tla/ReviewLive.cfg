SPECIFICATION FairSpec
CONSTANTS
    p1 = p1
    p2 = p2
    k1 = k1
    k2 = k2
    r1 = r1
    r2 = r2
    NoProposal = NoProposal
    NoKey = NoKey
    Proposals <- OneProposal
    Keys <- OneKey
    Requests <- TwoRequests
    Calls = {"create", "start_review", "accept", "publish", "delete"}
    Uploads = {"high"}
    MaxMeta = 1
    MaxSemver = 2
    MaxRevisions = 1
INVARIANTS
    SemversIncrease
    
PROPERTIES
    RequestsFinish
