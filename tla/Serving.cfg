SPECIFICATION FairSpec
CONSTANTS
    w1 = w1
    w2 = w2
    Workers <- OneWorker
    MaxVersions = 2
    MaxSkills = 2
    MaxSemver = 2
    Prerelease <- LastPrerelease
    Batch = 2
    FaultKinds = {"crash", "git", "withdraw", "volume", "object"}
    MaxFaults = 1
INVARIANTS
    TypeOK
    QuarantinedNeverServed
    MainIsStable
PROPERTIES
    
    YankWithdrawsTagUnlessFault
    RefSetConverges
