SPECIFICATION FairSpec
CONSTANTS
    w1 = w1
    w2 = w2
    Workers <- OneWorker
    MaxVersions = 1
    MaxSkills = 1
    MaxSemver = 1
    Prerelease <- NoPrerelease
    Batch = 2
    FaultKinds = {"crash"}
    MaxFaults = 1
PROPERTIES
    YankWithdrawsTag
