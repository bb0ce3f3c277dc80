SPECIFICATION Spec
CONSTANTS
    w1 = w1
    w2 = w2
    Workers <- OneWorker
    MaxVersions = 2
    MaxSkills = 2
    MaxSemver = 1
    Prerelease <- NoPrerelease
    Batch = 2
    FaultKinds = {}
    MaxFaults = 0
INVARIANTS
    PublishedServesItsBytes
