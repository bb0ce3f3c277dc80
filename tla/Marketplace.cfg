SPECIFICATION FairSpec
CONSTANTS
    skA = skA
    skB = skB
    plA = plA
    plB = plB
    s1 = s1
    s2 = s2
    f1 = f1
    f2 = f2
    Skills <- TwoSkills
    Plugins <- TwoPlugins
    Sweeps <- TwoSweeps
    Fetches <- OneFetch
    MaxSemver = 2
    MaxTokens = 1
    MaxEvents = 2
INVARIANTS
    VersionNamesContent
    CursorCredited
PROPERTIES
    MarketplaceConverges
