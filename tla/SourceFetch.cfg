CONSTANTS
    linux = linux
    phytium = phytium
    Recipes <- MCRecipes
    Repos <- MCRepos
    RepoNames <- MCRepoNames
    LocalName <- MCLocalName
    MaxVersion = 2
    Pinned = {1, 2}
    Archive = {}
    Disabled = {}
    Cached = {2}
    Lfs = {1}
    CutShort = FALSE
    Reverts = FALSE
    CleanRuns = FALSE
    MaxFaults = 2
SPECIFICATION Spec
INVARIANTS
    TypeOK
    UnpackSerialized
    CopyNotTorn
    UnpackCurrent
    WaitsAscend
PROPERTIES
    NoRewriteAtVersion
    TreeChangesUnderLock
    ImplementsPool
CHECK_DEADLOCK FALSE
