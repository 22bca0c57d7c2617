CONSTANTS
    rustc = rustc
    cargo = cargo
    upx = upx
    buildA = buildA
    buildB = buildB
    rust = rust
    tools = tools
    Nobody = Nobody
    Recipes <- MCRecipes
    Builds <- MCBuilds
    BuildOf <- MCBuildOf
    SubDirs <- MCSubDirs
    SubDir <- MCSubDir
    Changing <- MCChanging
    MaxVersion = 2
    MaxRetries = 5
    MaxFaults = 2
SPECIFICATION FairSpec
INVARIANTS
    TypeOK
    UnpacksOneVersion
PROPERTIES
    ClearsOnlyStale
    DownloadDelivers
    OnlyFaultsFail
    EveryRecipeEnds
CHECK_DEADLOCK FALSE
