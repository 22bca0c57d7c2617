CONSTANTS
    MainUrl <- MAIN
    MainRev = "v1"
    GoMods <- MCGoMods
    Up <- MCUp
    Dirs <- MCDirs
    GoImport <- MCGoImport
    PkgGoDev <- MCPkgGoDev
    Major <- MCMajor
    Commits <- MCCommits
    Width <- MCWidth
    LstripRequire <- MCLstripRequire
    LstripReplace <- MCLstripReplace
    Underscored <- MCUnderscored
    Hyphened <- MCHyphened
    MaxRuns = 2
    MaxFaults = 1
SPECIFICATION Spec
INVARIANTS
    TypeOK
    RevisionOfItsRepo
    UrlAnswered
    RevisionOfLongestTag
    LostOnlyByFault
    SubpathInTree
    OneSrcrevEach
    UnpackedTogether
    VendoredTogether
CHECK_DEADLOCK FALSE
