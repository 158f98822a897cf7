SPECIFICATION StartupSpec
CONSTANTS
    Maps <- MCMaps
    FileLens = {3, 5}
    Processes <- MCProcesses
    Arguments <- MCArguments
    Lists <- MCLists
    IovMax = 2
    MaxFaults = 1
    kb640 = 1
    kb768 = 2
    kb812 = 3
    kb824 = 4
    kb928 = 5
    kb960 = 6
    mb1 = 7
    gb1 = 10
    gb2 = 20
    mb2816 = 27
    gb3 = 30
    gb4 = 40
    Untouched = Untouched
    NoArg = NoArg
    Regions <- MCRegions
    Queries <- MCQueries
    MaxRegions = 3
    MinBsearch = 3
    NoElem = NoElem
    Dirs <- MCDirs
    SearchPath <- MCSearchPath
    Version = 2
    Names <- MCNames
    MaxObjects = 3
    MaxListed = 2
    Builders = {"b1", "b2"}
    Scenarios <- MCScenarios
    OffsetList <- MCOffsetList
    Structs <- MCStructs
    Align = 2
    Chunk = 4
    Reach = 12
INVARIANTS
    YieldedIsRight
    MapIsExact
    TransfersAreTrue
    QemuBijective
    OpenedTheNamed
    MappedWhileUsed
    UnmappedWhenFreed
    LostOnlyFromLists
    OffsetsFit
    NotFoundIsTrue
    NoEmptyLeftovers
    AddedOnce
PROPERTIES
    BuildEnds
    MapEnds
    NamesStayBound
CHECK_DEADLOCK FALSE
