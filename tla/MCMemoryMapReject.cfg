SPECIFICATION MCSpec
CONSTANTS
    Maps <- MCMaps
    FileLens = {3, 5}
    Processes <- MCProcesses
    Arguments <- MCArguments
    Lists <- MCLists
    IovMax = 2
    MaxFaults = 1
    kb640 = 1
    kb768 = 2
    kb812 = 3
    kb824 = 4
    kb928 = 5
    kb960 = 6
    mb1 = 7
    gb1 = 10
    gb2 = 20
    mb2816 = 27
    gb3 = 30
    gb4 = 40
    Untouched = Untouched
    NoArg = NoArg
    Regions <- MCRegions
    Queries <- MCQueries
    MaxRegions = 3
    MinBsearch = 3
    NoElem = NoElem
    Dirs <- MCDirs
    SearchPath <- MCSearchPath
    Version = 2
    Names <- MCNames
    MaxObjects = 3
    MaxListed = 2
INVARIANTS
    UnmappedIsRejected
CHECK_DEADLOCK FALSE
