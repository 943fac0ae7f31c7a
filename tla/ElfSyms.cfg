SPECIFICATION Spec
CHECK_DEADLOCK FALSE
CONSTANTS
    OffBits = 5
    MaxMalloc = 15
    ShdrSize = 2
    SymSize = 2
    RelSize = 3
    WordSize = 2
    LawLengths = {9}
    LawOffsets = {0, 5, 30}
    Files <- MCFiles
    LinkMaps <- MCLinkMaps
    Own <- MCOwn
    MainName = "main"
    Rank <- MCRank
    Versions <- MCVersions
    LOAD_CHUNK = 6
    MaxPackets = 4
    None = None
    LawSymbols = {1, 2, 3, 5, 6}
    LawBuckets = {1, 3}
INVARIANTS SymbolsComplete MemorySound AllReleased ReadersExact
