SPECIFICATION Spec
CHECK_DEADLOCK FALSE
CONSTANTS
    WordBits = 8
    HalfBits = 4
    ByteBits = 2
    BranchBits = 6
    InsnBits = 1
    LoBits = 3
    AddrBits = 16
    LawWords = {0, 5, 170}
    LawValues <- MCLawValues
    LawAddends = {0, 1}
    LawPlaces = {0, 1, 2, 4, 7, 12}
    LawSize = 12
    Objects <- MCObjects
    SystemAtts <- MCSystemAtts
    Segments <- MCSegments
    Regions <- MCRegions
    LongBytes = 2
    Cpu = "powerpc"
    MaxLoads = 2
    CpuAlignment = 4
    Limit = 32
    None = None
    Machine = "EM_PPC"
    LinkOnceNames = {".gnu.linkonce.x"}
INVARIANTS
    TakenReturned ContentsPlaced InitializationOrdered AbisAgree GroupsWhole RelocatorsExact
PROPERTY LoadReturns
