SPECIFICATION Spec
CONSTANTS
    CHAR_BIT = 1
    SizeOf <- Sizes
    FloatBits = 3
    DoubleBits = 5
    MAXARGS = 3
    MAXBITS = 2
    Inexact = Inexact
    LawNumbers <- Laws
    Symbols = {"c"}
    UserNames = {"u"}
    Address <- Addresses
    SymbolType <- SymbolTypes
    Literals <- Lits
    EvalOps = {"ODiv"}
    EvalTypes <- Casts
    InhibitBits = 2
    StrSlots = 1
    MaxStack = 4
    MaxLength = 6
    MaxCalls = 1
CHECK_DEADLOCK FALSE
INVARIANTS WellFormed CleanResults EngineExact
PROPERTY SkippedNoEffect
