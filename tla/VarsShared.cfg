CONSTANTS
    t1 = t1 t2 = t2 a1 = a1 a2 = a2 a3 = a3 a4 = a4
    None = None Head = Head
    Threads <- TwoThreads
    Addrs <- FourAddrs
    Names <- ThreeNames
    FlushAlone = TRUE
SPECIFICATION Spec
SYMMETRY AllAlike
INVARIANTS IInv RecordsOwned WalkComplete
