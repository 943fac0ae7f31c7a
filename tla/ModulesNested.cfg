CONSTANTS
    t1 = t1 t2 = t2 m1 = m1 m2 = m2 m3 = m3 m4 = m4
    None = None
    Threads <- TwoThreads
    Addrs <- FourAddrs
    Files <- MCFiles
    SysFile <- Sys
    MaxModules = 4
    Nested = TRUE
SPECIFICATION Spec
SYMMETRY Interchangeable
INVARIANT RecordsAccounted
