CONSTANTS
    t1 = t1  t2 = t2  t3 = t3
    NoOne = NoOne
    Threads <- ThreeThreads
    MaxCalls = 3
SPECIFICATION Spec
SYMMETRY ThreadSymmetry
INVARIANT WriteExcludes
