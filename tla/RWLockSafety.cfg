CONSTANTS
    r1 = r1  r2 = r2  w1 = w1  w2 = w2
    NoOne = NoOne
    Threads <- TwoWritersReader
    Writers <- TwoWriters
    MaxNest = 2
    MaxCalls = 3
SPECIFICATION Spec
INVARIANTS Exclusion IInv
PROPERTY LockSpec
CHECK_DEADLOCK FALSE
