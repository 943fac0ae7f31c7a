CONSTANTS
    r1 = r1  r2 = r2  w1 = w1  w2 = w2
    NoOne = NoOne
    Threads <- ThreeThreads
    Writers = {w1}
    MaxNest = 2
    MaxCalls = 2
SPECIFICATION FairSpec
INVARIANT NoLostWakeup
PROPERTY EverybodyGetsIn
