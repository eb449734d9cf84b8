SPECIFICATION FairSpec
CONSTANTS
    g1 = g1
    g2 = g2
    Callers <- TwoCallers
    Jobs <- TimeJobs
    MaxFrame = 3
    PipeCap = 2
    MsPerSec = 2
    NsPerMs = 2
    MaxInt64 = 15
INVARIANTS
    TimesBound
