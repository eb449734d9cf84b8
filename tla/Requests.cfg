SPECIFICATION FairSpec
CONSTANTS
    g1 = g1
    g2 = g2
    Callers <- TwoCallers
    Jobs <- AllJobs
    MaxFrame = 3
    PipeCap = 2
    MsPerSec = 2
    NsPerMs = 2
    MaxInt64 = 15
INVARIANTS
    TypeOK
    FramesWhole
    RowsKept
    ArgsKept
PROPERTIES
    KeepsCalls
    CallsReturn
