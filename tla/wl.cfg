CONSTANTS
    Readers = {r1, r2}
    Writers = {w1, w2}
    TotalOps = 2
    AbortTarget = w1
    NoThread = NoThread
    Sims = 2
SPECIFICATION FairSpec
INVARIANTS
    TypeOK
    OpsBalance
    AllOpsDone
    ReadersSeeWholeWrites
    AbortedWriterStops
    ReadCountOnlyLoses
PROPERTY Termination
CHECK_DEADLOCK FALSE
