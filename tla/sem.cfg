CONSTANTS
    Threads = {t1, t2}
    InitialValue = 1
    Timeouts <- MCTimeouts
    Second = 3
    MaxNow = 5
SPECIFICATION FairSpec
INVARIANTS
    UnitsConserved
    GivesUpOnTime
PROPERTY TimedWaitReturns
