CONSTANTS
    Readers = {r1, r2, r3}
    Writers = {w1, w2}
    NoThread = NoThread
SPECIFICATION FairSpec
INVARIANTS
    MutualExclusion
    IndInv
    SleepersAreMixed
PROPERTIES
    RefinesRWLock
    SomeoneGetsInOrAllSleep
