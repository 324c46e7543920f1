CONSTANTS
    Readers = {r1}
    Writers = {w1, w2}
    NoThread = NoThread
SPECIFICATION StrongFairSpec
PROPERTY NoSideStarves
