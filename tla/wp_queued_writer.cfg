CONSTANTS
    Readers = {r1, r2}
    Writers = {w1}
SPECIFICATION HSpec
INVARIANT QueuedWriterBlocksNewReaders
